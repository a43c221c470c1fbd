----------------------------- MODULE Items_proofs -----------------------------
(***************************************************************************)
(* What is proved of Items for any workers, keys and chunks and any        *)
(* bounds: reference counts, and that hash table and queues agree.         *)
(*                                                                         *)
(* A thread changes one key at a time and has its item lock, or changes    *)
(* only a reference it has.  So a step is described once by what it does   *)
(* to the items it touches and to its own hold on them (Touched), and that *)
(* the invariant stays is proved once, for any such step (StepInv).  The   *)
(* lemma of an action shows that the action is such a step.                *)
(***************************************************************************)
EXTENDS Items, TLAPS, FiniteSetTheorems, SequenceTheorems

-----------------------------------------------------------------------------
(* The vocabulary of the proof. *)

Walkers == Workers \cup {"maintainer"}
PullRequest == [q : Queues, evict : BOOLEAN]

\* What is in a queue.
RangeOf(list) == {list[n] : n \in DOMAIN list}
At(q) == RangeOf(queue[q])

NoDuplicates(list) == \A m, n \in DOMAIN list : list[m] = list[n] => m = n

\* Who holds an item.
InHandOf(p, i) == p # None /\ p.it = i
Its(i)   == {w \in Workers : c[w].it = i}
Olds(i)  == {w \in Workers : c[w].old = i}
News(i)  == {w \in Workers : c[w].new = i}
Pulls(i) == {t \in Walkers : InHandOf(pull[t], i)}

\* Steps in which a worker holds the item lock of its key.
Locked == {"reap", "found", "swap", "link", "release", "unlinking",
           "refresh", "relink_got", "relink_refresh"}
Commands(w) == c[w].pc \in Locked \/ (c[w].pc = "alloc" /\ c[w].old # None)

\* An item is out of the table and still in its queue, or the other way round.
Unqueues(w, i) == \/ c[w].pc \in {"reap", "swap"} /\ c[w].old = i
                  \/ c[w].pc = "unlinking" /\ c[w].it = i
Requeues(w, i) == \/ c[w].pc = "relink_got" /\ c[w].it = i
                  \/ c[w].pc = "relink_refresh" /\ c[w].old = i
Moves(t, i)    == InHandOf(pull[t], i) /\ pull[t].move # None

Between(i) == \E w \in Workers : Unqueues(w, i)
Away(i)    == (\E w \in Workers : Requeues(w, i)) \/ \E t \in Walkers : Moves(t, i)

\* What a worker has allocated and not linked yet.
Fresh(w, i) ==
  \/ c[w].it = i /\ c[w].pc \in {"nread", "reap", "found", "alloc", "swap", "link"}
  \/ c[w].new = i /\ c[w].pc \in {"swap", "link"}

-----------------------------------------------------------------------------
(* The inductive invariant. *)

Fields == {"pc", "cmd", "key", "unique", "it", "old", "new", "tries", "todo", "told"}
Pcs == {"new_cmd", "got", "format", "done", "drop", "unlink", "stale", "nread", "alloc"} \cup Locked

IsTable(d)      == d = [w \in Workers |-> d[w]]
IsConnection(d) == d = [f \in Fields |-> d[f]]

\* Where a command is, and which items it has.
ConnectionOK(d) ==
  /\ d.pc \in Pcs /\ d.key \in Keys \cup {None} /\ d.todo \in Seq(PullRequest)
  /\ {d.it, d.old, d.new} \subseteq Chunks \cup {None}
  /\ d.pc # "new_cmd" => d.key \in Keys
  /\ d.pc \in {"new_cmd", "done", "stale"} => d.it = None
  /\ d.pc \in {"got", "format", "relink_got", "unlink", "unlinking", "drop", "nread"} => d.it # None
  /\ d.pc \in {"new_cmd", "done", "stale", "got", "format", "relink_got", "unlink",
               "unlinking", "drop", "nread"} => d.old = None
  /\ d.pc \in {"reap", "swap", "refresh", "relink_refresh"} => d.old # None
  /\ d.new # None => d.pc \in {"swap", "link", "release"} /\ d.old # None /\ d.old # d.new
  /\ d.it # None => d.it # d.old /\ d.it # d.new
  /\ d.pc \in {"swap", "link"} => (d.it # None /\ d.cmd # "incr") \/ d.new # None
  /\ d.pc = "alloc" /\ d.old = None => d.it = None
  /\ d.pc = "found" => d.it # None \/ d.cmd = "incr"
  /\ d.pc = "alloc" /\ d.old = None => d.cmd # "incr"
  /\ d.pc = "alloc" /\ d.old # None => d.cmd = "incr" \/ (d.cmd = "append" /\ d.it # None)
  /\ d.pc \in {"swap", "link"} => /\ d.it # None \/ d.cmd = "incr"
                                 /\ ~(d.cmd = "cas" /\ d.unique = 0)

Headers ==
  [key : Keys \cup {None}, val : (0..MaxVal) \cup {Empty}, cas : Nat, ver : Nat, expired : BOOLEAN,
   lru : Queues \cup {"none"}, linked : BOOLEAN, active : BOOLEAN, refcount : Nat]

TypesOK ==
  /\ settings \in Settings
  /\ item \in [Chunks -> Headers]
  /\ hash \in [Keys -> Chunks \cup {None}]
  /\ queue \in [Queues -> Seq(Chunks \cup {"crawler"})]
  /\ cas_id \in Nat
  /\ item_lock \in [Keys -> Threads \cup {None}]
  /\ lru_lock \in [Queues -> Threads \cup {None}]
  /\ pull \in [Walkers -> PullRecord \cup {None}]
  /\ IsTable(c)
  /\ \A w \in Workers : IsConnection(c[w])

\* Who works on a key has its lock, works on items of that key, and knows what the table
\* has of it.
WorkerOK(w) ==
  /\ ConnectionOK(c[w])
  /\ Commands(w) => item_lock[c[w].key] = w
  /\ pull[w] # None => c[w].pc = "alloc"
  /\ \A i \in Chunks : i \in {c[w].it, c[w].old, c[w].new} => item[i].key = c[w].key
  /\ c[w].pc = "found" \/ (c[w].pc = "alloc" /\ c[w].old # None) => hash[c[w].key] = c[w].old
  /\ c[w].pc \in {"reap", "swap", "link"} => hash[c[w].key] = None

\* A walker is on an entry of the queue it has locked, or has an item in hand with its lock.
WalkerOK(t) ==
  /\ \A i \in Chunks : InHandOf(pull[t], i) =>
       /\ item[i].key \in Keys /\ item_lock[item[i].key] = t
       /\ t \in Workers /\ Commands(t) => item[i].key # c[t].key
  /\ pull[t] # None /\ pull[t].it = None =>
       /\ lru_lock[pull[t].q] = t
       /\ pull[t].search \in At(pull[t].q)
       /\ pull[t].move = None
       /\ t \in Workers /\ Commands(t) => pull[t].cur = c[t].key

\* The hash table agrees with the headers.
Tabled(i) ==
  /\ item[i] # Slabbed => item[i].key \in Keys /\ item[i].lru \in Queues
  /\ item[i].linked => item[i].key \in Keys /\ hash[item[i].key] = i

TableOK ==
  /\ \A i \in Chunks : Tabled(i)
  /\ \A k \in Keys : hash[k] # None => item[hash[k]].linked /\ item[hash[k]].key = k

\* An item is in its queue while it is linked, but for the moments in between; what has
\* been allocated and not linked is nobody else's.
Placed(i) ==
  /\ \A q \in Queues : i \in At(q) <=> q = item[i].lru /\ (Between(i) \/ (item[i].linked /\ ~Away(i)))
  /\ \A w \in Workers :
       /\ Unqueues(w, i) => ~item[i].linked
       /\ Requeues(w, i) => item[i].linked
       /\ Fresh(w, i) => ~item[i].linked
  /\ \A w, v \in Workers :
       Fresh(w, i) => /\ c[v].it = i => v = w /\ c[v].new # i
                      /\ c[v].new = i => v = w
                      /\ c[v].old # i
  /\ \A w \in Workers, t \in Walkers : ~(Fresh(w, i) /\ InHandOf(pull[t], i))
  /\ \A t \in Walkers : Moves(t, i) => item[i].linked

\* A crawler is in the queues where it runs.
CrawlersOK ==
  /\ crawlers \in [asked : {Lrus, <<"warm", "cold">>, <<"cold">>, <<>>}, running : SUBSET Queues]
  /\ \A n \in DOMAIN crawlers.asked : crawlers.asked[n] \notin crawlers.running
  /\ \A q \in Queues : "crawler" \in At(q) <=> q \in crawlers.running

\* References.
Hands(i)  == Cardinality(Its(i)) + Cardinality(Olds(i)) + Cardinality(News(i))
Pulled(i) == Cardinality(Pulls(i))
Linked(i) == IF Between(i) \/ item[i].linked THEN 1 ELSE 0
Refs(i)   == Hands(i) + Pulled(i) + Linked(i)

\* An incr may still leak the reference it has taken.
Incring(w, i) == Commands(w) /\ c[w].cmd = "incr" /\ c[w].old = i

Counted(i) ==
  /\ item[i].refcount >= Refs(i)
  /\ item[i].refcount > Refs(i) => item[i].val = Empty
  /\ item[i].refcount - Refs(i) <= MaxRefs
  /\ \A w \in Workers : Incring(w, i) => item[i].refcount - Refs(i) < MaxRefs

\* The cas ids that commands on their way may still take.
Pending(w) ==
  /\ c[w].pc \in {"reap", "found", "alloc", "swap", "link"}
  /\ c[w].it # None \/ c[w].cmd = "incr"
  /\ ~(c[w].cmd = "cas" /\ c[w].unique = 0)
Pendings == {w \in Workers : Pending(w)}

CasOf(i) ==
  /\ item[i].cas <= cas_id /\ item[i].ver <= cas_id
  /\ item[i].linked => item[i].cas > 0

IInv ==
  /\ TypesOK
  /\ \A w \in Workers : WorkerOK(w)
  /\ \A t \in Walkers : WalkerOK(t)
  /\ TableOK
  /\ \A q \in Queues : NoDuplicates(queue[q])
  /\ \A i \in Chunks : Placed(i) /\ Counted(i) /\ CasOf(i)
  /\ CrawlersOK
  /\ cas_id + Cardinality(Pendings) <= LastCas


-----------------------------------------------------------------------------
(* Lists without duplicates. *)

LEMMA RemoveAtFacts ==
  ASSUME NEW S, NEW list \in Seq(S), NEW k \in 1..Len(list)
  PROVE  /\ RemoveAt(list, k) \in Seq(S)
         /\ Len(RemoveAt(list, k)) = Len(list) - 1
         /\ \A n \in 1..(Len(list) - 1) :
              RemoveAt(list, k)[n] = IF n < k THEN list[n] ELSE list[n + 1]
<1>1. Len(list) \in Nat /\ k \in Nat /\ k <= Len(list) /\ 1 <= k
  BY LenProperties
<1> DEFINE a == SubSeq(list, 1, k - 1)
           b == SubSeq(list, k + 1, Len(list))
<1>2. a \in Seq(S) /\ Len(a) = k - 1 /\ \A n \in 1..(k - 1) : a[n] = list[n]
  BY <1>1
<1>3. b \in Seq(S) /\ Len(b) = Len(list) - k /\ \A n \in 1..(Len(list) - k) : b[n] = list[n + k]
  BY <1>1
<1>4. RemoveAt(list, k) = a \o b
  BY DEF RemoveAt
<1> HIDE DEF a, b
<1>5. a \o b \in Seq(S) /\ Len(a \o b) = Len(list) - 1
  <2>1. a \o b \in Seq(S) /\ Len(a \o b) = Len(a) + Len(b)
    BY <1>2, <1>3, ConcatProperties
  <2> QED BY <1>1, <1>2, <1>3, <2>1
<1>6. ASSUME NEW n \in 1..(Len(list) - 1)
      PROVE  (a \o b)[n] = IF n < k THEN list[n] ELSE list[n + 1]
  <2>1. (a \o b)[n] = IF n <= Len(a) THEN a[n] ELSE b[n - Len(a)]
    BY <1>1, <1>2, <1>3, ConcatProperties
  <2>2. CASE n < k
    BY <1>1, <1>2, <2>1, <2>2
  <2>3. CASE ~(n < k)
    <3>1. n - Len(a) \in 1..(Len(list) - k) /\ n - Len(a) + k = n + 1
      BY <1>1, <1>2, <2>3
    <3> QED BY <1>1, <1>2, <1>3, <2>1, <2>3, <3>1
  <2> QED BY <2>2, <2>3
<1> QED BY <1>4, <1>5, <1>6

LEMMA WithoutFacts ==
  ASSUME NEW S, NEW list \in Seq(S), NoDuplicates(list), NEW x \in RangeOf(list)
  PROVE  /\ Without(list, x) \in Seq(S) /\ NoDuplicates(Without(list, x))
         /\ RangeOf(Without(list, x)) = RangeOf(list) \ {x}
<1> DEFINE k == PlaceOf(list, x)
           rest == Without(list, x)
<1>1. Len(list) \in Nat /\ DOMAIN list = 1..Len(list)
  BY LenProperties
<1>2. k \in 1..Len(list) /\ list[k] = x
  BY <1>1 DEF RangeOf, PlaceOf
<1>3. rest = RemoveAt(list, k)
  BY DEF Without, RangeOf
<1> HIDE DEF k, rest
<1>4. /\ rest \in Seq(S) /\ Len(rest) = Len(list) - 1
      /\ \A n \in 1..(Len(list) - 1) : rest[n] = IF n < k THEN list[n] ELSE list[n + 1]
  BY <1>2, <1>3, RemoveAtFacts
<1>5. DOMAIN rest = 1..(Len(list) - 1)
  BY <1>4, LenProperties
<1>6. NoDuplicates(rest)
  BY <1>1, <1>2, <1>4, <1>5, SMTT(30) DEF NoDuplicates
<1>7. RangeOf(rest) \subseteq RangeOf(list) \ {x}
  <2> SUFFICES ASSUME NEW n \in 1..(Len(list) - 1) PROVE rest[n] \in RangeOf(list) \ {x}
    BY <1>5 DEF RangeOf
  <2>1. PICK m \in 1..Len(list) : m # k /\ rest[n] = list[m]
    BY <1>1, <1>2, <1>4
  <2> QED BY <1>1, <1>2, <2>1 DEF RangeOf, NoDuplicates
<1>8. RangeOf(list) \ {x} \subseteq RangeOf(rest)
  <2> SUFFICES ASSUME NEW m \in 1..Len(list), list[m] # x PROVE list[m] \in RangeOf(rest)
    BY <1>1 DEF RangeOf
  <2>1. PICK n \in 1..(Len(list) - 1) : rest[n] = list[m]
    <3>1. CASE m < k
      <4>1. m \in 1..(Len(list) - 1) /\ rest[m] = list[m]
        BY <1>1, <1>2, <1>4, <3>1
      <4> QED BY <4>1
    <3>2. CASE m > k
      <4>1. m - 1 \in 1..(Len(list) - 1) /\ rest[m - 1] = list[m]
        BY <1>1, <1>2, <1>4, <3>2
      <4> QED BY <4>1
    <3> QED BY <1>2, <3>1, <3>2
  <2> QED BY <1>5, <2>1 DEF RangeOf
<1> QED BY <1>4, <1>6, <1>7, <1>8 DEF rest

LEMMA LinkFacts ==
  ASSUME NEW S, NEW list \in Seq(S), NoDuplicates(list), NEW x \in S, x \notin RangeOf(list)
  PROVE  /\ <<x>> \o list \in Seq(S) /\ NoDuplicates(<<x>> \o list)
         /\ RangeOf(<<x>> \o list) = RangeOf(list) \cup {x}
<1> DEFINE more == <<x>> \o list
<1>1. Len(list) \in Nat /\ DOMAIN list = 1..Len(list)
  BY LenProperties
<1>2. <<x>> \in Seq(S) /\ Len(<<x>>) = 1 /\ <<x>>[1] = x
  OBVIOUS
<1>3. more \in Seq(S) /\ Len(more) = Len(list) + 1
  BY <1>1, <1>2, ConcatProperties
<1>4. \A n \in 1..(Len(list) + 1) : more[n] = IF n <= 1 THEN <<x>>[n] ELSE list[n - 1]
  BY <1>1, <1>2, ConcatProperties
<1> HIDE DEF more
<1>5. DOMAIN more = 1..(Len(list) + 1)
  BY <1>3, LenProperties
<1>6. more[1] = x /\ \A n \in 2..(Len(list) + 1) : more[n] = list[n - 1]
  BY <1>1, <1>2, <1>4
<1>7. \A n \in 1..Len(list) : list[n] # x
  BY <1>1 DEF RangeOf
<1>8. NoDuplicates(more)
  <2> SUFFICES ASSUME NEW m \in 1..(Len(list) + 1), NEW n \in 1..(Len(list) + 1), more[m] = more[n]
               PROVE  m = n
    BY <1>5 DEF NoDuplicates
  <2>1. \A l \in 1..(Len(list) + 1) : l = 1 \/ (l - 1 \in 1..Len(list) /\ more[l] = list[l - 1])
    BY <1>1, <1>6
  <2>2. m - 1 \in 1..Len(list) /\ n - 1 \in 1..Len(list) => m - 1 = n - 1
    BY <1>1, <2>1, <1>6 DEF NoDuplicates
  <2> QED BY <1>1, <1>6, <1>7, <2>1, <2>2
<1>9. RangeOf(more) \subseteq RangeOf(list) \cup {x}
  BY <1>1, <1>5, <1>6 DEF RangeOf
<1>10. RangeOf(list) \cup {x} \subseteq RangeOf(more)
  <2>1. x \in RangeOf(more)
    BY <1>1, <1>5, <1>6 DEF RangeOf
  <2>2. ASSUME NEW m \in 1..Len(list) PROVE list[m] \in RangeOf(more)
    <3>1. m + 1 \in 2..(Len(list) + 1) /\ more[m + 1] = list[m] /\ m + 1 \in DOMAIN more
      BY <1>1, <1>5, <1>6
    <3> QED BY <3>1 DEF RangeOf
  <2> QED BY <1>1, <2>1, <2>2 DEF RangeOf
<1> QED BY <1>3, <1>8, <1>9, <1>10 DEF more

LEMMA AppendFacts ==
  ASSUME NEW S, NEW list \in Seq(S), NoDuplicates(list), NEW x \in S, x \notin RangeOf(list)
  PROVE  /\ Append(list, x) \in Seq(S) /\ NoDuplicates(Append(list, x))
         /\ RangeOf(Append(list, x)) = RangeOf(list) \cup {x}
<1> DEFINE more == Append(list, x)
<1>1. Len(list) \in Nat /\ DOMAIN list = 1..Len(list)
  BY LenProperties
<1>2. /\ more \in Seq(S) /\ Len(more) = Len(list) + 1
      /\ more[Len(list) + 1] = x /\ \A n \in 1..Len(list) : more[n] = list[n]
  BY <1>1, AppendProperties
<1> HIDE DEF more
<1>3. DOMAIN more = 1..(Len(list) + 1)
  BY <1>2, LenProperties
<1>4. \A n \in 1..Len(list) : list[n] # x
  BY <1>1 DEF RangeOf
<1>5. \A n \in 1..(Len(list) + 1) : n \in 1..Len(list) \/ n = Len(list) + 1
  BY <1>1
<1>6. NoDuplicates(more)
  BY <1>1, <1>2, <1>3, <1>4, <1>5 DEF NoDuplicates
<1>7. RangeOf(more) = RangeOf(list) \cup {x}
  <2>1. RangeOf(more) \subseteq RangeOf(list) \cup {x}
    BY <1>1, <1>2, <1>3, <1>5 DEF RangeOf
  <2>2. \A n \in 1..Len(list) : n \in DOMAIN more
    BY <1>1, <1>3
  <2>3. RangeOf(list) \subseteq RangeOf(more)
    BY <1>1, <1>2, <2>2 DEF RangeOf
  <2>4. x \in RangeOf(more)
    BY <1>1, <1>2, <1>3 DEF RangeOf
  <2> QED BY <2>1, <2>3, <2>4
<1> QED BY <1>2, <1>6, <1>7 DEF more

LEMMA TailFacts ==
  ASSUME NEW S, NEW list \in Seq(S), NoDuplicates(list), list # <<>>
  PROVE  /\ Tail(list) \in Seq(S) /\ NoDuplicates(Tail(list))
         /\ RangeOf(Tail(list)) = RangeOf(list) \ {list[1]}
<1> DEFINE rest == Tail(list)
<1>1. Len(list) \in Nat /\ DOMAIN list = 1..Len(list) /\ Len(list) # 0
  BY LenProperties, EmptySeq
<1>2. /\ rest \in Seq(S) /\ Len(rest) = Len(list) - 1
      /\ \A n \in 1..(Len(list) - 1) : rest[n] = list[n + 1]
  BY <1>1, HeadTailProperties
<1> HIDE DEF rest
<1>3. DOMAIN rest = 1..(Len(list) - 1)
  BY <1>2, LenProperties
<1>4. NoDuplicates(rest)
  <2> SUFFICES ASSUME NEW m \in 1..(Len(list) - 1), NEW n \in 1..(Len(list) - 1), rest[m] = rest[n]
               PROVE  m = n
    BY <1>3 DEF NoDuplicates
  <2>1. m + 1 \in DOMAIN list /\ n + 1 \in DOMAIN list /\ list[m + 1] = list[n + 1]
    BY <1>1, <1>2
  <2>2. m + 1 = n + 1
    BY <2>1 DEF NoDuplicates
  <2> QED BY <2>2
<1>5. RangeOf(rest) \subseteq RangeOf(list) \ {list[1]}
  BY <1>1, <1>2, <1>3 DEF RangeOf, NoDuplicates
<1>6. ASSUME NEW m \in 1..Len(list), list[m] # list[1] PROVE list[m] \in RangeOf(rest)
  <2>1. m - 1 \in DOMAIN rest /\ rest[m - 1] = list[m]
    BY <1>1, <1>2, <1>3, <1>6
  <2> QED BY <2>1 DEF RangeOf
<1>7. RangeOf(list) \ {list[1]} \subseteq RangeOf(rest)
  BY <1>1, <1>6 DEF RangeOf
<1> QED BY <1>2, <1>4, <1>5, <1>7 DEF rest

-----------------------------------------------------------------------------
(* Queues, headers and references. *)

LEMMA UnlinkQueue ==
  ASSUME NEW Q \in [Queues -> Seq(Chunks \cup {"crawler"})], NEW q \in Queues, NEW i \in Chunks,
         \A r \in Queues : NoDuplicates(Q[r]), i \in RangeOf(Q[q])
  PROVE  /\ do_item_unlink_q(Q, q, i) \in [Queues -> Seq(Chunks \cup {"crawler"})]
         /\ \A r \in Queues : NoDuplicates(do_item_unlink_q(Q, q, i)[r])
         /\ RangeOf(do_item_unlink_q(Q, q, i)[q]) = RangeOf(Q[q]) \ {i}
         /\ \A r \in Queues \ {q} : do_item_unlink_q(Q, q, i)[r] = Q[r]
<1>1. /\ Without(Q[q], i) \in Seq(Chunks \cup {"crawler"}) /\ NoDuplicates(Without(Q[q], i))
      /\ RangeOf(Without(Q[q], i)) = RangeOf(Q[q]) \ {i}
  BY WithoutFacts
<1> QED BY <1>1 DEF do_item_unlink_q

LEMMA LinkQueue ==
  ASSUME NEW Q \in [Queues -> Seq(Chunks \cup {"crawler"})], NEW q \in Queues, NEW i \in Chunks,
         \A r \in Queues : NoDuplicates(Q[r]), i \notin RangeOf(Q[q])
  PROVE  /\ do_item_link_q(Q, q, i) \in [Queues -> Seq(Chunks \cup {"crawler"})]
         /\ \A r \in Queues : NoDuplicates(do_item_link_q(Q, q, i)[r])
         /\ RangeOf(do_item_link_q(Q, q, i)[q]) = RangeOf(Q[q]) \cup {i}
         /\ \A r \in Queues \ {q} : do_item_link_q(Q, q, i)[r] = Q[r]
<1>1. /\ <<i>> \o Q[q] \in Seq(Chunks \cup {"crawler"}) /\ NoDuplicates(<<i>> \o Q[q])
      /\ RangeOf(<<i>> \o Q[q]) = RangeOf(Q[q]) \cup {i}
  BY LinkFacts
<1> QED BY <1>1 DEF do_item_link_q

LEMMA RemoveItem ==
  ASSUME NEW I \in [Chunks -> Headers], NEW i \in Chunks, I[i].refcount >= 1
  PROVE  /\ do_item_remove(I, i) \in [Chunks -> Headers]
         /\ \A j \in Chunks \ {i} : do_item_remove(I, i)[j] = I[j]
         /\ do_item_remove(I, i)[i].refcount = I[i].refcount - 1
         /\ I[i].refcount = 1 => do_item_remove(I, i)[i] = Slabbed
         /\ I[i].refcount > 1 => do_item_remove(I, i)[i] = [I[i] EXCEPT !.refcount = @ - 1]
<1>1. I[i] \in Headers /\ I[i].refcount \in Nat
  BY DEF Headers
<1>2. Slabbed \in Headers /\ Slabbed.refcount = 0
  BY ItemsAssumption DEF Slabbed, Headers, Empty
<1>3. I[i].refcount > 1 => [I[i] EXCEPT !.refcount = @ - 1] \in Headers
  BY <1>1 DEF Headers
<1>4. CASE I[i].refcount = 1
  BY <1>2, <1>4 DEF do_item_remove
<1>5. CASE I[i].refcount > 1
  <2>1. do_item_remove(I, i) = [I EXCEPT ![i] = [I[i] EXCEPT !.refcount = @ - 1]]
    BY <1>1, <1>5 DEF do_item_remove
  <2> QED BY <1>1, <1>3, <1>5, <2>1 DEF Headers
<1> QED BY <1>1, <1>4, <1>5

LEMMA OneMore ==
  ASSUME NEW S, NEW x, IsFiniteSet(S), x \notin S
  PROVE  Cardinality(S \cup {x}) = Cardinality(S) + 1
BY FS_AddElement

LEMMA OneLess ==
  ASSUME NEW S, NEW x, IsFiniteSet(S), x \in S
  PROVE  Cardinality(S \ {x}) = Cardinality(S) - 1 /\ Cardinality(S) - 1 \in Nat
<1>1. Cardinality(S \ {x}) = Cardinality(S) - 1
  BY FS_RemoveElement
<1>2. Cardinality(S \ {x}) \in Nat
  BY FS_RemoveElement, FS_CardinalityType
<1> QED BY <1>1, <1>2

Hold(b) == IF b THEN 1 ELSE 0

\* Of a set of threads, all but one stay in or out.
LEMMA SetStep ==
  ASSUME NEW All, IsFiniteSet(All), NEW S \in SUBSET All, NEW R \in SUBSET All, NEW w,
         \A v \in All \ {w} : v \in S <=> v \in R, w \in All
  PROVE  /\ Cardinality(S) \in Nat /\ Cardinality(R) \in Nat
         /\ Cardinality(R) = Cardinality(S) - Hold(w \in S) + Hold(w \in R)
<1>1. IsFiniteSet(S) /\ IsFiniteSet(R) /\ Cardinality(S) \in Nat /\ Cardinality(R) \in Nat
  BY FS_Subset, FS_CardinalityType
<1>2. CASE (w \in S <=> w \in R)
  <2>1. S = R
    BY <1>2
  <2> QED BY <1>1, <1>2, <2>1 DEF Hold
<1>3. CASE w \in S /\ w \notin R
  <2>1. R = S \ {w}
    BY <1>3
  <2>2. Cardinality(R) = Cardinality(S) - 1
    BY <1>1, <1>3, <2>1, OneLess
  <2> QED BY <1>1, <1>3, <2>2 DEF Hold
<1>4. CASE w \notin S /\ w \in R
  <2>1. R = S \cup {w}
    BY <1>4
  <2>2. Cardinality(R) = Cardinality(S) + 1
    BY <1>1, <1>4, <2>1, OneMore
  <2> QED BY <1>1, <1>4, <2>2 DEF Hold
<1> QED BY <1>2, <1>3, <1>4

\* The references a connection holds.
Held(d, i) == Hold(d.it = i) + Hold(d.old = i) + Hold(d.new = i)

LEMMA HandsStep ==
  ASSUME NEW w \in Workers, \A v \in Workers \ {w} : c'[v] = c[v], NEW i
  PROVE  /\ Hands(i) \in Nat /\ Hands(i)' \in Nat
         /\ Hands(i)' = Hands(i) - Held(c[w], i) + Held(c'[w], i)
<1>1. IsFiniteSet(Workers)
  BY ItemsAssumption
<1>2. /\ Cardinality(Its(i)) \in Nat /\ Cardinality(Its(i)') \in Nat
      /\ Cardinality(Its(i)') = Cardinality(Its(i)) - Hold(c[w].it = i) + Hold(c'[w].it = i)
  <2> DEFINE S == {v \in Workers : c[v].it = i}
             R == {v \in Workers : c'[v].it = i}
  <2>1. \A v \in Workers \ {w} : v \in S <=> v \in R
    OBVIOUS
  <2>2. (w \in S <=> c[w].it = i) /\ (w \in R <=> c'[w].it = i)
    OBVIOUS
  <2>3. S \in SUBSET Workers /\ R \in SUBSET Workers
    OBVIOUS
  <2> HIDE DEF S, R
  <2>4. /\ Cardinality(S) \in Nat /\ Cardinality(R) \in Nat
        /\ Cardinality(R) = Cardinality(S) - Hold(w \in S) + Hold(w \in R)
    BY <1>1, <2>1, <2>3, SetStep
  <2>5. Hold(w \in S) = Hold(c[w].it = i) /\ Hold(w \in R) = Hold(c'[w].it = i)
    BY <2>2 DEF Hold
  <2> QED BY <2>4, <2>5 DEF S, R, Its
<1>3. /\ Cardinality(Olds(i)) \in Nat /\ Cardinality(Olds(i)') \in Nat
      /\ Cardinality(Olds(i)') = Cardinality(Olds(i)) - Hold(c[w].old = i) + Hold(c'[w].old = i)
  <2> DEFINE S == {v \in Workers : c[v].old = i}
             R == {v \in Workers : c'[v].old = i}
  <2>1. \A v \in Workers \ {w} : v \in S <=> v \in R
    OBVIOUS
  <2>2. (w \in S <=> c[w].old = i) /\ (w \in R <=> c'[w].old = i)
    OBVIOUS
  <2>3. S \in SUBSET Workers /\ R \in SUBSET Workers
    OBVIOUS
  <2> HIDE DEF S, R
  <2>4. /\ Cardinality(S) \in Nat /\ Cardinality(R) \in Nat
        /\ Cardinality(R) = Cardinality(S) - Hold(w \in S) + Hold(w \in R)
    BY <1>1, <2>1, <2>3, SetStep
  <2>5. Hold(w \in S) = Hold(c[w].old = i) /\ Hold(w \in R) = Hold(c'[w].old = i)
    BY <2>2 DEF Hold
  <2> QED BY <2>4, <2>5 DEF S, R, Olds
<1>4. /\ Cardinality(News(i)) \in Nat /\ Cardinality(News(i)') \in Nat
      /\ Cardinality(News(i)') = Cardinality(News(i)) - Hold(c[w].new = i) + Hold(c'[w].new = i)
  <2> DEFINE S == {v \in Workers : c[v].new = i}
             R == {v \in Workers : c'[v].new = i}
  <2>1. \A v \in Workers \ {w} : v \in S <=> v \in R
    OBVIOUS
  <2>2. (w \in S <=> c[w].new = i) /\ (w \in R <=> c'[w].new = i)
    OBVIOUS
  <2>3. S \in SUBSET Workers /\ R \in SUBSET Workers
    OBVIOUS
  <2> HIDE DEF S, R
  <2>4. /\ Cardinality(S) \in Nat /\ Cardinality(R) \in Nat
        /\ Cardinality(R) = Cardinality(S) - Hold(w \in S) + Hold(w \in R)
    BY <1>1, <2>1, <2>3, SetStep
  <2>5. Hold(w \in S) = Hold(c[w].new = i) /\ Hold(w \in R) = Hold(c'[w].new = i)
    BY <2>2 DEF Hold
  <2> QED BY <2>4, <2>5 DEF S, R, News
<1>5. \A b : Hold(b) \in {0, 1}
  BY DEF Hold
<1> QED BY <1>2, <1>3, <1>4, <1>5 DEF Hands, Held

LEMMA PulledStep ==
  ASSUME NEW t \in Walkers, \A v \in Walkers \ {t} : pull'[v] = pull[v], NEW i
  PROVE  /\ Pulled(i) \in Nat /\ Pulled(i)' \in Nat
         /\ Pulled(i)' = Pulled(i) - Hold(InHandOf(pull[t], i)) + Hold(InHandOf(pull'[t], i))
<1>1. IsFiniteSet(Walkers)
  BY ItemsAssumption, FS_AddElement DEF Walkers
<1> DEFINE S == {v \in Walkers : InHandOf(pull[v], i)}
           R == {v \in Walkers : InHandOf(pull'[v], i)}
<1>2. \A v \in Walkers \ {t} : v \in S <=> v \in R
  OBVIOUS
<1>3. (t \in S <=> InHandOf(pull[t], i)) /\ (t \in R <=> InHandOf(pull'[t], i))
  OBVIOUS
<1>4. S \in SUBSET Walkers /\ R \in SUBSET Walkers
  OBVIOUS
<1> HIDE DEF S, R
<1>5. /\ Cardinality(S) \in Nat /\ Cardinality(R) \in Nat
      /\ Cardinality(R) = Cardinality(S) - Hold(t \in S) + Hold(t \in R)
  BY <1>1, <1>2, <1>4, SetStep
<1>6. Hold(t \in S) = Hold(InHandOf(pull[t], i)) /\ Hold(t \in R) = Hold(InHandOf(pull'[t], i))
  BY <1>3 DEF Hold
<1> QED BY <1>5, <1>6 DEF S, R, Pulled, Pulls, InHandOf

LEMMA CountTypes ==
  ASSUME NEW i
  PROVE  Hands(i) \in Nat /\ Pulled(i) \in Nat /\ Linked(i) \in {0, 1}
<1>1. /\ IsFiniteSet(Its(i)) /\ IsFiniteSet(Olds(i)) /\ IsFiniteSet(News(i))
      /\ IsFiniteSet(Pulls(i))
  <2>1. IsFiniteSet(Workers) /\ IsFiniteSet(Walkers)
    BY ItemsAssumption, FS_AddElement DEF Walkers
  <2>2. /\ Its(i) \in SUBSET Workers /\ Olds(i) \in SUBSET Workers /\ News(i) \in SUBSET Workers
        /\ Pulls(i) \in SUBSET Walkers
    BY DEF Its, Olds, News, Pulls
  <2> QED BY <2>1, <2>2, FS_Subset
<1>2. /\ Cardinality(Its(i)) \in Nat /\ Cardinality(Olds(i)) \in Nat /\ Cardinality(News(i)) \in Nat
      /\ Cardinality(Pulls(i)) \in Nat
  BY <1>1, FS_CardinalityType
<1> QED BY <1>2 DEF Hands, Pulled, Linked

\* Who has an item keeps it from being freed.
LEMMA HeldCounts ==
  ASSUME NEW i
  PROVE  /\ \A w \in Workers : c[w].it = i \/ c[w].old = i \/ c[w].new = i => Hands(i) >= 1
         /\ \A t \in Walkers : InHandOf(pull[t], i) => Pulled(i) >= 1
<1>1. \A S : IsFiniteSet(S) => Cardinality(S) \in Nat /\ (S # {} => Cardinality(S) >= 1)
  <2> TAKE S
  <2> HAVE IsFiniteSet(S)
  <2> QED BY FS_CardinalityType, FS_EmptySet
<1>2. /\ IsFiniteSet(Its(i)) /\ IsFiniteSet(Olds(i)) /\ IsFiniteSet(News(i))
      /\ IsFiniteSet(Pulls(i))
  <2>1. IsFiniteSet(Workers) /\ IsFiniteSet(Walkers)
    BY ItemsAssumption, FS_AddElement DEF Walkers
  <2>2. /\ Its(i) \in SUBSET Workers /\ Olds(i) \in SUBSET Workers /\ News(i) \in SUBSET Workers
        /\ Pulls(i) \in SUBSET Walkers
    BY DEF Its, Olds, News, Pulls
  <2> QED BY <2>1, <2>2, FS_Subset
<1>3. ASSUME NEW w \in Workers, c[w].it = i \/ c[w].old = i \/ c[w].new = i
      PROVE  Its(i) # {} \/ Olds(i) # {} \/ News(i) # {}
  BY <1>3 DEF Its, Olds, News
<1>4. ASSUME NEW t \in Walkers, InHandOf(pull[t], i) PROVE Pulls(i) # {}
  BY <1>4 DEF Pulls
<1> QED BY <1>1, <1>2, <1>3, <1>4 DEF Hands, Pulled

LEMMA NoneOf ==
  ASSUME NEW A \in SUBSET Workers, NEW B \in SUBSET Workers, NEW C \in SUBSET Workers,
         NEW P \in SUBSET Walkers,
         (Cardinality(A) + Cardinality(B) + Cardinality(C)) + Cardinality(P) = 0
  PROVE  A = {} /\ B = {} /\ C = {} /\ P = {}
<1>1. IsFiniteSet(Workers) /\ IsFiniteSet(Walkers)
  BY ItemsAssumption, FS_AddElement DEF Walkers
<1>2. /\ IsFiniteSet(A) /\ IsFiniteSet(B) /\ IsFiniteSet(C) /\ IsFiniteSet(P)
  BY <1>1, FS_Subset
<1>3. /\ Cardinality(A) \in Nat /\ Cardinality(B) \in Nat /\ Cardinality(C) \in Nat
      /\ Cardinality(P) \in Nat
  BY <1>2, FS_CardinalityType
<1>4. /\ Cardinality(A) = 0 /\ Cardinality(B) = 0 /\ Cardinality(C) = 0 /\ Cardinality(P) = 0
  <2> DEFINE a == Cardinality(A)
             b == Cardinality(B)
             d == Cardinality(C)
             p == Cardinality(P)
  <2>1. a \in Nat /\ b \in Nat /\ d \in Nat /\ p \in Nat /\ (a + b + d) + p = 0
    BY <1>3
  <2> HIDE DEF a, b, d, p
  <2>2. a = 0 /\ b = 0 /\ d = 0 /\ p = 0
    BY <2>1
  <2> QED BY <2>2 DEF a, b, d, p
<1> QED BY <1>2, <1>4, FS_EmptySet

\* What nobody has in hand, after a step.
LEMMA NoHands ==
  ASSUME NEW i, Hands(i)' + Pulled(i)' = 0
  PROVE  /\ \A w \in Workers : c'[w].it # i /\ c'[w].old # i /\ c'[w].new # i
         /\ \A t \in Walkers : ~InHandOf(pull'[t], i)
<1> DEFINE A == {w \in Workers : c'[w].it = i}
           B == {w \in Workers : c'[w].old = i}
           C == {w \in Workers : c'[w].new = i}
           P == {t \in Walkers : InHandOf(pull'[t], i)}
<1>1. /\ Hands(i)' = Cardinality(A) + Cardinality(B) + Cardinality(C) /\ Pulled(i)' = Cardinality(P)
  BY DEF Hands, Pulled, Its, Olds, News, Pulls, InHandOf
<1>2. A = {} /\ B = {} /\ C = {} /\ P = {}
  <2>1. /\ A \in SUBSET Workers /\ B \in SUBSET Workers /\ C \in SUBSET Workers
        /\ P \in SUBSET Walkers
    OBVIOUS
  <2> HIDE DEF A, B, C, P
  <2> QED BY <1>1, <2>1, NoneOf
<1> QED BY <1>2

LEMMA AtLeast ==
  ASSUME NEW S \in SUBSET Workers, NEW w \in Workers
  PROVE  Cardinality(S) \in Nat /\ Cardinality(S) >= Hold(w \in S)
<1>1. IsFiniteSet(S)
  BY ItemsAssumption, FS_Subset
<1>2. Cardinality(S) \in Nat /\ (S # {} => Cardinality(S) >= 1)
  BY <1>1, FS_CardinalityType, FS_EmptySet
<1> QED BY <1>2 DEF Hold

LEMMA HandsAtLeast ==
  ASSUME NEW w \in Workers, NEW i
  PROVE  Hands(i) >= Held(c[w], i)
<1>1. Its(i) \in SUBSET Workers /\ Olds(i) \in SUBSET Workers /\ News(i) \in SUBSET Workers
  BY DEF Its, Olds, News
<1>2. /\ w \in Its(i) <=> c[w].it = i
      /\ w \in Olds(i) <=> c[w].old = i
      /\ w \in News(i) <=> c[w].new = i
  BY DEF Its, Olds, News
<1>3. /\ Cardinality(Its(i)) \in Nat /\ Cardinality(Its(i)) >= Hold(c[w].it = i)
      /\ Cardinality(Olds(i)) \in Nat /\ Cardinality(Olds(i)) >= Hold(c[w].old = i)
      /\ Cardinality(News(i)) \in Nat /\ Cardinality(News(i)) >= Hold(c[w].new = i)
  <2>1. \A S \in SUBSET Workers : Cardinality(S) \in Nat /\ Cardinality(S) >= Hold(w \in S)
    BY AtLeast
  <2>2. /\ Hold(w \in Its(i)) = Hold(c[w].it = i)
        /\ Hold(w \in Olds(i)) = Hold(c[w].old = i)
        /\ Hold(w \in News(i)) = Hold(c[w].new = i)
    BY <1>2 DEF Hold
  <2> QED BY <1>1, <2>1, <2>2
<1>4. \A b : Hold(b) \in {0, 1}
  BY DEF Hold
<1> QED BY <1>3, <1>4 DEF Hands, Held
-----------------------------------------------------------------------------
(* One thread takes a step. *)

\* What a thread has to do with an item.
Unq(t, i)    == t \in Workers /\ Unqueues(t, i)
Req(t, i)    == (t \in Workers /\ Requeues(t, i)) \/ (t \in Walkers /\ Moves(t, i))
Upload(t, i) == t \in Workers /\ Fresh(t, i)
Incs(t, i)   == t \in Workers /\ Incring(t, i)
InPull(t, i) == t \in Walkers /\ InHandOf(pull[t], i)
InConn(t, i) == IF t \in Workers THEN Held(c[t], i) ELSE 0
HeldBy(t, i) == InConn(t, i) + Hold(InPull(t, i))
DueTo(t, i)  == HeldBy(t, i) + Hold(Unq(t, i) \/ item[i].linked)

OtherThreads(t) ==
  /\ \A v \in Workers \ {t} : c'[v] = c[v]
  /\ \A v \in Walkers \ {t} : pull'[v] = pull[v]

LEMMA HoldFacts ==
  /\ \A b : Hold(b) \in {0, 1}
  /\ \A t, i : InConn(t, i) \in Nat /\ HeldBy(t, i) \in Nat /\ DueTo(t, i) \in Nat
  /\ \A t, i : HeldBy(t, i)' \in Nat
<1>1. \A b : Hold(b) \in {0, 1}
  BY DEF Hold
<1>2. ASSUME NEW t, NEW i PROVE InConn(t, i) \in Nat
  <2>1. \A d : Held(d, i) \in Nat
    BY <1>1 DEF Held
  <2> QED BY <2>1 DEF InConn
<1>3. ASSUME NEW t, NEW i PROVE InConn(t, i)' \in Nat
  <2>1. \A d : Held(d, i) \in Nat
    BY <1>1 DEF Held
  <2> QED BY <2>1 DEF InConn
<1>4. \A t, i : HeldBy(t, i) \in Nat
  BY <1>1, <1>2 DEF HeldBy
<1>5. \A t, i : HeldBy(t, i)' \in Nat
  BY <1>1, <1>3 DEF HeldBy
<1>6. \A t, i : DueTo(t, i) \in Nat
  BY <1>1, <1>4 DEF DueTo
<1> QED BY <1>1, <1>2, <1>4, <1>5, <1>6

\* References change hands only with the thread that takes the step.
LEMMA HandsAndPulls ==
  ASSUME NEW t, OtherThreads(t), NEW i
  PROVE  /\ Hands(i) + Pulled(i) \in Nat /\ (Hands(i)' + Pulled(i)') \in Nat
         /\ (Hands(i)' + Pulled(i)') = (Hands(i) + Pulled(i)) - HeldBy(t, i) + HeldBy(t, i)'
<1>1. /\ Hands(i) \in Nat /\ Hands(i)' \in Nat
      /\ Hands(i)' = Hands(i) - InConn(t, i) + InConn(t, i)'
  <2>1. CASE t \in Workers
    BY <2>1, HandsStep DEF OtherThreads, InConn
  <2>2. CASE t \notin Workers
    <3>1. \A v \in Workers : c'[v] = c[v]
      BY <2>2 DEF OtherThreads
    <3>2. Its(i)' = Its(i) /\ Olds(i)' = Olds(i) /\ News(i)' = News(i)
      BY <3>1 DEF Its, Olds, News
    <3>3. Hands(i)' = Hands(i)
      BY <3>2 DEF Hands
    <3> QED BY <2>2, <3>3, CountTypes DEF InConn
  <2> QED BY <2>1, <2>2
<1>2. /\ Pulled(i) \in Nat /\ Pulled(i)' \in Nat
      /\ Pulled(i)' = Pulled(i) - Hold(InPull(t, i)) + Hold(InPull(t, i)')
  <2>1. CASE t \in Walkers
    <3>1. (InPull(t, i) <=> InHandOf(pull[t], i)) /\ (InPull(t, i)' <=> InHandOf(pull'[t], i))
      BY <2>1 DEF InPull, InHandOf
    <3>2. Hold(InPull(t, i)) = Hold(InHandOf(pull[t], i)) /\ Hold(InPull(t, i)') = Hold(InHandOf(pull'[t], i))
      BY <3>1 DEF Hold
    <3> QED BY <2>1, <3>2, PulledStep DEF OtherThreads
  <2>2. CASE t \notin Walkers
    <3>1. \A v \in Walkers : pull'[v] = pull[v]
      BY <2>2 DEF OtherThreads
    <3>2. Pulls(i)' = Pulls(i)
      BY <3>1 DEF Pulls, InHandOf
    <3>3. Pulled(i)' = Pulled(i)
      BY <3>2 DEF Pulled
    <3>4. ~InPull(t, i) /\ ~InPull(t, i)'
      BY <2>2 DEF InPull
    <3> QED BY <3>3, <3>4, CountTypes DEF Hold
  <2> QED BY <2>1, <2>2
<1>3. HeldBy(t, i)' = InConn(t, i)' + Hold(InPull(t, i)') /\ Hold(InPull(t, i)') \in Nat
  BY DEF HeldBy, Hold
<1>4. InConn(t, i)' \in Nat
  <2>1. \A d : Held(d, i) \in Nat
    BY HoldFacts DEF Held
  <2> QED BY <2>1 DEF InConn
<1> QED BY <1>1, <1>2, <1>3, <1>4, HoldFacts DEF HeldBy

OtherWorkers(w) == \A v \in Workers \ {w} : c'[v] = c[v]

\* Only this thread has the item between table and queue, or in the hand of a walker.
Only(t, i) ==
  /\ \A v \in Workers \ {t} : ~Unqueues(v, i) /\ ~Requeues(v, i)
  /\ \A v \in Walkers \ {t} : ~InHandOf(pull[v], i)

\* Whoever has an item between table and queue has its lock.
LEMMA Alone ==
  ASSUME IInv, NEW i \in Chunks
  PROVE  /\ \A v \in Workers : Unqueues(v, i) \/ Requeues(v, i) =>
              /\ Commands(v) /\ c[v].key = item[i].key /\ item[i].key \in Keys
              /\ item_lock[item[i].key] = v
         /\ \A t \in Walkers : InHandOf(pull[t], i) =>
              item[i].key \in Keys /\ item_lock[item[i].key] = t
<1>1. ASSUME NEW v \in Workers, Unqueues(v, i) \/ Requeues(v, i)
      PROVE  /\ Commands(v) /\ c[v].key = item[i].key /\ item[i].key \in Keys
             /\ item_lock[item[i].key] = v
  <2>1. Commands(v) /\ i \in {c[v].it, c[v].old, c[v].new} /\ c[v].pc # "new_cmd"
    BY <1>1 DEF Unqueues, Requeues, Commands, Locked
  <2>2. c[v].key \in Keys
    BY <2>1 DEF IInv, WorkerOK, ConnectionOK
  <2> QED BY <2>1, <2>2 DEF IInv, WorkerOK
<1> QED BY <1>1 DEF IInv, WalkerOK

LEMMA LockOnly ==
  ASSUME IInv, NEW t \in Threads, NEW i \in Chunks, item[i].key \in Keys,
         item_lock[item[i].key] \in {None, t}
  PROVE  Only(t, i)
<1>1. (\A v \in Walkers : v # None) /\ Workers \subseteq Walkers
  BY ItemsAssumption DEF Walkers, Threads
<1>2. ASSUME NEW v \in Workers \ {t} PROVE ~Unqueues(v, i) /\ ~Requeues(v, i)
  BY <1>1, Alone
<1>3. ASSUME NEW v \in Walkers \ {t} PROVE ~InHandOf(pull[v], i)
  BY <1>1, Alone
<1> QED BY <1>2, <1>3 DEF Only

\* What nobody refers to.
LEMMA Unheld ==
  ASSUME IInv, NEW i \in Chunks, item[i].refcount = 0
  PROVE  /\ ~item[i].linked
         /\ \A v \in Workers : /\ ~Unqueues(v, i) /\ ~Requeues(v, i) /\ ~Fresh(v, i)
                               /\ c[v].it # i /\ c[v].old # i /\ c[v].new # i
         /\ \A v \in Walkers : ~InHandOf(pull[v], i) /\ ~Moves(v, i)
<1>1. Hands(i) = 0 /\ Pulled(i) = 0 /\ Linked(i) = 0
  <2>1. 0 >= Hands(i) + Pulled(i) + Linked(i)
    BY DEF IInv, Counted, Refs
  <2>2. Hands(i) \in Nat /\ Pulled(i) \in Nat /\ Linked(i) \in Nat
    BY CountTypes
  <2> QED BY <2>1, <2>2
<1>2. ~item[i].linked
  BY <1>1 DEF Linked
<1>3. ASSUME NEW v \in Workers PROVE c[v].it # i /\ c[v].old # i /\ c[v].new # i
  BY <1>1, HeldCounts
<1>4. ASSUME NEW v \in Walkers PROVE ~InHandOf(pull[v], i) /\ ~Moves(v, i)
  BY <1>1, HeldCounts DEF Moves
<1> QED BY <1>2, <1>3, <1>4 DEF Unqueues, Requeues, Fresh

LEMMA OnlyRefs ==
  ASSUME IInv, NEW t \in Threads, NEW i \in Chunks, Only(t, i)
  PROVE  /\ (Between(i) <=> Unq(t, i)) /\ (Away(i) <=> Req(t, i))
         /\ Refs(i) = Hands(i) + Pulled(i) + Hold(Unq(t, i) \/ item[i].linked)
<1>1. (Between(i) <=> Unq(t, i)) /\ (Away(i) <=> Req(t, i))
  BY DEF Between, Away, Only, Moves, Unq, Req
<1> QED BY <1>1 DEF Refs, Linked, Hold

-----------------------------------------------------------------------------
(* An item that a step does not touch, and one that it does. *)

SameIn(t, i) ==
  /\ \A q \in Queues : i \in At(q)' <=> i \in At(q)
  /\ Unq(t, i)' <=> Unq(t, i)
  /\ Req(t, i)' <=> Req(t, i)
  /\ Upload(t, i)' => Upload(t, i)
  /\ Incs(t, i)' => Incs(t, i)
  /\ InPull(t, i)' <=> InPull(t, i)
  /\ t \in Workers => /\ c'[t].it = i <=> c[t].it = i
                      /\ c'[t].old = i <=> c[t].old = i
                      /\ c'[t].new = i <=> c[t].new = i

Untouched(t, i) == item'[i] = item[i] /\ SameIn(t, i)

\* Who drops the last reference frees the item.
Settled(h) == IF h.refcount = 0 THEN Slabbed ELSE h

\* What a reference count exceeds the references by, after the step and before.
Gain(t, i, h) ==
  (h.refcount - HeldBy(t, i)' - Hold(Unq(t, i)' \/ h.linked)) - (item[i].refcount - DueTo(t, i))

\* The header of an item of key k becomes h: the item is free, or it is in the table or in
\* the hands of the thread, which may have the lock of its key.
Touched(t, k, i, h) ==
  /\ h \in Headers /\ h.key = k /\ h.lru \in Queues /\ item'[i] = Settled(h)
  /\ \/ item[i].refcount = 0
     \/ /\ item[i].key = k /\ item_lock[k] \in {None, t}
        /\ item[i].linked \/ HeldBy(t, i) > 0
        /\ item[i].val = Empty => h.val = Empty
  /\ \A q \in Queues : i \in At(q)' <=> q = h.lru /\ (Unq(t, i)' \/ (h.linked /\ ~Req(t, i)'))
  /\ Unq(t, i)' => ~h.linked
  /\ Req(t, i)' => h.linked
  /\ Upload(t, i)' =>
       /\ Upload(t, i) \/ item[i].refcount = 0
       /\ ~h.linked /\ ~InPull(t, i)'
       /\ c'[t].old # i /\ ~(c'[t].it = i /\ c'[t].new = i)
  /\ \/ Gain(t, i, h) = 0 /\ (Incs(t, i)' => Incs(t, i) \/ item[i].refcount < MaxRefs)
     \/ Gain(t, i, h) = 1 /\ h.val = Empty /\ Incs(t, i) /\ ~Incs(t, i)'
  /\ h.linked => hash'[k] = i /\ h.cas > 0
  /\ h.cas <= cas_id' /\ h.ver <= cas_id'

LEMMA UntouchedKept ==
  ASSUME IInv, NEW t \in Threads, OtherThreads(t), NEW i \in Chunks, Untouched(t, i),
         cas_id' \in Nat, cas_id' >= cas_id
  PROVE  Placed(i)' /\ Counted(i)' /\ CasOf(i)'
<1>1. \A v \in Workers : /\ Unqueues(v, i)' <=> Unqueues(v, i)
                         /\ Requeues(v, i)' /\ v # t <=> Requeues(v, i) /\ v # t
                         /\ Fresh(v, i)' => Fresh(v, i)
                         /\ Incring(v, i)' => Incring(v, i)
                         /\ c'[v].it = i <=> c[v].it = i
                         /\ c'[v].old = i <=> c[v].old = i
                         /\ c'[v].new = i <=> c[v].new = i
  BY DEF OtherThreads, Untouched, SameIn, Unq, Upload, Incs, Unqueues, Requeues, Fresh, Incring, Commands
<1>2. \A v \in Walkers : /\ Moves(v, i)' /\ v # t <=> Moves(v, i) /\ v # t
                         /\ InHandOf(pull'[v], i) <=> InHandOf(pull[v], i)
  BY DEF OtherThreads, Untouched, SameIn, InPull, Moves
<1>3. (Between(i)' <=> Between(i)) /\ (Away(i)' <=> Away(i))
  BY <1>1, <1>2 DEF Between, Away, Untouched, SameIn, Req
<1>4. Placed(i)
  BY DEF IInv
<1>5. Placed(i)'
  <2>1. \A q \in Queues : i \in At(q)' <=>
          q = item'[i].lru /\ (Between(i)' \/ (item'[i].linked /\ ~Away(i)'))
    BY <1>3, <1>4 DEF Placed, Untouched, SameIn
  <2>2. Away(i) => item[i].linked
    BY <1>4 DEF Placed, Away
  <2>3. \A v \in Workers : /\ Unqueues(v, i)' => ~item'[i].linked
                           /\ Requeues(v, i)' => item'[i].linked
                           /\ Fresh(v, i)' => ~item'[i].linked
    BY <1>1, <1>3, <1>4, <2>2 DEF Placed, Untouched, Away
  <2>4. \A w, v \in Workers :
          Fresh(w, i)' => /\ c'[v].it = i => v = w /\ c'[v].new # i
                          /\ c'[v].new = i => v = w
                          /\ c'[v].old # i
    BY <1>1, <1>4 DEF Placed
  <2>5. \A w \in Workers, v \in Walkers : ~(Fresh(w, i)' /\ InHandOf(pull'[v], i))
    BY <1>1, <1>2, <1>4 DEF Placed
  <2>6. \A v \in Walkers : Moves(v, i)' => item'[i].linked
    BY <1>3, <2>2 DEF Untouched, Away
  <2> QED BY <2>1, <2>3, <2>4, <2>5, <2>6 DEF Placed
<1>6. Refs(i)' = Refs(i)
  <2>1. Its(i)' = Its(i) /\ Olds(i)' = Olds(i) /\ News(i)' = News(i) /\ Pulls(i)' = Pulls(i)
    BY <1>1, <1>2 DEF Its, Olds, News, Pulls, InHandOf
  <2>2. Linked(i)' = Linked(i)
    BY <1>3 DEF Linked, Untouched
  <2> QED BY <2>1, <2>2 DEF Refs, Hands, Pulled
<1>7. Counted(i)'
  BY <1>1, <1>6 DEF IInv, Counted, Untouched
<1>8. CasOf(i)'
  <2>1. CasOf(i) /\ item[i].cas \in Nat /\ item[i].ver \in Nat /\ cas_id \in Nat
    BY DEF IInv, TypesOK, Headers
  <2> QED BY <2>1 DEF CasOf, Untouched
<1> QED BY <1>5, <1>7, <1>8

\* No other command has an upload of its own in an item the step touches.
LEMMA NoOtherUpload ==
  ASSUME IInv, NEW t \in Threads, NEW i \in Chunks,
         item[i].refcount = 0 \/ item[i].linked \/ HeldBy(t, i) > 0
  PROVE  \A v \in Workers \ {t} : ~Fresh(v, i)
<1>1. CASE item[i].refcount = 0
  BY <1>1, Unheld
<1>2. CASE item[i].linked
  BY <1>2 DEF IInv, Placed
<1>3. CASE HeldBy(t, i) > 0
  <2>1. InConn(t, i) # 0 \/ Hold(InPull(t, i)) # 0
    BY <1>3, HoldFacts DEF HeldBy
  <2>2. InPull(t, i) \/ (t \in Workers /\ (c[t].it = i \/ c[t].old = i \/ c[t].new = i))
    BY <2>1 DEF InConn, Held, Hold
  <2> QED BY <2>2 DEF IInv, Placed, InPull
<1> QED BY <1>1, <1>2, <1>3

LEMMA TouchedOnly ==
  ASSUME IInv, NEW t \in Threads, NEW k \in Keys, NEW i \in Chunks,
         item[i].refcount = 0 \/ (item[i].key = k /\ item_lock[k] \in {None, t})
  PROVE  Only(t, i)
<1>1. CASE item[i].refcount = 0
  BY <1>1, Unheld DEF Only
<1>2. CASE item[i].key = k /\ item_lock[k] \in {None, t}
  BY <1>2, LockOnly
<1> QED BY <1>1, <1>2

LEMMA TouchedKept ==
  ASSUME IInv, NEW t \in Threads, OtherThreads(t), NEW k \in Keys, NEW i \in Chunks, NEW h,
         Touched(t, k, i, h), cas_id' \in Nat, cas_id' >= cas_id
  PROVE  /\ Placed(i)' /\ Counted(i)' /\ CasOf(i)' /\ Tabled(i)'
         /\ item'[i].key = k \/ (Hands(i)' + Pulled(i)') = 0
         /\ item'[i].linked <=> h.linked
<1>1. Only(t, i)
  BY TouchedOnly DEF Touched
<1>2. \A v \in Workers \ {t} : ~Unqueues(v, i)' /\ ~Requeues(v, i)'
  BY <1>1 DEF Only, OtherThreads, Unqueues, Requeues
<1>3. \A v \in Walkers \ {t} : ~InHandOf(pull'[v], i) /\ ~Moves(v, i)'
  BY <1>1 DEF Only, OtherThreads, Moves
<1>4. (Between(i)' <=> Unq(t, i)') /\ (Away(i)' <=> Req(t, i)')
  BY <1>2, <1>3 DEF Between, Away, Unq, Req
<1>5. \A v \in Workers \ {t} : ~Fresh(v, i)'
  <2>1. \A v \in Workers \ {t} : ~Fresh(v, i)
    BY NoOtherUpload DEF Touched
  <2> QED BY <2>1 DEF OtherThreads, Fresh
<1>6. h \in Headers /\ h.refcount \in Nat /\ h.cas \in Nat /\ h.ver \in Nat /\ item[i].refcount \in Nat
  BY DEF Touched, Headers, IInv, TypesOK
<1>7. /\ Hands(i) + Pulled(i) \in Nat /\ (Hands(i)' + Pulled(i)') \in Nat
      /\ (Hands(i)' + Pulled(i)') = (Hands(i) + Pulled(i)) - HeldBy(t, i) + HeldBy(t, i)'
  BY HandsAndPulls
<1>8. Refs(i) = Hands(i) + Pulled(i) + Hold(Unq(t, i) \/ item[i].linked)
  BY <1>1, OnlyRefs
<1> DEFINE after == Hold(Unq(t, i)' \/ h.linked)
           refs == (Hands(i)' + Pulled(i)') + after
<1>9. after \in {0, 1} /\ HeldBy(t, i) \in Nat /\ HeldBy(t, i)' \in Nat
      /\ Hold(Unq(t, i) \/ item[i].linked) \in {0, 1}
  BY HoldFacts
<1>10. DueTo(t, i) = HeldBy(t, i) + Hold(Unq(t, i) \/ item[i].linked)
  BY DEF DueTo
<1>11. h.refcount - refs = item[i].refcount - Refs(i) + Gain(t, i, h) /\ refs \in Nat /\ Refs(i) \in Nat
  <2> DEFINE b == Hold(Unq(t, i) \/ item[i].linked)
  <2>1. /\ Gain(t, i, h) = h.refcount - HeldBy(t, i)' - after - (item[i].refcount - (HeldBy(t, i) + b))
        /\ Refs(i) = Hands(i) + Pulled(i) + b
        /\ after \in {0, 1} /\ b \in {0, 1}
    BY <1>8, <1>9, <1>10 DEF Gain
  <2> HIDE DEF after, b
  <2>2. refs \in Nat /\ Refs(i) \in Nat
    BY <1>7, <2>1
  <2>3. h.refcount - refs = item[i].refcount - Refs(i) + Gain(t, i, h)
    BY <1>6, <1>7, <1>9, <2>1
  <2> QED BY <2>2, <2>3
<1>12. Gain(t, i, h) \in {0, 1}
  BY DEF Touched
<1>13. /\ item[i].refcount >= Refs(i)
       /\ item[i].refcount > Refs(i) => item[i].val = Empty
       /\ item[i].refcount - Refs(i) <= MaxRefs
       /\ \A v \in Workers : Incring(v, i) => item[i].refcount - Refs(i) < MaxRefs
  BY DEF IInv, Counted
<1>14. /\ h.refcount >= refs
       /\ h.refcount > refs => h.val = Empty
       /\ h.refcount - refs <= MaxRefs
       /\ Incs(t, i)' => h.refcount - refs < MaxRefs
  <2>1. MaxRefs \in Nat
    BY ItemsAssumption
  <2> HIDE DEF refs
  <2>2. h.refcount >= refs
    BY <1>6, <1>11, <1>12, <1>13
  <2>3. h.refcount > refs => h.val = Empty
    <3>1. CASE Gain(t, i, h) = 0
      <4>1. h.refcount > refs => item[i].refcount > Refs(i)
        BY <1>6, <1>11, <3>1
      <4>2. item[i].refcount > Refs(i) => item[i].val = Empty /\ item[i].refcount # 0
        BY <1>6, <1>11, <1>13
      <4> QED BY <4>1, <4>2 DEF Touched
    <3>2. CASE Gain(t, i, h) = 1
      BY <3>2 DEF Touched
    <3> QED BY <3>1, <3>2, <1>12
  <2>4. h.refcount - refs <= MaxRefs
    <3>1. CASE Gain(t, i, h) = 0
      BY <1>6, <1>11, <1>13, <3>1, <2>1
    <3>2. CASE Gain(t, i, h) = 1
      <4>1. item[i].refcount - Refs(i) < MaxRefs
        BY <3>2, <1>13 DEF Touched, Incs
      <4> QED BY <1>6, <1>11, <3>2, <4>1, <2>1
    <3> QED BY <3>1, <3>2, <1>12
  <2>5. ASSUME Incs(t, i)' PROVE h.refcount - refs < MaxRefs
    <3>1. Gain(t, i, h) = 0 /\ (Incs(t, i) \/ item[i].refcount < MaxRefs)
      BY <2>5 DEF Touched
    <3>2. item[i].refcount - Refs(i) < MaxRefs
      BY <3>1, <1>6, <1>11, <1>13, <2>1 DEF Incs
    <3> QED BY <1>6, <1>11, <3>1, <3>2, <2>1
  <2> QED BY <2>2, <2>3, <2>4, <2>5
<1>15. \A v \in Workers : Incring(v, i)' => v = t
  <2> SUFFICES ASSUME NEW v \in Workers \ {t}, Incring(v, i)' PROVE FALSE
    OBVIOUS
  <2>1. Incring(v, i) /\ c[v].old = i
    BY DEF OtherThreads, Incring, Commands
  <2>2. item[i].refcount # 0
    BY <2>1, Unheld
  <2>3. item[i].key = k /\ item_lock[k] \in {None, t}
    BY <2>2 DEF Touched
  <2>4. item_lock[k] = v
    BY <2>1, <2>3 DEF Incring, IInv, WorkerOK
  <2> QED BY <2>3, <2>4, ItemsAssumption DEF Threads
<1>16. CASE h.refcount = 0
  <2>1. refs = 0 /\ after = 0 /\ (Hands(i)' + Pulled(i)') = 0
    <3> HIDE DEF after
    <3> QED BY <1>6, <1>7, <1>9, <1>14, <1>16
  <2>2. item'[i] = Slabbed /\ ~h.linked /\ ~Unq(t, i)'
    BY <1>16, <2>1 DEF Touched, Settled, Hold
  <2>3. /\ \A v \in Workers : c'[v].it # i /\ c'[v].old # i /\ c'[v].new # i
        /\ \A v \in Walkers : ~InHandOf(pull'[v], i)
    BY <2>1, NoHands
  <2>4. \A v \in Workers : ~Unqueues(v, i)' /\ ~Requeues(v, i)' /\ ~Fresh(v, i)' /\ ~Incring(v, i)'
    BY <2>3 DEF Unqueues, Requeues, Fresh, Incring
  <2>5. \A v \in Walkers : ~Moves(v, i)'
    BY <2>3 DEF Moves
  <2>6. ~Between(i)' /\ ~Away(i)'
    BY <2>4, <2>5 DEF Between, Away
  <2>7. ~item'[i].linked /\ item'[i].lru = "none" /\ item'[i].refcount = 0 /\ item'[i].cas = 0 /\ item'[i].ver = 0
    BY <2>2 DEF Slabbed
  <2>8. Placed(i)'
    <3>1. \A q \in Queues : ~At(q)' \/ TRUE
      OBVIOUS
    <3>2. \A q \in Queues : i \notin At(q)' /\ q # "none"
      BY <2>2 DEF Touched, Queues
    <3> QED BY <2>3, <2>4, <2>5, <2>6, <2>7, <3>2 DEF Placed
  <2>9. Counted(i)'
    <3>1. Linked(i)' = 0
      BY <2>6, <2>7 DEF Linked
    <3>2. Refs(i)' = 0
      <4>1. Refs(i)' = (Hands(i)' + Pulled(i)') + Linked(i)'
        BY DEF Refs
      <4> QED BY <4>1, <3>1, <2>1
    <3> QED BY <2>4, <2>7, <3>2, ItemsAssumption DEF Counted
  <2>10. CasOf(i)'
    BY <2>7 DEF CasOf
  <2>11. Tabled(i)'
    BY <2>2, <2>7 DEF Tabled
  <2> QED BY <2>1, <2>2, <2>7, <2>8, <2>9, <2>10, <2>11
<1>17. CASE h.refcount # 0
  <2>1. item'[i] = h
    BY <1>17 DEF Touched, Settled
  <2>2. Placed(i)'
    <3>1. \A q \in Queues : i \in At(q)' <=>
            q = item'[i].lru /\ (Between(i)' \/ (item'[i].linked /\ ~Away(i)'))
      BY <1>4, <2>1 DEF Touched
    <3>2. \A v \in Workers : /\ Unqueues(v, i)' => ~item'[i].linked
                             /\ Requeues(v, i)' => item'[i].linked
                             /\ Fresh(v, i)' => ~item'[i].linked
      BY <1>2, <1>5, <2>1 DEF Touched, Unq, Req, Upload
    <3>3. \A w, v \in Workers :
            Fresh(w, i)' => /\ c'[v].it = i => v = w /\ c'[v].new # i
                            /\ c'[v].new = i => v = w
                            /\ c'[v].old # i
      <4> SUFFICES ASSUME NEW w \in Workers, NEW v \in Workers, Fresh(w, i)'
                   PROVE  /\ c'[v].it = i => v = w /\ c'[v].new # i
                          /\ c'[v].new = i => v = w
                          /\ c'[v].old # i
        OBVIOUS
      <4>1. w = t /\ Upload(t, i)'
        BY <1>5 DEF Upload
      <4>2. CASE v = t
        BY <4>1, <4>2 DEF Touched
      <4>3. CASE v # t
        <5>1. c'[v] = c[v]
          BY <4>3 DEF OtherThreads
        <5>2. CASE Upload(t, i)
          BY <4>1, <4>3, <5>1, <5>2 DEF Upload, IInv, Placed
        <5>3. CASE item[i].refcount = 0
          BY <4>3, <5>1, <5>3, Unheld
        <5> QED BY <4>1, <5>2, <5>3 DEF Touched
      <4> QED BY <4>2, <4>3
    <3>4. \A w \in Workers, v \in Walkers : ~(Fresh(w, i)' /\ InHandOf(pull'[v], i))
      BY <1>3, <1>5 DEF Touched, Upload, InPull, InHandOf, Walkers
    <3>5. \A v \in Walkers : Moves(v, i)' => item'[i].linked
      BY <1>3, <2>1 DEF Touched, Req
    <3> QED BY <3>1, <3>2, <3>3, <3>4, <3>5 DEF Placed
  <2>3. Counted(i)'
    <3>1. Linked(i)' = after
      BY <1>4, <2>1 DEF Linked, Hold
    <3>2. Refs(i)' = refs
      <4>1. Refs(i)' = (Hands(i)' + Pulled(i)') + Linked(i)'
        BY DEF Refs
      <4> QED BY <4>1, <3>1
    <3>3. \A v \in Workers : Incring(v, i)' => Incs(t, i)'
      BY <1>15 DEF Incs
    <3> HIDE DEF refs, after
    <3> QED BY <1>14, <2>1, <3>2, <3>3 DEF Counted
  <2>4. CasOf(i)' /\ Tabled(i)'
    BY <2>1 DEF Touched, CasOf, Tabled
  <2> QED BY <2>1, <2>2, <2>3, <2>4 DEF Touched
<1> QED BY <1>16, <1>17

-----------------------------------------------------------------------------
(* A step of thread t at key k keeps the invariant. *)

\* Locks are taken and given back by the thread, and what changes is under a lock that is
\* free or its own.
Guarded(t, k) ==
  /\ settings' = settings /\ OtherThreads(t)
  /\ IsTable(c)' /\ (t \in Workers => IsConnection(c'[t]))
  /\ pull' \in [Walkers -> PullRecord \cup {None}]
  /\ item' = [i \in Chunks |-> item'[i]]
  /\ hash' \in [Keys -> Chunks \cup {None}]
  /\ queue' \in [Queues -> Seq(Chunks \cup {"crawler"})]
  /\ item_lock' \in [Keys -> Threads \cup {None}]
  /\ lru_lock' \in [Queues -> Threads \cup {None}]
  /\ \A l \in Keys \ {k} : item_lock'[l] = item_lock[l] /\ hash'[l] = hash[l]
  /\ item_lock'[k] = item_lock[k] \/ {item_lock[k], item_lock'[k]} \subseteq {None, t}
  /\ hash'[k] = hash[k] \/ item_lock[k] \in {None, t}
  /\ \A q \in Queues : /\ NoDuplicates(queue'[q])
                       /\ lru_lock'[q] = lru_lock[q] \/ {lru_lock[q], lru_lock'[q]} \subseteq {None, t}
                       /\ queue'[q] = queue[q] \/ lru_lock[q] \in {None, t}

\* What the table has under the key.
Rehashed(k) ==
  /\ hash'[k] # None => item'[hash'[k]].linked /\ item'[hash'[k]].key = k
  /\ hash[k] # None /\ hash'[k] # hash[k] => ~item'[hash[k]].linked

\* A cas id is given out to a command that had one coming, and commands that will need one
\* come while there are enough.
CasGiven(t) ==
  \/ cas_id' = cas_id /\ (t \in Workers /\ Pending(t)' => Pending(t) \/ cas_id < MaxCas)
  \/ cas_id' = cas_id + 1 /\ t \in Workers /\ Pending(t) /\ ~Pending(t)'

LEMMA SettledTyped == \A h \in Headers : Settled(h) \in Headers
BY ItemsAssumption DEF Settled, Slabbed, Headers, Empty

LEMMA PendingBound ==
  ASSUME NEW P \in SUBSET Workers, NEW f \in [Workers -> Keys],
         \A v, w \in P : f[v] = f[w] => v = w
  PROVE  Cardinality(P) <= Cardinality(Keys) /\ Cardinality(P) \in Nat /\ Cardinality(Keys) \in Nat
<1>1. IsFiniteSet(P) /\ IsFiniteSet(Keys)
  BY ItemsAssumption, FS_Subset
<1> DEFINE g == [v \in P |-> f[v]]
<1>2. g \in Injection(P, Keys)
  BY DEF Injection, IsInjective
<1>3. Cardinality(P) <= Cardinality(Keys)
  BY <1>1, <1>2, FS_Injection
<1> QED BY <1>1, <1>3, FS_CardinalityType

LEMMA PendingsKept ==
  ASSUME IInv, NEW t \in Threads, OtherThreads(t), CasGiven(t),
         \A w \in Workers : Pending(w)' => c'[w].key \in Keys /\ item_lock'[c'[w].key] = w
  PROVE  cas_id' + Cardinality(Pendings') <= LastCas
<1> DEFINE P == {w \in Workers : Pending(w)}
           Q == {w \in Workers : Pending(w)'}
<1>1. Pendings = P /\ Pendings' = Q
  BY DEF Pendings
<1>2. cas_id + Cardinality(P) <= LastCas /\ cas_id \in Nat
  BY <1>1 DEF IInv, TypesOK
<1>3. \A w \in Workers \ {t} : w \in P <=> w \in Q
  BY DEF OtherThreads, Pending
<1>4. IsFiniteSet(Workers) /\ P \in SUBSET Workers /\ Q \in SUBSET Workers
  BY ItemsAssumption
<1>5. (t \in P <=> t \in Workers /\ Pending(t)) /\ (t \in Q <=> t \in Workers /\ Pending(t)')
  OBVIOUS
<1>6. PICK k0 \in Keys : TRUE
  BY ItemsAssumption
<1>7. Cardinality(Q) <= Cardinality(Keys) /\ Cardinality(Q) \in Nat /\ Cardinality(Keys) \in Nat
  <2> DEFINE f == [w \in Workers |-> IF w \in Q THEN c'[w].key ELSE k0]
  <2>1. f \in [Workers -> Keys] /\ \A v, w \in Q : f[v] = f[w] => v = w
    OBVIOUS
  <2> HIDE DEF P, Q, f
  <2> QED BY <1>4, <2>1, PendingBound
<1>8. LastCas = MaxCas + Cardinality(Keys) - 1 /\ MaxCas \in Nat
  BY ItemsAssumption DEF LastCas
<1>9. CASE t \notin Workers
  <2>1. P = Q
    BY <1>3, <1>9
  <2>2. cas_id' = cas_id
    BY <1>9 DEF CasGiven
  <2> QED BY <1>1, <1>2, <2>1, <2>2
<1>10. CASE t \in Workers
  <2> HIDE DEF P, Q
  <2>1. /\ Cardinality(P) \in Nat /\ Cardinality(Q) \in Nat
        /\ Cardinality(Q) = Cardinality(P) - Hold(t \in P) + Hold(t \in Q)
    BY <1>3, <1>4, <1>10, SetStep
  <2>2. CASE cas_id' = cas_id /\ (t \in Q => t \in P)
    <3>1. Hold(t \in Q) <= Hold(t \in P) /\ Hold(t \in Q) \in Nat /\ Hold(t \in P) \in Nat
      BY <2>2 DEF Hold
    <3>2. LastCas \in Int
      BY <1>7, <1>8
    <3> QED BY <1>1, <1>2, <2>1, <2>2, <3>1, <3>2
  <2>3. CASE cas_id' = cas_id /\ cas_id < MaxCas
    BY <1>1, <1>2, <1>7, <1>8, <2>3
  <2>4. CASE cas_id' = cas_id + 1 /\ t \in P /\ t \notin Q
    <3>1. Hold(t \in P) = 1 /\ Hold(t \in Q) = 0
      BY <2>4 DEF Hold
    <3>2. LastCas \in Int
      BY <1>7, <1>8
    <3> QED BY <1>1, <1>2, <2>1, <2>4, <3>1, <3>2
  <2> QED BY <1>5, <1>10, <2>2, <2>3, <2>4 DEF CasGiven
<1> QED BY <1>9, <1>10

LEMMA StepInv ==
  ASSUME IInv, NEW t \in Threads, NEW k \in Keys, Guarded(t, k), Rehashed(k), CasGiven(t),
         t \in Workers => WorkerOK(t)',
         t \in Walkers => WalkerOK(t)',
         CrawlersOK',
         \A i \in Chunks : Untouched(t, i) \/ \E h : Touched(t, k, i, h)
  PROVE  IInv'
<1>1. t # None /\ (\A v \in Walkers : v # None) /\ Workers \subseteq Walkers /\ Walkers \subseteq Threads
  BY ItemsAssumption DEF Walkers, Threads
<1>2. cas_id \in Nat /\ cas_id' \in Nat /\ cas_id' >= cas_id
  BY DEF CasGiven, IInv, TypesOK
<1>3. OtherThreads(t)
  BY DEF Guarded
<1>4. \A i \in Chunks : Placed(i)' /\ Counted(i)' /\ CasOf(i)'
  BY <1>2, <1>3, UntouchedKept, TouchedKept
<1>5. TypesOK'
  <2>1. \A i \in Chunks : item'[i] \in Headers
    <3> SUFFICES ASSUME NEW i \in Chunks PROVE item'[i] \in Headers
      OBVIOUS
    <3>1. CASE Untouched(t, i)
      BY <3>1 DEF Untouched, IInv, TypesOK
    <3>2. CASE \E h : Touched(t, k, i, h)
      BY <3>2, SettledTyped DEF Touched
    <3> QED BY <3>1, <3>2
  <2>2. item' \in [Chunks -> Headers]
    BY <2>1 DEF Guarded
  <2>3. \A w \in Workers : IsConnection(c'[w])
    <3>1. \A w \in Workers \ {t} : c'[w] = c[w] /\ IsConnection(c[w])
      BY DEF Guarded, OtherThreads, IInv, TypesOK
    <3>2. t \in Workers => IsConnection(c'[t])
      BY DEF Guarded
    <3> QED BY <3>1, <3>2 DEF IsConnection
  <2>4. settings' \in Settings
    BY DEF Guarded, IInv, TypesOK
  <2> QED BY <1>2, <2>2, <2>3, <2>4 DEF TypesOK, Guarded, IsConnection
\* Who works under a lock finds what it guards as it was.
<1>6. ASSUME NEW v \in Walkers \ {t}, NEW l \in Keys, item_lock[l] = v
      PROVE  item_lock'[l] = v /\ hash'[l] = hash[l]
  <2>1. v \notin {None, t}
    BY <1>1
  <2> QED BY <1>6, <2>1 DEF Guarded
<1>7. ASSUME NEW v \in Walkers \ {t}, NEW i \in Chunks, item[i].refcount # 0,
             item[i].key \in Keys, item_lock[item[i].key] = v
      PROVE  Untouched(t, i)
  <2>1. v \notin {None, t}
    BY <1>1
  <2>2. ~\E h : Touched(t, k, i, h)
    BY <1>7, <2>1 DEF Touched
  <2> QED BY <2>2
<1>8. ASSUME NEW v \in Workers \ {t} PROVE WorkerOK(v)'
  <2>1. WorkerOK(v) /\ c'[v] = c[v] /\ pull'[v] = pull[v] /\ v \in Walkers \ {t}
    BY <1>1, <1>3 DEF IInv, OtherThreads
  <2>2. ConnectionOK(c'[v]) /\ (pull'[v] # None => c'[v].pc = "alloc")
    BY <2>1 DEF WorkerOK
  <2>3. Commands(v) => c[v].key \in Keys /\ item_lock[c[v].key] = v
    BY <2>1 DEF WorkerOK, ConnectionOK, Commands, Locked
  <2>4. Commands(v) => item_lock'[c[v].key] = v /\ hash'[c[v].key] = hash[c[v].key]
    BY <1>6, <2>1, <2>3
  <2>5. \A i \in Chunks : i \in {c[v].it, c[v].old, c[v].new} => item'[i].key = c[v].key
    <3> SUFFICES ASSUME NEW i \in Chunks, i \in {c[v].it, c[v].old, c[v].new}
                 PROVE  item'[i].key = c[v].key
      OBVIOUS
    <3>1. item[i].key = c[v].key /\ item[i].refcount # 0
      BY <2>1, Unheld DEF WorkerOK
    <3>2. CASE Untouched(t, i)
      BY <3>1, <3>2 DEF Untouched
    <3>3. ASSUME NEW h, Touched(t, k, i, h) PROVE item'[i].key = c[v].key
      <4>1. item[i].key = k
        BY <3>1, <3>3 DEF Touched
      <4>2. item'[i].key = k \/ Hands(i)' + Pulled(i)' = 0
        BY <1>2, <1>3, <3>3, TouchedKept
      <4>3. Hands(i)' + Pulled(i)' # 0
        BY <2>1, NoHands
      <4> QED BY <3>1, <4>1, <4>2, <4>3
    <3> QED BY <3>2, <3>3
  <2>6. c[v].pc = "found" \/ (c[v].pc = "alloc" /\ c[v].old # None) \/ c[v].pc \in {"reap", "swap", "link"}
          => Commands(v)
    BY DEF Commands, Locked
  <2>7. Commands(v)' <=> Commands(v)
    BY <2>1 DEF Commands
  <2>8. /\ c'[v].pc = "found" \/ (c'[v].pc = "alloc" /\ c'[v].old # None) => hash'[c'[v].key] = c'[v].old
        /\ c'[v].pc \in {"reap", "swap", "link"} => hash'[c'[v].key] = None
    BY <2>1, <2>4, <2>6 DEF WorkerOK
  <2> QED BY <2>1, <2>2, <2>3, <2>4, <2>5, <2>7, <2>8 DEF WorkerOK
<1>9. ASSUME NEW v \in Walkers \ {t} PROVE WalkerOK(v)'
  <2>1. WalkerOK(v) /\ pull'[v] = pull[v] /\ (v \in Workers => c'[v] = c[v])
    BY <1>3 DEF IInv, OtherThreads
  <2>2. v \in Workers => (Commands(v)' <=> Commands(v))
    BY <2>1 DEF Commands
  <2>3. ASSUME NEW i \in Chunks, InHandOf(pull[v], i)
        PROVE  /\ item'[i].key \in Keys /\ item_lock'[item'[i].key] = v
               /\ v \in Workers /\ Commands(v)' => item'[i].key # c'[v].key
    <3>1. item[i].refcount # 0 /\ item[i].key \in Keys /\ item_lock[item[i].key] = v
      BY <2>1, <2>3, Unheld DEF WalkerOK
    <3>2. item'[i] = item[i]
      BY <1>7, <3>1 DEF Untouched
    <3>3. item_lock'[item[i].key] = v
      BY <1>6, <3>1
    <3>4. v \in Workers /\ Commands(v) => item[i].key # c[v].key
      BY <2>1, <2>3 DEF WalkerOK
    <3> QED BY <2>1, <2>2, <3>1, <3>2, <3>3, <3>4
  <2>4. ASSUME pull[v] # None, pull[v].it = None
        PROVE  /\ lru_lock'[pull[v].q] = v
               /\ pull[v].search \in At(pull[v].q)'
               /\ pull[v].move = None
               /\ v \in Workers /\ Commands(v)' => pull[v].cur = c'[v].key
    <3>1. pull[v].q \in Queues
      BY <2>4 DEF IInv, TypesOK, PullRecord
    <3>2. lru_lock[pull[v].q] = v /\ pull[v].search \in At(pull[v].q) /\ pull[v].move = None
      BY <2>1, <2>4 DEF WalkerOK
    <3>3. lru_lock[pull[v].q] \notin {None, t}
      BY <1>1, <3>2
    <3>4. lru_lock'[pull[v].q] = v /\ queue'[pull[v].q] = queue[pull[v].q]
      BY <3>1, <3>2, <3>3 DEF Guarded
    <3>5. pull[v].search \in At(pull[v].q)'
      BY <3>2, <3>4, <2>1 DEF At
    <3>6. v \in Workers /\ Commands(v)' => pull[v].cur = c'[v].key
      BY <2>1, <2>2, <2>4 DEF WalkerOK
    <3> QED BY <3>2, <3>4, <3>5, <3>6
  <2>5. \A i : InHandOf(pull'[v], i) <=> InHandOf(pull[v], i)
    BY <2>1
  <2> QED BY <2>1, <2>3, <2>4, <2>5 DEF WalkerOK, InHandOf, At
<1>10. (\A w \in Workers : WorkerOK(w)') /\ (\A v \in Walkers : WalkerOK(v)')
  <2>1. ASSUME NEW w \in Workers PROVE WorkerOK(w)'
    <3>1. CASE w = t
      <4>1. WorkerOK(t)'
        BY <3>1
      <4> QED BY <3>1, <4>1 DEF WorkerOK, Commands
    <3>2. CASE w # t
      BY <1>8, <3>2
    <3> QED BY <3>1, <3>2
  <2>2. ASSUME NEW v \in Walkers PROVE WalkerOK(v)'
    <3>1. CASE v = t
      <4>1. WalkerOK(t)'
        BY <3>1
      <4> QED BY <3>1, <4>1 DEF WalkerOK, InHandOf, At, Commands
    <3>2. CASE v # t
      BY <1>9, <3>2
    <3> QED BY <3>1, <3>2
  <2> QED BY <2>1, <2>2
<1>11. TableOK'
  <2>1. ASSUME NEW i \in Chunks PROVE Tabled(i)'
    <3>1. CASE Untouched(t, i)
      <4>1. Tabled(i) /\ item'[i] = item[i]
        BY <3>1 DEF IInv, TableOK, Untouched
      <4>2. ASSUME item[i].linked PROVE hash'[item[i].key] = i
        <5>1. item[i].key \in Keys /\ hash[item[i].key] = i /\ i # None
          BY <4>1, <4>2, ItemsAssumption DEF Tabled
        <5>2. CASE item[i].key # k
          BY <5>1, <5>2 DEF Guarded
        <5>3. CASE item[i].key = k
          BY <4>1, <4>2, <5>1, <5>3 DEF Rehashed
        <5> QED BY <5>2, <5>3
      <4> QED BY <4>1, <4>2 DEF Tabled
    <3>2. CASE \E h : Touched(t, k, i, h)
      BY <1>2, <1>3, <3>2, TouchedKept
    <3> QED BY <3>1, <3>2
  <2>2. ASSUME NEW l \in Keys, hash'[l] # None PROVE item'[hash'[l]].linked /\ item'[hash'[l]].key = l
    <3>1. CASE l = k
      BY <2>2, <3>1 DEF Rehashed
    <3>2. CASE l # k
      <4>1. hash'[l] = hash[l] /\ hash[l] \in Chunks /\ item[hash[l]].linked /\ item[hash[l]].key = l
        BY <2>2, <3>2 DEF Guarded, IInv, TypesOK, TableOK
      <4>2. item[hash[l]].refcount # 0
        BY <4>1, Unheld
      <4>3. Untouched(t, hash[l])
        BY <3>2, <4>1, <4>2 DEF Touched
      <4> QED BY <4>1, <4>3 DEF Untouched
    <3> QED BY <3>1, <3>2
  <2> QED BY <2>1, <2>2 DEF TableOK
<1>12. cas_id' + Cardinality(Pendings') <= LastCas
  <2> SUFFICES ASSUME NEW w \in Workers, Pending(w)'
               PROVE  c'[w].key \in Keys /\ item_lock'[c'[w].key] = w
    BY <1>3, PendingsKept
  <2>1. WorkerOK(w)'
    BY <1>10
  <2>2. Commands(w)' /\ c'[w].pc # "new_cmd"
    BY <2>1 DEF Pending, WorkerOK, ConnectionOK, Commands, Locked
  <2> QED BY <2>1, <2>2 DEF WorkerOK, ConnectionOK
<1>13. \A q \in Queues : NoDuplicates(queue'[q])
  BY DEF Guarded
<1> QED BY <1>4, <1>5, <1>10, <1>11, <1>12, <1>13 DEF IInv, LastCas

-----------------------------------------------------------------------------
(* Steps of a worker that is not pulling a tail. *)

\* Of the variables only the connection changes, and not the items it has.
LEMMA ConnStep ==
  ASSUME IInv, NEW w \in Workers, pull[w] = None, OtherWorkers(w),
         UNCHANGED <<settings, item, hash, queue, cas_id, item_lock, lru_lock, pull, crawlers>>,
         IsTable(c)', IsConnection(c'[w]),
         c'[w].it = c[w].it, c'[w].old = c[w].old, c'[w].new = c[w].new,
         \A i \in Chunks : /\ Unqueues(w, i)' <=> Unqueues(w, i)
                           /\ Requeues(w, i)' <=> Requeues(w, i)
                           /\ Fresh(w, i)' => Fresh(w, i)
                           /\ Incring(w, i)' => Incring(w, i),
         Pending(w)' => Pending(w),
         WorkerOK(w)'
  PROVE  IInv'
<1>1. PICK k \in Keys : TRUE
  BY ItemsAssumption
<1>2. w \in Threads
  BY DEF Threads
<1>3. \A q : At(q)' = At(q)
  BY DEF At
<1>4. ASSUME NEW i \in Chunks PROVE Untouched(w, i)
  <2>1. \A q \in Queues : i \in At(q)' <=> i \in At(q)
    BY <1>3
  <2>2. /\ Unq(w, i)' <=> Unq(w, i)
        /\ Req(w, i)' <=> Req(w, i)
        /\ Upload(w, i)' => Upload(w, i)
        /\ Incs(w, i)' => Incs(w, i)
        /\ InPull(w, i)' <=> InPull(w, i)
    BY DEF Unq, Req, Upload, Incs, InPull, Moves, InHandOf
  <2> QED BY <2>1, <2>2 DEF Untouched, SameIn
<1>5. TypesOK /\ TableOK /\ CrawlersOK /\ (\A q \in Queues : NoDuplicates(queue[q])) /\ WalkerOK(w)
  BY DEF IInv, Walkers
<1>6. CrawlersOK'
  BY <1>3, <1>5 DEF CrawlersOK, Lrus
<1>7. Guarded(w, k)
  BY <1>5 DEF Guarded, TypesOK, OtherThreads, OtherWorkers, IsTable
<1>8. Rehashed(k) /\ CasGiven(w)
  BY <1>5 DEF Rehashed, CasGiven, TableOK
<1>9. WalkerOK(w)'
  BY DEF WalkerOK, InHandOf
<1> QED BY <1>2, <1>4, <1>6, <1>7, <1>8, <1>9, StepInv

LEMMA FormatInv == ASSUME IInv, NEW w \in Workers, Format(w) PROVE IInv'
<1>1. IsTable(c) /\ IsConnection(c[w]) /\ WorkerOK(w)
  BY DEF IInv, TypesOK
<1>2. /\ IsTable(c)' /\ IsConnection(c'[w]) /\ OtherWorkers(w) /\ pull[w] = None
      /\ c[w].pc \in {"got", "format"} /\ c'[w].pc = "drop" /\ c'[w].cmd = "none"
      /\ c'[w].it = c[w].it /\ c'[w].old = c[w].old /\ c'[w].new = c[w].new
      /\ c'[w].key = c[w].key /\ c'[w].todo = c[w].todo
  BY <1>1 DEF Format, Running, OtherWorkers, IsTable, IsConnection, Fields
<1>3. UNCHANGED <<settings, item, hash, queue, cas_id, item_lock, lru_lock, pull, crawlers>>
  BY DEF Format
<1>4. WorkerOK(w)'
  BY <1>1, <1>2, <1>3 DEF WorkerOK, ConnectionOK, Commands, Locked, Pcs
<1>5. \A i \in Chunks : /\ Unqueues(w, i)' <=> Unqueues(w, i)
                        /\ Requeues(w, i)' <=> Requeues(w, i)
                        /\ Fresh(w, i)' => Fresh(w, i)
                        /\ Incring(w, i)' => Incring(w, i)
  BY <1>1, <1>2 DEF Unqueues, Requeues, Fresh, Incring, Commands, Locked, WorkerOK, ConnectionOK
<1>6. ~Pending(w)'
  BY <1>2 DEF Pending
<1> QED BY <1>2, <1>3, <1>4, <1>5, <1>6, ConnStep

\* Locks, hash table and queues as a worker changes them at key k.
LockStep(w, k) ==
  \/ item_lock' = item_lock
  \/ Lock(w, k)
  \/ Unlock(k) /\ item_lock[k] = w

HashStep(w, k) ==
  \/ hash' = hash
  \/ /\ item_lock[k] \in {None, w}
     /\ \E i \in Chunks \cup {None} : hash' = [hash EXCEPT ![k] = i]

QueueStep(t) ==
  /\ queue' \in [Queues -> Seq(Chunks \cup {"crawler"})]
  /\ \A q \in Queues : NoDuplicates(queue'[q]) /\ (queue'[q] = queue[q] \/ lru_lock[q] \in {None, t})

CrawlersStay == \A q \in Queues : "crawler" \in At(q)' <=> "crawler" \in At(q)

LEMMA WorkerInv ==
  ASSUME IInv, NEW w \in Workers, NEW k \in Keys, pull[w] = None, OtherWorkers(w),
         UNCHANGED <<settings, lru_lock, pull, crawlers>>,
         IsTable(c)', IsConnection(c'[w]), item' = [i \in Chunks |-> item'[i]],
         LockStep(w, k), HashStep(w, k), QueueStep(w), CrawlersStay, Rehashed(k), CasGiven(w),
         WorkerOK(w)',
         \A i \in Chunks : Untouched(w, i) \/ \E h : Touched(w, k, i, h)
  PROVE  IInv'
<1>1. w \in Threads /\ w # None
  BY ItemsAssumption DEF Threads
<1>2. TypesOK /\ CrawlersOK /\ WalkerOK(w)
  BY DEF IInv, Walkers
<1>3. CrawlersOK'
  <2>1. \A q \in Queues : "crawler" \in At(q)' <=> q \in crawlers'.running
    BY <1>2 DEF CrawlersOK, CrawlersStay
  <2> QED BY <1>2, <2>1 DEF CrawlersOK, Lrus
<1>4. /\ item_lock' \in [Keys -> Threads \cup {None}]
      /\ \A l \in Keys \ {k} : item_lock'[l] = item_lock[l]
      /\ item_lock'[k] = item_lock[k] \/ {item_lock[k], item_lock'[k]} \subseteq {None, w}
  BY <1>1, <1>2 DEF TypesOK, LockStep, Lock, Unlock
<1>5. /\ hash' \in [Keys -> Chunks \cup {None}]
      /\ \A l \in Keys \ {k} : hash'[l] = hash[l]
      /\ hash'[k] = hash[k] \/ item_lock[k] \in {None, w}
  BY <1>2 DEF TypesOK, HashStep
<1>6. /\ pull' \in [Walkers -> PullRecord \cup {None}]
      /\ lru_lock' \in [Queues -> Threads \cup {None}]
  BY <1>2 DEF TypesOK
<1>7. OtherThreads(w)
  BY DEF OtherThreads, OtherWorkers
<1>8. Guarded(w, k)
  BY <1>4, <1>5, <1>6, <1>7 DEF Guarded, QueueStep
<1>9. WalkerOK(w)'
  BY DEF WalkerOK, InHandOf
<1> QED BY <1>1, <1>3, <1>8, <1>9, StepInv

\* Items the worker has nothing to do with, or nothing new.
LEMMA WorkerUntouched ==
  ASSUME NEW w \in Workers, pull' = pull, NEW i \in Chunks, item'[i] = item[i],
         \A q \in Queues : i \in At(q)' <=> i \in At(q),
         Unqueues(w, i)' <=> Unqueues(w, i), Requeues(w, i)' <=> Requeues(w, i),
         Fresh(w, i)' => Fresh(w, i), Incring(w, i)' => Incring(w, i),
         c'[w].it = i <=> c[w].it = i, c'[w].old = i <=> c[w].old = i, c'[w].new = i <=> c[w].new = i
  PROVE  Untouched(w, i)
BY DEF Untouched, SameIn, Unq, Req, Upload, Incs, InPull, Moves, InHandOf

LEMMA Elsewhere ==
  ASSUME NEW w \in Workers, pull' = pull, NEW i \in Chunks, item'[i] = item[i],
         \A q \in Queues : i \in At(q)' <=> i \in At(q),
         i \notin {c[w].it, c[w].old, c[w].new}, i \notin {c'[w].it, c'[w].old, c'[w].new}
  PROVE  Untouched(w, i)
<1>1. ~Unqueues(w, i) /\ ~Requeues(w, i) /\ ~Fresh(w, i) /\ ~Incring(w, i)
  BY DEF Unqueues, Requeues, Fresh, Incring
<1>2. ~Unqueues(w, i)' /\ ~Requeues(w, i)' /\ ~Fresh(w, i)' /\ ~Incring(w, i)'
  BY DEF Unqueues, Requeues, Fresh, Incring
<1> QED BY <1>1, <1>2, WorkerUntouched

WorkerGain(w, i, h) ==
  (h.refcount - Held(c'[w], i) - Hold(Unqueues(w, i)' \/ h.linked))
    - (item[i].refcount - (Held(c[w], i) + Hold(Unqueues(w, i) \/ item[i].linked)))

LEMMA WorkerTouched ==
  ASSUME NEW w \in Workers, pull[w] = None, pull' = pull, NEW k \in Keys, NEW i \in Chunks, NEW h,
         h \in Headers, h.key = k, h.lru \in Queues, item'[i] = Settled(h), item[i].refcount \in Nat,
         \/ item[i].refcount = 0
         \/ /\ item[i].key = k /\ item_lock[k] \in {None, w}
            /\ item[i].linked \/ i \in {c[w].it, c[w].old, c[w].new}
            /\ item[i].val = Empty => h.val = Empty,
         \A q \in Queues : i \in At(q)' <=>
           q = h.lru /\ (Unqueues(w, i)' \/ (h.linked /\ ~Requeues(w, i)')),
         Unqueues(w, i)' => ~h.linked,
         Requeues(w, i)' => h.linked,
         Fresh(w, i)' => /\ Fresh(w, i) \/ item[i].refcount = 0
                         /\ ~h.linked /\ c'[w].old # i /\ ~(c'[w].it = i /\ c'[w].new = i),
         \/ WorkerGain(w, i, h) = 0 /\ (Incring(w, i)' => Incring(w, i) \/ item[i].refcount < MaxRefs)
         \/ WorkerGain(w, i, h) = 1 /\ h.val = Empty /\ Incring(w, i) /\ ~Incring(w, i)',
         h.linked => hash'[k] = i /\ h.cas > 0,
         h.cas <= cas_id', h.ver <= cas_id'
  PROVE  Touched(w, k, i, h)
<1>1. ~InPull(w, i) /\ ~InPull(w, i)' /\ ~Moves(w, i) /\ ~Moves(w, i)'
  BY DEF InPull, InHandOf, Moves
<1>2. /\ Unq(w, i) <=> Unqueues(w, i)
      /\ Unq(w, i)' <=> Unqueues(w, i)'
      /\ Req(w, i)' <=> Requeues(w, i)'
      /\ Upload(w, i)' <=> Fresh(w, i)'
      /\ Upload(w, i) <=> Fresh(w, i)
      /\ Incs(w, i)' <=> Incring(w, i)'
      /\ Incs(w, i) <=> Incring(w, i)
  BY <1>1 DEF Unq, Req, Upload, Incs
<1>3. (\A d : Held(d, i) \in Nat) /\ (\A b : Hold(b) \in {0, 1}) /\ Hold(FALSE) = 0
  BY DEF Held, Hold
<1>4. HeldBy(w, i) = Held(c[w], i) /\ HeldBy(w, i)' = Held(c'[w], i)
  <2>1. InConn(w, i) = Held(c[w], i) /\ InConn(w, i)' = Held(c'[w], i)
    BY DEF InConn, Held
  <2>2. HeldBy(w, i)' = InConn(w, i)' + Hold(InPull(w, i)') /\ HeldBy(w, i) = InConn(w, i) + Hold(InPull(w, i))
    BY DEF HeldBy, Hold
  <2>3. Hold(InPull(w, i)) = 0 /\ Hold(InPull(w, i)') = 0
    BY <1>1 DEF Hold
  <2> QED BY <1>3, <2>1, <2>2, <2>3
<1>5. Gain(w, i, h) = WorkerGain(w, i, h)
  <2>1. Hold(Unq(w, i) \/ item[i].linked) = Hold(Unqueues(w, i) \/ item[i].linked)
    BY <1>2 DEF Hold
  <2>2. Hold(Unq(w, i)' \/ h.linked) = Hold(Unqueues(w, i)' \/ h.linked)
    BY <1>2 DEF Hold
  <2>3. DueTo(w, i) = Held(c[w], i) + Hold(Unqueues(w, i) \/ item[i].linked)
    BY <1>4, <2>1 DEF DueTo
  <2> QED BY <1>4, <2>2, <2>3 DEF Gain, WorkerGain
<1>6. i \in {c[w].it, c[w].old, c[w].new} => HeldBy(w, i) > 0
  BY <1>4 DEF Held, Hold
<1> QED BY <1>1, <1>2, <1>5, <1>6 DEF Touched

\* One item out of its queue, or into one.
LEMMA OutOfQueue ==
  ASSUME IInv, NEW t, NEW i \in Chunks, NEW q \in Queues, i \in At(q),
         lru_lock[q] \in {None, t}, queue' = do_item_unlink_q(queue, q, i)
  PROVE  /\ QueueStep(t) /\ CrawlersStay
         /\ \A r \in Queues : i \notin At(r)'
         /\ \A j \in Chunks \ {i} : \A r \in Queues : j \in At(r)' <=> j \in At(r)
<1>1. queue \in [Queues -> Seq(Chunks \cup {"crawler"})] /\ \A r \in Queues : NoDuplicates(queue[r])
  BY DEF IInv, TypesOK
<1>2. i \in RangeOf(queue[q])
  BY DEF At
<1>3. /\ queue' \in [Queues -> Seq(Chunks \cup {"crawler"})]
      /\ \A r \in Queues : NoDuplicates(queue'[r])
      /\ RangeOf(queue'[q]) = RangeOf(queue[q]) \ {i}
      /\ \A r \in Queues \ {q} : queue'[r] = queue[r]
  <2> DEFINE Q == do_item_unlink_q(queue, q, i)
  <2>1. /\ Q \in [Queues -> Seq(Chunks \cup {"crawler"})]
        /\ \A r \in Queues : NoDuplicates(Q[r])
        /\ RangeOf(Q[q]) = RangeOf(queue[q]) \ {i}
        /\ \A r \in Queues \ {q} : Q[r] = queue[r]
    <3>1. /\ queue[q] \in Seq(Chunks \cup {"crawler"}) /\ NoDuplicates(queue[q])
          /\ i \in RangeOf(queue[q])
      BY <1>1, <1>2
    <3>2. /\ Without(queue[q], i) \in Seq(Chunks \cup {"crawler"}) /\ NoDuplicates(Without(queue[q], i))
          /\ RangeOf(Without(queue[q], i)) = RangeOf(queue[q]) \ {i}
      BY <3>1, WithoutFacts
    <3> QED BY <1>1, <3>2 DEF do_item_unlink_q
  <2> HIDE DEF Q
  <2> QED BY <2>1 DEF Q
<1>4. QueueStep(t)
  BY <1>3 DEF QueueStep
<1>5. At(q)' = At(q) \ {i} /\ \A r \in Queues \ {q} : At(r)' = At(r)
  BY <1>3 DEF At
<1>6. \A r \in Queues \ {q} : i \notin At(r)
  BY DEF IInv, Placed
<1>7. i # "crawler"
  BY ItemsAssumption
<1> QED BY <1>4, <1>5, <1>6, <1>7 DEF CrawlersStay

LEMMA IntoQueue ==
  ASSUME IInv, NEW t, NEW i \in Chunks, NEW q \in Queues, \A r \in Queues : i \notin At(r),
         lru_lock[q] \in {None, t}, queue' = do_item_link_q(queue, q, i)
  PROVE  /\ QueueStep(t) /\ CrawlersStay
         /\ \A r \in Queues : i \in At(r)' <=> r = q
         /\ \A j \in Chunks \ {i} : \A r \in Queues : j \in At(r)' <=> j \in At(r)
<1>1. queue \in [Queues -> Seq(Chunks \cup {"crawler"})] /\ \A r \in Queues : NoDuplicates(queue[r])
  BY DEF IInv, TypesOK
<1>2. i \notin RangeOf(queue[q])
  BY DEF At
<1>3. /\ queue' \in [Queues -> Seq(Chunks \cup {"crawler"})]
      /\ \A r \in Queues : NoDuplicates(queue'[r])
      /\ RangeOf(queue'[q]) = RangeOf(queue[q]) \cup {i}
      /\ \A r \in Queues \ {q} : queue'[r] = queue[r]
  <2> DEFINE Q == do_item_link_q(queue, q, i)
  <2>1. /\ Q \in [Queues -> Seq(Chunks \cup {"crawler"})]
        /\ \A r \in Queues : NoDuplicates(Q[r])
        /\ RangeOf(Q[q]) = RangeOf(queue[q]) \cup {i}
        /\ \A r \in Queues \ {q} : Q[r] = queue[r]
    BY <1>1, <1>2, LinkQueue
  <2> HIDE DEF Q
  <2> QED BY <2>1 DEF Q
<1>4. QueueStep(t)
  BY <1>3 DEF QueueStep
<1>5. At(q)' = At(q) \cup {i} /\ \A r \in Queues \ {q} : At(r)' = At(r)
  BY <1>3 DEF At
<1>6. i # "crawler"
  BY ItemsAssumption
<1> QED BY <1>4, <1>5, <1>6 DEF CrawlersStay

LEMMA SameQueues ==
  ASSUME IInv, NEW t, queue' = queue
  PROVE  QueueStep(t) /\ CrawlersStay /\ \A j, r : j \in At(r)' <=> j \in At(r)
BY DEF IInv, TypesOK, QueueStep, CrawlersStay, At

\* Headers that lose references.
Less(h, n) == [h EXCEPT !.refcount = @ - n]

LEMMA LessTyped ==
  ASSUME NEW h \in Headers, NEW n \in Nat, h.refcount >= n
  PROVE  /\ Less(h, n) \in Headers /\ Less(h, n).refcount = h.refcount - n
         /\ Less(h, n).key = h.key /\ Less(h, n).lru = h.lru /\ Less(h, n).linked = h.linked
         /\ Less(h, n).val = h.val /\ Less(h, n).cas = h.cas /\ Less(h, n).ver = h.ver
BY DEF Less, Headers

LEMMA RemoveOnce ==
  ASSUME NEW I \in [Chunks -> Headers], NEW i \in Chunks, I[i].refcount >= 1
  PROVE  /\ do_item_remove(I, i) \in [Chunks -> Headers]
         /\ do_item_remove(I, i)[i] = Settled(Less(I[i], 1))
         /\ \A j \in Chunks \ {i} : do_item_remove(I, i)[j] = I[j]
<1>1. I[i] \in Headers /\ I[i].refcount \in Nat
  BY DEF Headers
<1>2. /\ do_item_remove(I, i) \in [Chunks -> Headers]
      /\ \A j \in Chunks \ {i} : do_item_remove(I, i)[j] = I[j]
      /\ I[i].refcount = 1 => do_item_remove(I, i)[i] = Slabbed
      /\ I[i].refcount > 1 => do_item_remove(I, i)[i] = [I[i] EXCEPT !.refcount = @ - 1]
  BY RemoveItem
<1>3. Less(I[i], 1).refcount = I[i].refcount - 1
  BY <1>1, LessTyped
<1> QED BY <1>1, <1>2, <1>3 DEF Settled, Less

LEMMA RemoveTwice ==
  ASSUME NEW I \in [Chunks -> Headers], NEW i \in Chunks, I[i].refcount >= 2
  PROVE  /\ do_item_remove(do_item_remove(I, i), i) \in [Chunks -> Headers]
         /\ do_item_remove(do_item_remove(I, i), i)[i] = Settled(Less(I[i], 2))
         /\ \A j \in Chunks \ {i} : do_item_remove(do_item_remove(I, i), i)[j] = I[j]
<1>1. I[i] \in Headers /\ I[i].refcount \in Nat
  BY DEF Headers
<1> DEFINE J == do_item_remove(I, i)
<1>2. J \in [Chunks -> Headers] /\ J[i] = Settled(Less(I[i], 1)) /\ \A j \in Chunks \ {i} : J[j] = I[j]
  BY <1>1, RemoveOnce
<1>3. Less(I[i], 1).refcount = I[i].refcount - 1
  BY <1>1, LessTyped
<1>4. J[i] = Less(I[i], 1) /\ J[i].refcount >= 1
  BY <1>1, <1>2, <1>3 DEF Settled
<1> HIDE DEF J
<1>5. /\ do_item_remove(J, i) \in [Chunks -> Headers] /\ do_item_remove(J, i)[i] = Settled(Less(J[i], 1))
      /\ \A j \in Chunks \ {i} : do_item_remove(J, i)[j] = J[j]
  BY <1>2, <1>4, RemoveOnce
<1>6. Less(J[i], 1) = Less(I[i], 2)
  <2> DEFINE h == I[i]
  <2>1. h \in Headers /\ h.refcount \in Nat /\ h.refcount >= 2
    BY <1>1
  <2>2. J[i] = Less(h, 1)
    BY <1>4
  <2> HIDE DEF h
  <2>3. Less(Less(h, 1), 1) = Less(h, 2)
    <3>1. \A n, m \in Nat : [[h EXCEPT !.refcount = n] EXCEPT !.refcount = m] = [h EXCEPT !.refcount = m]
      BY <2>1 DEF Headers
    <3>2. PICK n \in Nat : n = h.refcount - 1
      BY <2>1
    <3>3. PICK m \in Nat : m = h.refcount - 2
      BY <2>1
    <3>4. Less(h, 1) = [h EXCEPT !.refcount = n] /\ Less(h, 1).refcount = n /\ n - 1 = m
      BY <2>1, <3>2, <3>3 DEF Less, Headers
    <3>5. Less(Less(h, 1), 1) = [Less(h, 1) EXCEPT !.refcount = m]
      BY <3>4 DEF Less
    <3>6. Less(h, 2) = [h EXCEPT !.refcount = m]
      BY <3>3 DEF Less
    <3> QED BY <3>1, <3>4, <3>5, <3>6
  <2> QED BY <2>2, <2>3 DEF h
<1> QED BY <1>2, <1>5, <1>6 DEF J

\* What a worker knows of an item it has under the lock of its key.
LEMMA WorkerItem ==
  ASSUME IInv, NEW w \in Workers, NEW i \in Chunks, pull[w] = None, i \in {c[w].it, c[w].old, c[w].new},
         c[w].key \in Keys, item_lock[c[w].key] \in {None, w}
  PROVE  /\ item[i].key = c[w].key /\ item[i] \in Headers /\ item[i].refcount \in Nat
         /\ item[i].lru \in Queues /\ item[i] # Slabbed
         /\ item[i].refcount >= Held(c[w], i) + Hold(Unqueues(w, i) \/ item[i].linked)
         /\ Held(c[w], i) >= 1
         /\ \A q \in Queues : i \in At(q) <=>
              q = item[i].lru /\ (Unqueues(w, i) \/ (item[i].linked /\ ~Requeues(w, i)))
         /\ item[i].linked => hash[c[w].key] = i /\ item[i].cas > 0
         /\ item[i].cas <= cas_id /\ item[i].ver <= cas_id
<1>1. w \in Threads /\ w \in Walkers
  BY DEF Threads, Walkers
<1>2. item[i].key = c[w].key /\ item[i] \in Headers /\ item[i].refcount \in Nat
  BY DEF IInv, WorkerOK, TypesOK, Headers
<1>3. item[i].refcount # 0
  BY Unheld
<1>4. item[i] # Slabbed
  BY <1>3 DEF Slabbed
<1>5. Only(w, i)
  BY <1>1, <1>2, LockOnly
<1>6. /\ (Between(i) <=> Unq(w, i)) /\ (Away(i) <=> Req(w, i))
      /\ Refs(i) = Hands(i) + Pulled(i) + Hold(Unq(w, i) \/ item[i].linked)
  BY <1>1, <1>5, OnlyRefs
<1>7. (Unq(w, i) <=> Unqueues(w, i)) /\ (Req(w, i) <=> Requeues(w, i))
  BY DEF Unq, Req, Moves, InHandOf
<1>8. Hands(i) >= Held(c[w], i) /\ Hands(i) \in Nat /\ Pulled(i) \in Nat
  <2>1. Hands(i) >= Held(c[w], i)
    BY HandsAtLeast
  <2> QED BY <2>1, CountTypes
<1>9. item[i].refcount >= Refs(i)
  BY DEF IInv, Counted
<1>10. Held(c[w], i) \in Nat /\ Held(c[w], i) >= 1 /\ Hold(Unqueues(w, i) \/ item[i].linked) \in {0, 1}
       /\ Hold(Unq(w, i) \/ item[i].linked) = Hold(Unqueues(w, i) \/ item[i].linked)
  BY <1>7 DEF Held, Hold
<1>11. item[i].refcount >= Held(c[w], i) + Hold(Unqueues(w, i) \/ item[i].linked)
  BY <1>2, <1>6, <1>8, <1>9, <1>10
<1>12. item[i].lru \in Queues /\ (item[i].linked => hash[c[w].key] = i)
  BY <1>2, <1>4 DEF IInv, TableOK, Tabled
<1>13. CasOf(i) /\ Placed(i)
  BY DEF IInv
<1> QED BY <1>2, <1>4, <1>6, <1>7, <1>10, <1>11, <1>12, <1>13 DEF CasOf, Placed

LEMMA PullLists ==
  ASSUME IInv
  PROVE  FirstPulls \in Seq(PullRequest) /\ \A last \in BOOLEAN : NextPulls(last) \in Seq(PullRequest)
<1>1. settings.lru_maintainer_thread \in BOOLEAN
  BY ItemsAssumption DEF IInv, TypesOK
<1>2. \A a, b, d \in PullRequest : /\ <<a>> \in Seq(PullRequest) /\ <<a, b>> \in Seq(PullRequest)
                                 /\ <<a, b, d>> \in Seq(PullRequest) /\ <<>> \in Seq(PullRequest)
  OBVIOUS
<1>3. /\ Pull("hot", FALSE) \in PullRequest /\ Pull("warm", FALSE) \in PullRequest
      /\ Pull("cold", TRUE) \in PullRequest /\ Pull("cold", FALSE) \in PullRequest
  BY DEF Pull, PullRequest, Queues
<1>4. FirstPulls \in {<<>>, <<Pull("cold", FALSE)>>}
  BY <1>1 DEF FirstPulls
<1>5. ASSUME NEW last \in BOOLEAN
      PROVE  NextPulls(last) \in {<<Pull("hot", FALSE), Pull("warm", FALSE), Pull("cold", TRUE)>>,
                                <<Pull("cold", TRUE), Pull("cold", FALSE)>>, <<Pull("cold", TRUE)>>}
  BY <1>1 DEF NextPulls
<1> QED BY <1>2, <1>3, <1>4, <1>5

LEMMA RepliedInv == ASSUME IInv, NEW w \in Workers, Replied(w) PROVE IInv'
<1>1. IsTable(c) /\ IsConnection(c[w]) /\ WorkerOK(w) /\ settings \in Settings
  BY DEF IInv, TypesOK
<1>2. /\ IsTable(c)' /\ IsConnection(c'[w]) /\ OtherWorkers(w) /\ pull[w] = None
      /\ c[w].pc = "done" /\ c'[w].pc = "new_cmd" /\ c'[w].cmd = "none" /\ c'[w].key = None
      /\ c'[w].it = None /\ c'[w].old = None /\ c'[w].new = None /\ c'[w].todo = <<>>
  BY <1>1 DEF Replied, Connection, Running, OtherWorkers, IsTable, IsConnection, Fields
<1>3. UNCHANGED <<settings, item, hash, queue, cas_id, item_lock, lru_lock, pull, crawlers>>
  BY DEF Replied
<1>4. c'[w].it = c[w].it /\ c'[w].old = c[w].old /\ c'[w].new = c[w].new
  BY <1>1, <1>2, ItemsAssumption DEF WorkerOK, ConnectionOK
<1>5. WorkerOK(w)'
  <2>1. ConnectionOK(c'[w])
    BY <1>1, <1>2, <1>4, ItemsAssumption DEF WorkerOK, ConnectionOK, Locked, Pcs
  <2>2. /\ Commands(w)' => item_lock'[c'[w].key] = w
        /\ c'[w].pc = "found" \/ (c'[w].pc = "alloc" /\ c'[w].old # None) => hash'[c'[w].key] = c'[w].old
        /\ c'[w].pc \in {"reap", "swap", "link"} => hash'[c'[w].key] = None
    BY <1>1, <1>2, <1>3, <1>4 DEF WorkerOK, ConnectionOK, Commands, Locked
  <2>3. \A i \in Chunks : i \in {c'[w].it, c'[w].old, c'[w].new} => item'[i].key = c'[w].key
    BY <1>1, <1>2, <1>3, <1>4, ItemsAssumption DEF WorkerOK, ConnectionOK
  <2> QED BY <1>2, <1>3, <2>1, <2>2, <2>3 DEF WorkerOK
<1>6. \A i \in Chunks : /\ Unqueues(w, i)' <=> Unqueues(w, i)
                        /\ Requeues(w, i)' <=> Requeues(w, i)
                        /\ Fresh(w, i)' => Fresh(w, i)
                        /\ Incring(w, i)' => Incring(w, i)
  BY <1>1, <1>2, <1>4, ItemsAssumption DEF Unqueues, Requeues, Fresh, Incring, Commands, Locked, WorkerOK, ConnectionOK
<1>7. Pending(w)' => Pending(w)
  BY <1>1, <1>2, <1>4 DEF Pending, WorkerOK, ConnectionOK
<1> QED BY <1>2, <1>3, <1>4, <1>5, <1>6, <1>7, ConnStep

LEMMA UpdateInv == ASSUME IInv, NEW w \in Workers, NEW k \in Keys, Update(w, k) PROVE IInv'
<1>1. IsTable(c) /\ IsConnection(c[w]) /\ WorkerOK(w) /\ settings \in Settings
  BY DEF IInv, TypesOK
<1>2. /\ IsTable(c)' /\ IsConnection(c'[w]) /\ OtherWorkers(w) /\ pull[w] = None
      /\ c[w].pc = "new_cmd" /\ c'[w].pc = "alloc" /\ c'[w].cmd = "none" /\ c'[w].key = k
      /\ c'[w].it = None /\ c'[w].old = None /\ c'[w].new = None
      /\ c'[w].todo \in Seq(PullRequest)
  BY <1>1, PullLists DEF Update, NewCommand, Connection, Running, OtherWorkers, IsTable, IsConnection, Fields
<1>3. UNCHANGED <<settings, item, hash, queue, cas_id, item_lock, lru_lock, pull, crawlers>>
  BY DEF Update
<1>4. c'[w].it = c[w].it /\ c'[w].old = c[w].old /\ c'[w].new = c[w].new
  BY <1>1, <1>2, ItemsAssumption DEF WorkerOK, ConnectionOK
<1>5. WorkerOK(w)'
  <2>1. ConnectionOK(c'[w])
    BY <1>1, <1>2, <1>4, ItemsAssumption DEF WorkerOK, ConnectionOK, Locked, Pcs
  <2>2. /\ Commands(w)' => item_lock'[c'[w].key] = w
        /\ c'[w].pc = "found" \/ (c'[w].pc = "alloc" /\ c'[w].old # None) => hash'[c'[w].key] = c'[w].old
        /\ c'[w].pc \in {"reap", "swap", "link"} => hash'[c'[w].key] = None
    BY <1>1, <1>2, <1>3, <1>4 DEF WorkerOK, ConnectionOK, Commands, Locked
  <2>3. \A i \in Chunks : i \in {c'[w].it, c'[w].old, c'[w].new} => item'[i].key = c'[w].key
    BY <1>1, <1>2, <1>3, <1>4, ItemsAssumption DEF WorkerOK, ConnectionOK
  <2> QED BY <1>2, <1>3, <2>1, <2>2, <2>3 DEF WorkerOK
<1>6. \A i \in Chunks : /\ Unqueues(w, i)' <=> Unqueues(w, i)
                        /\ Requeues(w, i)' <=> Requeues(w, i)
                        /\ Fresh(w, i)' => Fresh(w, i)
                        /\ Incring(w, i)' => Incring(w, i)
  BY <1>1, <1>2, <1>4, ItemsAssumption DEF Unqueues, Requeues, Fresh, Incring, Commands, Locked, WorkerOK, ConnectionOK
<1>7. Pending(w)' => Pending(w)
  BY <1>1, <1>2, <1>4 DEF Pending, WorkerOK, ConnectionOK
<1> QED BY <1>2, <1>3, <1>4, <1>5, <1>6, <1>7, ConnStep

LEMMA AllocFailsInv == ASSUME IInv, NEW w \in Workers, slabs_alloc_fails(w) PROVE IInv'
<1>1. IsTable(c) /\ IsConnection(c[w]) /\ WorkerOK(w) /\ settings \in Settings
  BY DEF IInv, TypesOK
<1>2. /\ IsTable(c)' /\ IsConnection(c'[w]) /\ OtherWorkers(w) /\ pull[w] = None
      /\ c[w].pc = "alloc" /\ c'[w].pc = "alloc" /\ c'[w].cmd = c[w].cmd /\ c'[w].key = c[w].key
      /\ c'[w].it = c[w].it /\ c'[w].old = c[w].old /\ c'[w].new = c[w].new
      /\ c'[w].todo \in Seq(PullRequest) /\ c'[w].unique = c[w].unique
  BY <1>1, PullLists DEF slabs_alloc_fails, Running, OtherWorkers, IsTable, IsConnection, Fields
<1>3. UNCHANGED <<settings, item, hash, queue, cas_id, item_lock, lru_lock, pull, crawlers>>
  BY DEF slabs_alloc_fails
<1>4. c'[w].it = c[w].it /\ c'[w].old = c[w].old /\ c'[w].new = c[w].new
  BY <1>1, <1>2, ItemsAssumption DEF WorkerOK, ConnectionOK
<1>5. WorkerOK(w)'
  <2>1. ConnectionOK(c'[w])
    BY <1>1, <1>2, <1>4, ItemsAssumption DEF WorkerOK, ConnectionOK, Locked, Pcs
  <2>2. /\ Commands(w)' => item_lock'[c'[w].key] = w
        /\ c'[w].pc = "found" \/ (c'[w].pc = "alloc" /\ c'[w].old # None) => hash'[c'[w].key] = c'[w].old
        /\ c'[w].pc \in {"reap", "swap", "link"} => hash'[c'[w].key] = None
    BY <1>1, <1>2, <1>3, <1>4 DEF WorkerOK, ConnectionOK, Commands, Locked
  <2>3. \A i \in Chunks : i \in {c'[w].it, c'[w].old, c'[w].new} => item'[i].key = c'[w].key
    BY <1>1, <1>2, <1>3, <1>4, ItemsAssumption DEF WorkerOK, ConnectionOK
  <2> QED BY <1>2, <1>3, <2>1, <2>2, <2>3 DEF WorkerOK
<1>6. \A i \in Chunks : /\ Unqueues(w, i)' <=> Unqueues(w, i)
                        /\ Requeues(w, i)' <=> Requeues(w, i)
                        /\ Fresh(w, i)' => Fresh(w, i)
                        /\ Incring(w, i)' => Incring(w, i)
  BY <1>1, <1>2, <1>4, ItemsAssumption DEF Unqueues, Requeues, Fresh, Incring, Commands, Locked, WorkerOK, ConnectionOK
<1>7. Pending(w)' => Pending(w)
  BY <1>1, <1>2, <1>4 DEF Pending, WorkerOK, ConnectionOK
<1> QED BY <1>2, <1>3, <1>4, <1>5, <1>6, <1>7, ConnStep

LEMMA OutOfMemoryInv == ASSUME IInv, NEW w \in Workers, OutOfMemory(w) PROVE IInv'
<1>1. IsTable(c) /\ IsConnection(c[w]) /\ WorkerOK(w) /\ settings \in Settings
  BY DEF IInv, TypesOK
<1>2. /\ IsTable(c)' /\ IsConnection(c'[w]) /\ OtherWorkers(w) /\ pull[w] = None
      /\ c[w].pc = "alloc" /\ c'[w].cmd = c[w].cmd /\ c'[w].key = c[w].key
      /\ c[w].old # None => c'[w].pc = "release"
      /\ c[w].old = None => c'[w].pc \in {"done", "stale"}
      /\ c'[w].it = c[w].it /\ c'[w].old = c[w].old /\ c'[w].new = c[w].new
      /\ c'[w].todo = c[w].todo /\ c'[w].told.res = "no_memory"
  <2>1. PICK pc \in IF c[w].old # None THEN {"release"} ELSE {"done", "stale"} : c' = [c EXCEPT ![w].pc = pc, ![w].told = [res |-> "no_memory"], ![w].tries = 0]
    BY DEF OutOfMemory
  <2> QED BY <1>1, <2>1 DEF OutOfMemory, Running, OtherWorkers, IsTable, IsConnection, Fields
<1>3. UNCHANGED <<settings, item, hash, queue, cas_id, item_lock, lru_lock, pull, crawlers>>
  BY DEF OutOfMemory
<1>4. c'[w].it = c[w].it /\ c'[w].old = c[w].old /\ c'[w].new = c[w].new
  BY <1>1, <1>2, ItemsAssumption DEF WorkerOK, ConnectionOK
<1>5. WorkerOK(w)'
  <2>1. ConnectionOK(c'[w])
    <3>1. CASE c[w].old = None
      BY <1>1, <1>2, <1>4, <3>1, ItemsAssumption DEF WorkerOK, ConnectionOK, Locked, Pcs
    <3>2. CASE ~(c[w].old = None)
      <4>1. c'[w].pc = "release" /\ c'[w].new = None /\ c[w].key \in Keys
        BY <1>1, <1>2, <1>4, <3>2, ItemsAssumption DEF WorkerOK, ConnectionOK, Locked, Pcs
      <4>2. /\ {c'[w].it, c'[w].old, c'[w].new} \subseteq Chunks \cup {None}
            /\ c'[w].todo \in Seq(PullRequest) /\ c'[w].key \in Keys
            /\ c'[w].it # None => c'[w].it # c'[w].old /\ c'[w].it # c'[w].new
        BY <1>1, <1>2, <1>4, <4>1 DEF WorkerOK, ConnectionOK
      <4> QED BY <4>1, <4>2, <1>4, <3>2 DEF ConnectionOK, Locked, Pcs
    <3> QED BY <3>1, <3>2
  <2>2. /\ Commands(w)' => item_lock'[c'[w].key] = w
        /\ c'[w].pc = "found" \/ (c'[w].pc = "alloc" /\ c'[w].old # None) => hash'[c'[w].key] = c'[w].old
        /\ c'[w].pc \in {"reap", "swap", "link"} => hash'[c'[w].key] = None
    BY <1>1, <1>2, <1>3, <1>4 DEF WorkerOK, ConnectionOK, Commands, Locked
  <2>3. \A i \in Chunks : i \in {c'[w].it, c'[w].old, c'[w].new} => item'[i].key = c'[w].key
    BY <1>1, <1>2, <1>3, <1>4, ItemsAssumption DEF WorkerOK, ConnectionOK
  <2> QED BY <1>2, <1>3, <2>1, <2>2, <2>3 DEF WorkerOK
<1>6. \A i \in Chunks : /\ Unqueues(w, i)' <=> Unqueues(w, i)
                        /\ Requeues(w, i)' <=> Requeues(w, i)
                        /\ Fresh(w, i)' => Fresh(w, i)
                        /\ Incring(w, i)' => Incring(w, i)
  BY <1>1, <1>2, <1>4, ItemsAssumption DEF Unqueues, Requeues, Fresh, Incring, Commands, Locked, WorkerOK, ConnectionOK
<1>7. Pending(w)' => Pending(w)
  BY <1>1, <1>2, <1>4 DEF Pending, WorkerOK, ConnectionOK
<1> QED BY <1>2, <1>3, <1>4, <1>5, <1>6, <1>7, ConnStep

LEMMA AbandonInv == ASSUME IInv, NEW w \in Workers, Abandon(w) PROVE IInv'
<1>1. IsTable(c) /\ IsConnection(c[w]) /\ WorkerOK(w) /\ settings \in Settings
  BY DEF IInv, TypesOK
<1>2. /\ IsTable(c)' /\ IsConnection(c'[w]) /\ OtherWorkers(w) /\ pull[w] = None
      /\ c[w].pc = "nread" /\ c'[w].cmd = c[w].cmd /\ c'[w].key = c[w].key /\ c'[w].pc = "drop"
      /\ c'[w].it = c[w].it /\ c'[w].old = c[w].old /\ c'[w].new = c[w].new
      /\ c'[w].todo = c[w].todo
  BY <1>1 DEF Abandon, Running, OtherWorkers, IsTable, IsConnection, Fields
<1>3. UNCHANGED <<settings, item, hash, queue, cas_id, item_lock, lru_lock, pull, crawlers>>
  BY DEF Abandon
<1>4. c'[w].it = c[w].it /\ c'[w].old = c[w].old /\ c'[w].new = c[w].new
  BY <1>1, <1>2, ItemsAssumption DEF WorkerOK, ConnectionOK
<1>5. WorkerOK(w)'
  <2>1. ConnectionOK(c'[w])
    BY <1>1, <1>2, <1>4, ItemsAssumption DEF WorkerOK, ConnectionOK, Locked, Pcs
  <2>2. /\ Commands(w)' => item_lock'[c'[w].key] = w
        /\ c'[w].pc = "found" \/ (c'[w].pc = "alloc" /\ c'[w].old # None) => hash'[c'[w].key] = c'[w].old
        /\ c'[w].pc \in {"reap", "swap", "link"} => hash'[c'[w].key] = None
    BY <1>1, <1>2, <1>3, <1>4 DEF WorkerOK, ConnectionOK, Commands, Locked
  <2>3. \A i \in Chunks : i \in {c'[w].it, c'[w].old, c'[w].new} => item'[i].key = c'[w].key
    BY <1>1, <1>2, <1>3, <1>4, ItemsAssumption DEF WorkerOK, ConnectionOK
  <2> QED BY <1>2, <1>3, <2>1, <2>2, <2>3 DEF WorkerOK
<1>6. \A i \in Chunks : /\ Unqueues(w, i)' <=> Unqueues(w, i)
                        /\ Requeues(w, i)' <=> Requeues(w, i)
                        /\ Fresh(w, i)' => Fresh(w, i)
                        /\ Incring(w, i)' => Incring(w, i)
  BY <1>1, <1>2, <1>4, ItemsAssumption DEF Unqueues, Requeues, Fresh, Incring, Commands, Locked, WorkerOK, ConnectionOK
<1>7. Pending(w)' => Pending(w)
  BY <1>1, <1>2, <1>4 DEF Pending, WorkerOK, ConnectionOK
<1> QED BY <1>2, <1>3, <1>4, <1>5, <1>6, <1>7, ConnStep

LEMMA RefusedInv == ASSUME IInv, NEW w \in Workers, store_refused(w) PROVE IInv'
<1>1. IsTable(c) /\ IsConnection(c[w]) /\ WorkerOK(w) /\ settings \in Settings
  BY DEF IInv, TypesOK
<1>2. /\ IsTable(c)' /\ IsConnection(c'[w]) /\ OtherWorkers(w) /\ pull[w] = None
      /\ c[w].pc = "found" /\ c'[w].cmd = c[w].cmd /\ c'[w].key = c[w].key
      /\ c'[w].pc \in {"release", "refresh"} /\ (c'[w].pc = "refresh" => c[w].old # None)
      /\ c'[w].it = c[w].it /\ c'[w].old = c[w].old /\ c'[w].new = c[w].new
      /\ c'[w].todo = c[w].todo
  <2>1. PICK pc \in IF c[w].cmd = "add" THEN AfterUpdate ELSE {"release"} : c' = [c EXCEPT ![w].told = Told(w, "refused"), ![w].pc = pc]
    BY DEF store_refused
  <2>2. c[w].cmd = "add" => c[w].old # None
    BY DEF store_refused, Refused
  <2> HIDE DEF Refused
  <2> QED BY <1>1, <2>1, <2>2 DEF store_refused, Found, AfterUpdate, Running, OtherWorkers, IsTable,
                                  IsConnection, Fields
<1>3. UNCHANGED <<settings, item, hash, queue, cas_id, item_lock, lru_lock, pull, crawlers>>
  BY DEF store_refused
<1>4. c'[w].it = c[w].it /\ c'[w].old = c[w].old /\ c'[w].new = c[w].new
  BY <1>1, <1>2, ItemsAssumption DEF WorkerOK, ConnectionOK
<1>5. WorkerOK(w)'
  <2>1. ConnectionOK(c'[w])
    <3>1. CASE c'[w].pc = "refresh"
      BY <1>1, <1>2, <1>4, <3>1, ItemsAssumption DEF WorkerOK, ConnectionOK, Locked, Pcs
    <3>2. CASE ~(c'[w].pc = "refresh")
      <4>1. c'[w].pc = "release" /\ c'[w].new = None /\ c[w].key \in Keys
        BY <1>1, <1>2, <1>4, <3>2, ItemsAssumption DEF WorkerOK, ConnectionOK, Locked, Pcs
      <4>2. /\ {c'[w].it, c'[w].old, c'[w].new} \subseteq Chunks \cup {None}
            /\ c'[w].todo \in Seq(PullRequest) /\ c'[w].key \in Keys
            /\ c'[w].it # None => c'[w].it # c'[w].old /\ c'[w].it # c'[w].new
        BY <1>1, <1>2, <1>4, <4>1 DEF WorkerOK, ConnectionOK
      <4> QED BY <4>1, <4>2, <1>4, <3>2 DEF ConnectionOK, Locked, Pcs
    <3> QED BY <3>1, <3>2
  <2>2. /\ Commands(w)' => item_lock'[c'[w].key] = w
        /\ c'[w].pc = "found" \/ (c'[w].pc = "alloc" /\ c'[w].old # None) => hash'[c'[w].key] = c'[w].old
        /\ c'[w].pc \in {"reap", "swap", "link"} => hash'[c'[w].key] = None
    BY <1>1, <1>2, <1>3, <1>4 DEF WorkerOK, ConnectionOK, Commands, Locked
  <2>3. \A i \in Chunks : i \in {c'[w].it, c'[w].old, c'[w].new} => item'[i].key = c'[w].key
    BY <1>1, <1>2, <1>3, <1>4, ItemsAssumption DEF WorkerOK, ConnectionOK
  <2> QED BY <1>2, <1>3, <2>1, <2>2, <2>3 DEF WorkerOK
<1>6. \A i \in Chunks : /\ Unqueues(w, i)' <=> Unqueues(w, i)
                        /\ Requeues(w, i)' <=> Requeues(w, i)
                        /\ Fresh(w, i)' => Fresh(w, i)
                        /\ Incring(w, i)' => Incring(w, i)
  BY <1>1, <1>2, <1>4, ItemsAssumption DEF Unqueues, Requeues, Fresh, Incring, Commands, Locked, WorkerOK, ConnectionOK
<1>7. Pending(w)' => Pending(w)
  BY <1>1, <1>2, <1>4 DEF Pending, WorkerOK, ConnectionOK
<1> QED BY <1>2, <1>3, <1>4, <1>5, <1>6, <1>7, ConnStep

LEMMA AppendInv == ASSUME IInv, NEW w \in Workers, store_append(w) PROVE IInv'
<1>1. IsTable(c) /\ IsConnection(c[w]) /\ WorkerOK(w) /\ settings \in Settings
  BY DEF IInv, TypesOK
<1>2. /\ IsTable(c)' /\ IsConnection(c'[w]) /\ OtherWorkers(w) /\ pull[w] = None
      /\ c[w].pc = "found" /\ c'[w].cmd = c[w].cmd /\ c'[w].key = c[w].key
      /\ c'[w].pc = "alloc" /\ c[w].cmd = "append" /\ ~Refused(w) /\ c'[w].unique = c[w].unique
      /\ c'[w].it = c[w].it /\ c'[w].old = c[w].old /\ c'[w].new = c[w].new
      /\ c'[w].todo \in Seq(PullRequest)
  BY <1>1, PullLists DEF store_append, Found, Combine, Running, OtherWorkers, IsTable, IsConnection, Fields
<1>3. UNCHANGED <<settings, item, hash, queue, cas_id, item_lock, lru_lock, pull, crawlers>>
  BY DEF store_append
<1>4. c'[w].it = c[w].it /\ c'[w].old = c[w].old /\ c'[w].new = c[w].new
  BY <1>1, <1>2, ItemsAssumption DEF WorkerOK, ConnectionOK
<1>5. WorkerOK(w)'
  <2>1. ConnectionOK(c'[w])
    BY <1>1, <1>2, <1>4, ItemsAssumption DEF WorkerOK, ConnectionOK, Locked, Pcs, Refused
  <2>2. /\ Commands(w)' => item_lock'[c'[w].key] = w
        /\ c'[w].pc = "found" \/ (c'[w].pc = "alloc" /\ c'[w].old # None) => hash'[c'[w].key] = c'[w].old
        /\ c'[w].pc \in {"reap", "swap", "link"} => hash'[c'[w].key] = None
    BY <1>1, <1>2, <1>3, <1>4 DEF WorkerOK, ConnectionOK, Commands, Locked
  <2>3. \A i \in Chunks : i \in {c'[w].it, c'[w].old, c'[w].new} => item'[i].key = c'[w].key
    BY <1>1, <1>2, <1>3, <1>4, ItemsAssumption DEF WorkerOK, ConnectionOK
  <2> QED BY <1>2, <1>3, <2>1, <2>2, <2>3 DEF WorkerOK
<1>6. \A i \in Chunks : /\ Unqueues(w, i)' <=> Unqueues(w, i)
                        /\ Requeues(w, i)' <=> Requeues(w, i)
                        /\ Fresh(w, i)' => Fresh(w, i)
                        /\ Incring(w, i)' => Incring(w, i)
  BY <1>1, <1>2, <1>4, ItemsAssumption DEF Unqueues, Requeues, Fresh, Incring, Commands, Locked, WorkerOK, ConnectionOK
<1>7. Pending(w)' => Pending(w)
  BY <1>1, <1>2, <1>4 DEF Pending, WorkerOK, ConnectionOK
<1> QED BY <1>2, <1>3, <1>4, <1>5, <1>6, <1>7, ConnStep

LEMMA DeltaEmptyInv == ASSUME IInv, NEW w \in Workers, delta_empty(w) PROVE IInv'
<1>1. IsTable(c) /\ IsConnection(c[w]) /\ WorkerOK(w) /\ settings \in Settings
  BY DEF IInv, TypesOK
<1>2. /\ IsTable(c)' /\ IsConnection(c'[w]) /\ OtherWorkers(w) /\ pull[w] = None
      /\ c[w].pc = "found" /\ c'[w].cmd = c[w].cmd /\ c'[w].key = c[w].key
      /\ c'[w].pc = "release" /\ item[c[w].old].val = Empty
      /\ c'[w].it = c[w].it /\ c'[w].old = c[w].old /\ c'[w].new = c[w].new
      /\ c'[w].todo = c[w].todo
  BY <1>1 DEF delta_empty, Found, Running, OtherWorkers, IsTable, IsConnection, Fields
<1>3. UNCHANGED <<settings, item, hash, queue, cas_id, item_lock, lru_lock, pull, crawlers>>
  BY DEF delta_empty
<1>4. c'[w].it = c[w].it /\ c'[w].old = c[w].old /\ c'[w].new = c[w].new
  BY <1>1, <1>2, ItemsAssumption DEF WorkerOK, ConnectionOK
<1>5. WorkerOK(w)'
  <2>1. ConnectionOK(c'[w])
    BY <1>1, <1>2, <1>4, ItemsAssumption DEF WorkerOK, ConnectionOK, Locked, Pcs
  <2>2. /\ Commands(w)' => item_lock'[c'[w].key] = w
        /\ c'[w].pc = "found" \/ (c'[w].pc = "alloc" /\ c'[w].old # None) => hash'[c'[w].key] = c'[w].old
        /\ c'[w].pc \in {"reap", "swap", "link"} => hash'[c'[w].key] = None
    BY <1>1, <1>2, <1>3, <1>4 DEF WorkerOK, ConnectionOK, Commands, Locked
  <2>3. \A i \in Chunks : i \in {c'[w].it, c'[w].old, c'[w].new} => item'[i].key = c'[w].key
    BY <1>1, <1>2, <1>3, <1>4, ItemsAssumption DEF WorkerOK, ConnectionOK
  <2> QED BY <1>2, <1>3, <2>1, <2>2, <2>3 DEF WorkerOK
<1>6. \A i \in Chunks : /\ Unqueues(w, i)' <=> Unqueues(w, i)
                        /\ Requeues(w, i)' <=> Requeues(w, i)
                        /\ Fresh(w, i)' => Fresh(w, i)
                        /\ Incring(w, i)' => Incring(w, i)
  BY <1>1, <1>2, <1>4, ItemsAssumption DEF Unqueues, Requeues, Fresh, Incring, Commands, Locked, WorkerOK, ConnectionOK
<1>7. Pending(w)' => Pending(w)
  BY <1>1, <1>2, <1>4 DEF Pending, WorkerOK, ConnectionOK
<1> QED BY <1>2, <1>3, <1>4, <1>5, <1>6, <1>7, ConnStep

LEMMA DeltaReplaceInv == ASSUME IInv, NEW w \in Workers, delta_replace(w) PROVE IInv'
<1>1. IsTable(c) /\ IsConnection(c[w]) /\ WorkerOK(w) /\ settings \in Settings
  BY DEF IInv, TypesOK
<1>2. /\ IsTable(c)' /\ IsConnection(c'[w]) /\ OtherWorkers(w) /\ pull[w] = None
      /\ c[w].pc = "found" /\ c'[w].cmd = c[w].cmd /\ c'[w].key = c[w].key
      /\ c'[w].pc = "alloc" /\ c[w].cmd = "incr" /\ ~Refused(w) /\ c'[w].unique = c[w].unique
      /\ c'[w].it = c[w].it /\ c'[w].old = c[w].old /\ c'[w].new = c[w].new
      /\ c'[w].todo \in Seq(PullRequest)
  BY <1>1, PullLists DEF delta_replace, Found, Combine, Running, OtherWorkers, IsTable, IsConnection, Fields
<1>3. UNCHANGED <<settings, item, hash, queue, cas_id, item_lock, lru_lock, pull, crawlers>>
  BY DEF delta_replace
<1>4. c'[w].it = c[w].it /\ c'[w].old = c[w].old /\ c'[w].new = c[w].new
  BY <1>1, <1>2, ItemsAssumption DEF WorkerOK, ConnectionOK
<1>5. WorkerOK(w)'
  <2>1. ConnectionOK(c'[w])
    BY <1>1, <1>2, <1>4, ItemsAssumption DEF WorkerOK, ConnectionOK, Locked, Pcs, Refused
  <2>2. /\ Commands(w)' => item_lock'[c'[w].key] = w
        /\ c'[w].pc = "found" \/ (c'[w].pc = "alloc" /\ c'[w].old # None) => hash'[c'[w].key] = c'[w].old
        /\ c'[w].pc \in {"reap", "swap", "link"} => hash'[c'[w].key] = None
    BY <1>1, <1>2, <1>3, <1>4 DEF WorkerOK, ConnectionOK, Commands, Locked
  <2>3. \A i \in Chunks : i \in {c'[w].it, c'[w].old, c'[w].new} => item'[i].key = c'[w].key
    BY <1>1, <1>2, <1>3, <1>4, ItemsAssumption DEF WorkerOK, ConnectionOK
  <2> QED BY <1>2, <1>3, <2>1, <2>2, <2>3 DEF WorkerOK
<1>6. \A i \in Chunks : /\ Unqueues(w, i)' <=> Unqueues(w, i)
                        /\ Requeues(w, i)' <=> Requeues(w, i)
                        /\ Fresh(w, i)' => Fresh(w, i)
                        /\ Incring(w, i)' => Incring(w, i)
  BY <1>1, <1>2, <1>4, ItemsAssumption DEF Unqueues, Requeues, Fresh, Incring, Commands, Locked, WorkerOK, ConnectionOK
<1>7. Pending(w)' => Pending(w)
  BY <1>1, <1>2, <1>4 DEF Pending, WorkerOK, ConnectionOK
<1> QED BY <1>2, <1>3, <1>4, <1>5, <1>6, <1>7, ConnStep

-----------------------------------------------------------------------------
(* Steps of a worker that touch an item. *)

\* What WorkerOK says of the connection and the table.
KeyOK(w) ==
  /\ ConnectionOK(c[w])
  /\ Commands(w) => item_lock[c[w].key] = w
  /\ c[w].pc = "found" \/ (c[w].pc = "alloc" /\ c[w].old # None) => hash[c[w].key] = c[w].old
  /\ c[w].pc \in {"reap", "swap", "link"} => hash[c[w].key] = None

LEMMA WorkerKept ==
  ASSUME IInv, NEW w \in Workers, NEW k \in Keys, pull[w] = None, OtherWorkers(w),
         UNCHANGED <<settings, lru_lock, pull, crawlers>>,
         IsTable(c)', IsConnection(c'[w]), item' = [i \in Chunks |-> item'[i]],
         LockStep(w, k), HashStep(w, k), QueueStep(w), CrawlersStay, Rehashed(k), CasGiven(w),
         KeyOK(w)',
         \A j \in Chunks : j \in {c'[w].it, c'[w].old, c'[w].new} =>
           c'[w].key = k /\ (item[j].key = k \/ item[j].refcount = 0),
         \A i \in Chunks : Untouched(w, i) \/ \E h : Touched(w, k, i, h)
  PROVE  IInv'
<1>1. w \in Threads /\ OtherThreads(w)
  BY DEF Threads, OtherThreads, OtherWorkers
<1>2. cas_id \in Nat /\ cas_id' \in Nat /\ cas_id' >= cas_id
  BY DEF CasGiven, IInv, TypesOK
<1>3. ASSUME NEW j \in Chunks, j \in {c'[w].it, c'[w].old, c'[w].new} PROVE item'[j].key = c'[w].key
  <2>1. CASE Untouched(w, j)
    <3>1. j \in {c[w].it, c[w].old, c[w].new} /\ item'[j] = item[j]
      BY <1>3, <2>1 DEF Untouched, SameIn
    <3>2. item[j].refcount # 0
      BY <3>1, Unheld
    <3> QED BY <1>3, <3>1, <3>2
  <2>2. CASE \E h : Touched(w, k, j, h)
    <3>1. item'[j].key = k \/ (Hands(j)' + Pulled(j)') = 0
      BY <1>1, <1>2, <2>2, TouchedKept
    <3>2. (Hands(j)' + Pulled(j)') # 0
      BY <1>3, NoHands
    <3> QED BY <1>3, <3>1, <3>2
  <2> QED BY <2>1, <2>2
<1>4. WorkerOK(w)'
  BY <1>3 DEF KeyOK, WorkerOK
<1> QED BY <1>4, WorkerInv

\* One item is touched.
LEMMA WorkerOne ==
  ASSUME IInv, NEW w \in Workers, NEW k \in Keys, pull[w] = None, OtherWorkers(w),
         UNCHANGED <<settings, lru_lock, pull, crawlers>>,
         IsTable(c)', IsConnection(c'[w]), item' = [j \in Chunks |-> item'[j]],
         LockStep(w, k), HashStep(w, k), QueueStep(w), CrawlersStay, CasGiven(w),
         KeyOK(w)',
         \A j \in Chunks : j \in {c'[w].it, c'[w].old, c'[w].new} =>
           c'[w].key = k /\ (item[j].key = k \/ item[j].refcount = 0),
         NEW i \in Chunks, NEW h, Touched(w, k, i, h), \A j \in Chunks \ {i} : Untouched(w, j),
         hash'[k] \in {None, hash[k], i}, hash'[k] = i => h.linked,
         hash'[k] # hash[k] => hash[k] = None \/ (hash[k] = i /\ ~h.linked)
  PROVE  IInv'
<1>1. w \in Threads /\ OtherThreads(w)
  BY DEF Threads, OtherThreads, OtherWorkers
<1>2. cas_id \in Nat /\ cas_id' \in Nat /\ cas_id' >= cas_id
  BY DEF CasGiven, IInv, TypesOK
<1>3. item'[i].linked <=> h.linked
  BY <1>1, <1>2, TouchedKept
<1>4. h.key = k /\ (item'[i] = h \/ item'[i] = Slabbed)
  BY DEF Touched, Settled
<1>5. hash[k] \in Chunks \cup {None} /\ (hash[k] # None => item[hash[k]].linked /\ item[hash[k]].key = k)
  BY DEF IInv, TypesOK, TableOK
<1>6. \A j \in Chunks \ {i} : item'[j] = item[j]
  BY DEF Untouched
<1>7. ~Slabbed.linked
  BY DEF Slabbed
<1>8. Rehashed(k)
  BY <1>3, <1>4, <1>5, <1>6, <1>7 DEF Rehashed
<1> QED BY <1>8, WorkerKept

LEMMA ItemRemoveInv == ASSUME IInv, NEW w \in Workers, item_remove(w) PROVE IInv'
<1>1. IsTable(c) /\ IsConnection(c[w]) /\ WorkerOK(w) /\ item \in [Chunks -> Headers]
  BY DEF IInv, TypesOK
<1>2. /\ IsTable(c)' /\ IsConnection(c'[w]) /\ OtherWorkers(w) /\ pull[w] = None
      /\ c[w].pc = "drop" /\ c'[w].pc = "new_cmd" /\ c'[w].cmd = "none" /\ c'[w].key = None
      /\ c'[w].it = None /\ c'[w].old = None /\ c'[w].new = None /\ c'[w].todo = <<>>
  BY <1>1 DEF item_remove, Connection, Running, OtherWorkers, IsTable, IsConnection, Fields
<1>3. /\ UNCHANGED <<settings, hash, queue, cas_id, item_lock, lru_lock, pull, crawlers>>
      /\ item' = do_item_remove(item, c[w].it) /\ item_lock[c[w].key] = None
  BY DEF item_remove
<1>4. PICK i \in Chunks, k \in Keys : /\ i = c[w].it /\ k = c[w].key /\ i # None
                                      /\ c[w].old = None /\ c[w].new = None
  BY <1>1, <1>2, ItemsAssumption DEF WorkerOK, ConnectionOK
<1>5. /\ item[i].key = k /\ item[i] \in Headers /\ item[i].refcount \in Nat
      /\ item[i].lru \in Queues
      /\ item[i].refcount >= Held(c[w], i) + Hold(Unqueues(w, i) \/ item[i].linked)
      /\ \A q \in Queues : i \in At(q) <=>
           q = item[i].lru /\ (Unqueues(w, i) \/ (item[i].linked /\ ~Requeues(w, i)))
      /\ item[i].linked => hash[k] = i /\ item[i].cas > 0
      /\ item[i].cas <= cas_id /\ item[i].ver <= cas_id
  BY <1>2, <1>3, <1>4, WorkerItem
<1>6. /\ Held(c[w], i) = 1 /\ Held(c'[w], i) = 0
      /\ ~Unqueues(w, i) /\ ~Requeues(w, i) /\ ~Unqueues(w, i)' /\ ~Requeues(w, i)'
      /\ ~Fresh(w, i)' /\ ~Incring(w, i)'
  BY <1>2, <1>4 DEF Held, Hold, Unqueues, Requeues, Fresh, Incring
<1>7. Hold(Unqueues(w, i) \/ item[i].linked) = Hold(item[i].linked) /\ Hold(item[i].linked) \in {0, 1}
  BY <1>6 DEF Hold
<1>8. item[i].refcount >= 1
  BY <1>5, <1>6, <1>7
<1>9. PICK h : h = Less(item[i], 1)
  OBVIOUS
<1>10. /\ item' \in [Chunks -> Headers] /\ item'[i] = Settled(h)
       /\ \A j \in Chunks \ {i} : item'[j] = item[j]
  BY <1>1, <1>3, <1>4, <1>8, <1>9, RemoveOnce
<1>11. /\ h \in Headers /\ h.refcount = item[i].refcount - 1
       /\ h.key = k /\ h.lru = item[i].lru /\ h.linked = item[i].linked
       /\ h.val = item[i].val /\ h.cas = item[i].cas /\ h.ver = item[i].ver
  BY <1>5, <1>8, <1>9, LessTyped
<1>12. QueueStep(w) /\ CrawlersStay /\ \A j, r : j \in At(r)' <=> j \in At(r)
  BY <1>3, SameQueues
<1>13. Touched(w, k, i, h)
  <2>1. WorkerGain(w, i, h) = 0
    <3>1. Hold(Unqueues(w, i)' \/ h.linked) = Hold(item[i].linked)
      BY <1>6, <1>11 DEF Hold
    <3> QED BY <1>5, <1>6, <1>7, <1>11, <3>1 DEF WorkerGain
  <2>2. \A q \in Queues : i \in At(q)' <=>
          q = h.lru /\ (Unqueues(w, i)' \/ (h.linked /\ ~Requeues(w, i)'))
    BY <1>5, <1>6, <1>11, <1>12
  <2>3. /\ item[i].key = k /\ item_lock[k] \in {None, w}
        /\ item[i].linked \/ i \in {c[w].it, c[w].old, c[w].new}
        /\ item[i].val = Empty => h.val = Empty
    BY <1>3, <1>4, <1>5, <1>11
  <2>4. /\ h \in Headers /\ h.key = k /\ h.lru \in Queues
        /\ h.linked => hash'[k] = i /\ h.cas > 0
        /\ h.cas <= cas_id' /\ h.ver <= cas_id'
    BY <1>3, <1>5, <1>11
  <2> QED BY <1>2, <1>3, <1>4, <1>5, <1>6, <1>10, <2>1, <2>2, <2>3, <2>4, WorkerTouched
<1>14. \A j \in Chunks \ {i} : Untouched(w, j)
  BY <1>2, <1>3, <1>4, <1>10, <1>12, ItemsAssumption, Elsewhere
<1>15. KeyOK(w)' /\ CasGiven(w) /\ LockStep(w, k) /\ HashStep(w, k)
  <2>1. ConnectionOK(c'[w])
    BY <1>1, <1>2, ItemsAssumption DEF WorkerOK, ConnectionOK, Locked, Pcs
  <2>2. ~Commands(w)' /\ ~Pending(w)'
    BY <1>2 DEF Commands, Locked, Pending
  <2> QED BY <1>2, <1>3, <2>1, <2>2 DEF KeyOK, CasGiven, LockStep, HashStep
<1>16. \A j \in Chunks : j \notin {c'[w].it, c'[w].old, c'[w].new}
  BY <1>2, ItemsAssumption
<1>17. hash'[k] = hash[k] /\ (hash[k] = i => h.linked)
  <2>1. hash[k] = i => item[i].linked
    BY <1>4 DEF IInv, TableOK
  <2> QED BY <1>3, <1>11, <2>1
<1>18. item' = [j \in Chunks |-> item'[j]]
  BY <1>10
<1> QED BY <1>2, <1>3, <1>4, <1>12, <1>13, <1>14, <1>15, <1>16, <1>17, <1>18, WorkerOne

LEMMA UnlinkDoneInv == 
  ASSUME IInv, NEW w \in Workers, UnlinkDone(w)
  PROVE  IInv'
<1>1. IsTable(c) /\ IsConnection(c[w]) /\ WorkerOK(w) /\ item \in [Chunks -> Headers]
  BY DEF IInv, TypesOK
<1>2. /\ IsTable(c)' /\ IsConnection(c'[w]) /\ OtherWorkers(w) /\ pull[w] = None
      /\ c[w].pc = "unlinking" /\ c'[w].pc = "drop" /\ c'[w].cmd = c[w].cmd /\ c'[w].key = c[w].key
      /\ c'[w].it = c[w].it /\ c'[w].old = c[w].old /\ c'[w].new = c[w].new /\ c'[w].todo = c[w].todo
  BY <1>1 DEF UnlinkDone, Running, OtherWorkers, IsTable, IsConnection, Fields
<1>3. /\ UNCHANGED <<settings, hash, cas_id, lru_lock, pull, crawlers>>
      /\ item' = do_item_remove(item, c[w].it) /\ Unlock(c[w].key)
      /\ lru_lock[item[c[w].it].lru] = None
      /\ queue' = do_item_unlink_q(queue, item[c[w].it].lru, c[w].it)
  BY DEF UnlinkDone
<1>4. PICK i \in Chunks, k \in Keys : /\ i = c[w].it /\ k = c[w].key /\ i # None /\ item_lock[k] = w
                                      /\ c[w].old = None /\ c[w].new = None
  BY <1>1, <1>2, ItemsAssumption DEF WorkerOK, ConnectionOK, Commands, Locked
<1>5. /\ item[i].key = k /\ item[i] \in Headers /\ item[i].refcount \in Nat
      /\ item[i].lru \in Queues
      /\ item[i].refcount >= Held(c[w], i) + Hold(Unqueues(w, i) \/ item[i].linked)
      /\ \A q \in Queues : i \in At(q) <=>
           q = item[i].lru /\ (Unqueues(w, i) \/ (item[i].linked /\ ~Requeues(w, i)))
      /\ item[i].linked => hash[k] = i /\ item[i].cas > 0
      /\ item[i].cas <= cas_id /\ item[i].ver <= cas_id
  BY <1>2, <1>3, <1>4, WorkerItem
<1>6. Unqueues(w, i) /\ ~item[i].linked
  <2>1. Unqueues(w, i)
    BY <1>2, <1>4 DEF Unqueues
  <2> QED BY <2>1 DEF IInv, Placed
<1>7. /\ Held(c[w], i) = 1 /\ Held(c'[w], i) = 1 /\ ~item[i].linked
      /\ Unqueues(w, i) /\ ~Unqueues(w, i)' /\ ~Requeues(w, i)'
      /\ ~Fresh(w, i)' /\ ~Incring(w, i)'
  BY <1>2, <1>4, <1>6 DEF Held, Hold, Unqueues, Requeues, Fresh, Incring, Commands, Locked
<1>8. item[i].refcount >= 1
  BY <1>5, <1>7 DEF Hold
<1>9. PICK h : h = Less(item[i], 1)
  OBVIOUS
<1>10. /\ item' \in [Chunks -> Headers] /\ item'[i] = Settled(h)
       /\ \A j \in Chunks \ {i} : item'[j] = item[j]
  BY <1>1, <1>3, <1>4, <1>8, <1>9, RemoveOnce
<1>11. /\ h \in Headers /\ h.refcount = item[i].refcount - 1
       /\ h.key = k /\ h.lru = item[i].lru /\ h.linked = item[i].linked
       /\ h.val = item[i].val /\ h.cas = item[i].cas /\ h.ver = item[i].ver
  BY <1>5, <1>8, <1>9, LessTyped
<1>12. /\ QueueStep(w) /\ CrawlersStay
       /\ \A r \in Queues : i \notin At(r)'
       /\ \A j \in Chunks \ {i} : \A r \in Queues : j \in At(r)' <=> j \in At(r)
  <2>1. i \in At(item[i].lru)
    BY <1>5, <1>7
  <2>2. /\ item[i].lru \in Queues /\ lru_lock[item[i].lru] \in {None, w}
        /\ queue' = do_item_unlink_q(queue, item[i].lru, i)
    BY <1>3, <1>4, <1>5
  <2> QED BY <2>1, <2>2, OutOfQueue
<1>13. Touched(w, k, i, h)
  <2>1. WorkerGain(w, i, h) = 0
    BY <1>5, <1>7, <1>11 DEF WorkerGain, Hold
  <2>2. \A q \in Queues : i \in At(q)' <=>
          q = h.lru /\ (Unqueues(w, i)' \/ (h.linked /\ ~Requeues(w, i)'))
    BY <1>5, <1>7, <1>11, <1>12
  <2>3. /\ item[i].key = k /\ item_lock[k] \in {None, w}
        /\ item[i].linked \/ i \in {c[w].it, c[w].old, c[w].new}
        /\ item[i].val = Empty => h.val = Empty
    BY <1>3, <1>4, <1>5, <1>11
  <2>4. /\ h \in Headers /\ h.key = k /\ h.lru \in Queues
        /\ h.linked => hash'[k] = i /\ h.cas > 0
        /\ h.cas <= cas_id' /\ h.ver <= cas_id'
    BY <1>3, <1>5, <1>7, <1>11
  <2> QED BY <1>2, <1>3, <1>4, <1>5, <1>7, <1>10, <1>11, <2>1, <2>2, <2>3, <2>4, WorkerTouched
<1>14. \A j \in Chunks \ {i} : Untouched(w, j)
  BY <1>2, <1>3, <1>4, <1>10, <1>12, ItemsAssumption, Elsewhere
<1>15. KeyOK(w)' /\ CasGiven(w) /\ LockStep(w, k) /\ HashStep(w, k)
  <2>1. ConnectionOK(c'[w])
    BY <1>1, <1>2, ItemsAssumption DEF WorkerOK, ConnectionOK, Locked, Pcs
  <2>2. ~Commands(w)' /\ ~Pending(w)'
    BY <1>2 DEF Commands, Locked, Pending
  <2> QED BY <1>2, <1>3, <1>4, <2>1, <2>2 DEF KeyOK, CasGiven, LockStep, HashStep
<1>16. \A j \in Chunks : j \in {c'[w].it, c'[w].old, c'[w].new} =>
         c'[w].key = k /\ (item[j].key = k \/ item[j].refcount = 0)
  BY <1>1, <1>2, <1>4 DEF WorkerOK
<1>17. hash'[k] = hash[k] /\ hash[k] # i
  BY <1>3, <1>4, <1>7 DEF IInv, TableOK
<1>18. item' = [j \in Chunks |-> item'[j]]
  BY <1>10
<1> QED BY <1>2, <1>3, <1>4, <1>12, <1>13, <1>14, <1>15, <1>16, <1>17, <1>18, WorkerOne

LEMMA SwapInv == 
  ASSUME IInv, NEW w \in Workers, Swap(w)
  PROVE  IInv'
<1>1. IsTable(c) /\ IsConnection(c[w]) /\ WorkerOK(w) /\ item \in [Chunks -> Headers]
  BY DEF IInv, TypesOK
<1>2. /\ IsTable(c)' /\ IsConnection(c'[w]) /\ OtherWorkers(w) /\ pull[w] = None
      /\ c[w].pc = "swap" /\ c'[w].pc = "link" /\ c'[w].cmd = c[w].cmd /\ c'[w].key = c[w].key
      /\ c'[w].it = c[w].it /\ c'[w].old = c[w].old /\ c'[w].new = c[w].new /\ c'[w].todo = c[w].todo
      /\ c'[w].unique = c[w].unique
  BY <1>1 DEF Swap, Running, OtherWorkers, IsTable, IsConnection, Fields
<1>3. /\ UNCHANGED <<settings, hash, cas_id, item_lock, lru_lock, pull, crawlers>>
      /\ item' = do_item_remove(item, c[w].old)
      /\ lru_lock[item[c[w].old].lru] = None
      /\ queue' = do_item_unlink_q(queue, item[c[w].old].lru, c[w].old)
  BY DEF Swap
<1>4. PICK i \in Chunks, k \in Keys : /\ i = c[w].old /\ k = c[w].key /\ i # None /\ item_lock[k] = w
                                      /\ c[w].it # i /\ c[w].new # i /\ hash[k] = None
  BY <1>1, <1>2, ItemsAssumption DEF WorkerOK, ConnectionOK, Commands, Locked
<1>5. /\ item[i].key = k /\ item[i] \in Headers /\ item[i].refcount \in Nat
      /\ item[i].lru \in Queues
      /\ item[i].refcount >= Held(c[w], i) + Hold(Unqueues(w, i) \/ item[i].linked)
      /\ \A q \in Queues : i \in At(q) <=>
           q = item[i].lru /\ (Unqueues(w, i) \/ (item[i].linked /\ ~Requeues(w, i)))
      /\ item[i].linked => hash[k] = i /\ item[i].cas > 0
      /\ item[i].cas <= cas_id /\ item[i].ver <= cas_id
  BY <1>2, <1>3, <1>4, WorkerItem
<1>6. Unqueues(w, i) /\ ~item[i].linked
  <2>1. Unqueues(w, i)
    BY <1>2, <1>4 DEF Unqueues
  <2> QED BY <2>1 DEF IInv, Placed
<1>7. /\ Held(c[w], i) = 1 /\ Held(c'[w], i) = 1 /\ ~item[i].linked
      /\ Unqueues(w, i) /\ ~Unqueues(w, i)' /\ ~Requeues(w, i)'
      /\ ~Fresh(w, i)' /\ (Incring(w, i)' => Incring(w, i))
  BY <1>2, <1>4, <1>6 DEF Held, Hold, Unqueues, Requeues, Fresh, Incring, Commands, Locked
<1>8. item[i].refcount >= 1
  BY <1>5, <1>7 DEF Hold
<1>9. PICK h : h = Less(item[i], 1)
  OBVIOUS
<1>10. /\ item' \in [Chunks -> Headers] /\ item'[i] = Settled(h)
       /\ \A j \in Chunks \ {i} : item'[j] = item[j]
  BY <1>1, <1>3, <1>4, <1>8, <1>9, RemoveOnce
<1>11. /\ h \in Headers /\ h.refcount = item[i].refcount - 1
       /\ h.key = k /\ h.lru = item[i].lru /\ h.linked = item[i].linked
       /\ h.val = item[i].val /\ h.cas = item[i].cas /\ h.ver = item[i].ver
  BY <1>5, <1>8, <1>9, LessTyped
<1>12. /\ QueueStep(w) /\ CrawlersStay
       /\ \A r \in Queues : i \notin At(r)'
       /\ \A j \in Chunks \ {i} : \A r \in Queues : j \in At(r)' <=> j \in At(r)
  <2>1. i \in At(item[i].lru)
    BY <1>5, <1>7
  <2>2. /\ item[i].lru \in Queues /\ lru_lock[item[i].lru] \in {None, w}
        /\ queue' = do_item_unlink_q(queue, item[i].lru, i)
    BY <1>3, <1>4, <1>5
  <2> QED BY <2>1, <2>2, OutOfQueue
<1>13. Touched(w, k, i, h)
  <2>1. WorkerGain(w, i, h) = 0
    BY <1>5, <1>7, <1>11 DEF WorkerGain, Hold
  <2>2. \A q \in Queues : i \in At(q)' <=>
          q = h.lru /\ (Unqueues(w, i)' \/ (h.linked /\ ~Requeues(w, i)'))
    BY <1>5, <1>7, <1>11, <1>12
  <2>3. /\ item[i].key = k /\ item_lock[k] \in {None, w}
        /\ item[i].linked \/ i \in {c[w].it, c[w].old, c[w].new}
        /\ item[i].val = Empty => h.val = Empty
    BY <1>3, <1>4, <1>5, <1>11
  <2>4. /\ h \in Headers /\ h.key = k /\ h.lru \in Queues
        /\ h.linked => hash'[k] = i /\ h.cas > 0
        /\ h.cas <= cas_id' /\ h.ver <= cas_id'
    BY <1>3, <1>5, <1>7, <1>11
  <2> QED BY <1>2, <1>3, <1>4, <1>5, <1>7, <1>10, <1>11, <2>1, <2>2, <2>3, <2>4, WorkerTouched
<1>14. \A j \in Chunks \ {i} : Untouched(w, j)
  <2> SUFFICES ASSUME NEW j \in Chunks \ {i} PROVE Untouched(w, j)
    OBVIOUS
  <2>1. /\ Unqueues(w, j)' <=> Unqueues(w, j)
        /\ Requeues(w, j)' <=> Requeues(w, j)
        /\ Fresh(w, j)' => Fresh(w, j)
        /\ Incring(w, j)' => Incring(w, j)
    BY <1>2, <1>4 DEF Unqueues, Requeues, Fresh, Incring
  <2> QED BY <1>2, <1>3, <1>10, <1>12, <2>1, WorkerUntouched
<1>15. KeyOK(w)' /\ CasGiven(w) /\ LockStep(w, k) /\ HashStep(w, k)
  <2>1. ConnectionOK(c'[w])
    BY <1>1, <1>2, ItemsAssumption DEF WorkerOK, ConnectionOK, Locked, Pcs
  <2>2. Pending(w)' => Pending(w)
    BY <1>2 DEF Pending
  <2> QED BY <1>2, <1>3, <1>4, <2>1, <2>2 DEF KeyOK, CasGiven, LockStep, HashStep
<1>16. \A j \in Chunks : j \in {c'[w].it, c'[w].old, c'[w].new} =>
         c'[w].key = k /\ (item[j].key = k \/ item[j].refcount = 0)
  BY <1>1, <1>2, <1>4 DEF WorkerOK
<1>17. hash'[k] = hash[k] /\ hash[k] # i
  BY <1>3, <1>4, ItemsAssumption
<1>18. item' = [j \in Chunks |-> item'[j]]
  BY <1>10
<1> QED BY <1>2, <1>3, <1>4, <1>12, <1>13, <1>14, <1>15, <1>16, <1>17, <1>18, WorkerOne

LEMMA ReapInv == 
  ASSUME IInv, NEW w \in Workers, Reap(w)
  PROVE  IInv'
<1>1. IsTable(c) /\ IsConnection(c[w]) /\ WorkerOK(w) /\ item \in [Chunks -> Headers]
  BY DEF IInv, TypesOK
<1>2. /\ IsTable(c)' /\ IsConnection(c'[w]) /\ OtherWorkers(w) /\ pull[w] = None
      /\ c[w].pc = "reap" /\ c'[w].cmd = c[w].cmd /\ c'[w].key = c[w].key
      /\ c'[w].pc = IF c[w].it # None \/ c[w].cmd = "incr" THEN "found" ELSE "done"
      /\ c'[w].it = c[w].it /\ c'[w].old = None /\ c'[w].new = c[w].new /\ c'[w].todo = c[w].todo
      /\ c'[w].unique = c[w].unique
  BY <1>1 DEF Reap, Running, OtherWorkers, IsTable, IsConnection, Fields
<1>3. /\ UNCHANGED <<settings, hash, cas_id, lru_lock, pull, crawlers>>
      /\ item' = do_item_remove(do_item_remove(item, c[w].old), c[w].old)
      /\ IF c[w].it # None \/ c[w].cmd = "incr" THEN UNCHANGED item_lock ELSE Unlock(c[w].key)
      /\ lru_lock[item[c[w].old].lru] = None
      /\ queue' = do_item_unlink_q(queue, item[c[w].old].lru, c[w].old)
  BY DEF Reap
<1>4. PICK i \in Chunks, k \in Keys : /\ i = c[w].old /\ k = c[w].key /\ i # None /\ item_lock[k] = w
                                      /\ c[w].it # i /\ c[w].new = None /\ hash[k] = None
  BY <1>1, <1>2, ItemsAssumption DEF WorkerOK, ConnectionOK, Commands, Locked
<1>5. /\ item[i].key = k /\ item[i] \in Headers /\ item[i].refcount \in Nat
      /\ item[i].lru \in Queues
      /\ item[i].refcount >= Held(c[w], i) + Hold(Unqueues(w, i) \/ item[i].linked)
      /\ \A q \in Queues : i \in At(q) <=>
           q = item[i].lru /\ (Unqueues(w, i) \/ (item[i].linked /\ ~Requeues(w, i)))
      /\ item[i].linked => hash[k] = i /\ item[i].cas > 0
      /\ item[i].cas <= cas_id /\ item[i].ver <= cas_id
  BY <1>2, <1>3, <1>4, WorkerItem
<1>6. Unqueues(w, i) /\ ~item[i].linked
  <2>1. Unqueues(w, i)
    BY <1>2, <1>4 DEF Unqueues
  <2> QED BY <2>1 DEF IInv, Placed
<1>7. /\ Held(c[w], i) = 1 /\ Held(c'[w], i) = 0 /\ ~item[i].linked
      /\ Unqueues(w, i) /\ ~Unqueues(w, i)' /\ ~Requeues(w, i)'
      /\ ~Fresh(w, i)' /\ ~Incring(w, i)'
  BY <1>2, <1>4, <1>6, ItemsAssumption DEF Held, Hold, Unqueues, Requeues, Fresh, Incring, Commands, Locked
<1>8. item[i].refcount >= 2
  BY <1>5, <1>7 DEF Hold
<1>9. PICK h : h = Less(item[i], 2)
  OBVIOUS
<1>10. /\ item' \in [Chunks -> Headers] /\ item'[i] = Settled(h)
       /\ \A j \in Chunks \ {i} : item'[j] = item[j]
  BY <1>1, <1>3, <1>4, <1>8, <1>9, RemoveTwice
<1>11. /\ h \in Headers /\ h.refcount = item[i].refcount - 2
       /\ h.key = k /\ h.lru = item[i].lru /\ h.linked = item[i].linked
       /\ h.val = item[i].val /\ h.cas = item[i].cas /\ h.ver = item[i].ver
  BY <1>5, <1>8, <1>9, LessTyped
<1>12. /\ QueueStep(w) /\ CrawlersStay
       /\ \A r \in Queues : i \notin At(r)'
       /\ \A j \in Chunks \ {i} : \A r \in Queues : j \in At(r)' <=> j \in At(r)
  <2>1. i \in At(item[i].lru)
    BY <1>5, <1>7
  <2>2. /\ item[i].lru \in Queues /\ lru_lock[item[i].lru] \in {None, w}
        /\ queue' = do_item_unlink_q(queue, item[i].lru, i)
    BY <1>3, <1>4, <1>5
  <2> QED BY <2>1, <2>2, OutOfQueue
<1>13. Touched(w, k, i, h)
  <2>1. WorkerGain(w, i, h) = 0
    BY <1>5, <1>7, <1>11 DEF WorkerGain, Hold
  <2>2. \A q \in Queues : i \in At(q)' <=>
          q = h.lru /\ (Unqueues(w, i)' \/ (h.linked /\ ~Requeues(w, i)'))
    BY <1>5, <1>7, <1>11, <1>12
  <2>3. /\ item[i].key = k /\ item_lock[k] \in {None, w}
        /\ item[i].linked \/ i \in {c[w].it, c[w].old, c[w].new}
        /\ item[i].val = Empty => h.val = Empty
    BY <1>3, <1>4, <1>5, <1>11
  <2>4. /\ h \in Headers /\ h.key = k /\ h.lru \in Queues
        /\ h.linked => hash'[k] = i /\ h.cas > 0
        /\ h.cas <= cas_id' /\ h.ver <= cas_id'
    BY <1>3, <1>5, <1>7, <1>11
  <2> QED BY <1>2, <1>3, <1>4, <1>5, <1>7, <1>10, <1>11, <2>1, <2>2, <2>3, <2>4, WorkerTouched
<1>14. \A j \in Chunks \ {i} : Untouched(w, j)
  <2> SUFFICES ASSUME NEW j \in Chunks \ {i} PROVE Untouched(w, j)
    OBVIOUS
  <2>1. /\ Unqueues(w, j)' <=> Unqueues(w, j)
        /\ Requeues(w, j)' <=> Requeues(w, j)
        /\ Fresh(w, j)' => Fresh(w, j)
        /\ Incring(w, j)' => Incring(w, j)
        /\ c'[w].old = j <=> c[w].old = j
    BY <1>2, <1>4, ItemsAssumption DEF Unqueues, Requeues, Fresh, Incring
  <2> QED BY <1>2, <1>3, <1>10, <1>12, <2>1, WorkerUntouched
<1>15. KeyOK(w)' /\ CasGiven(w) /\ LockStep(w, k) /\ HashStep(w, k)
  <2>1. ConnectionOK(c'[w])
    BY <1>1, <1>2, <1>4, ItemsAssumption DEF WorkerOK, ConnectionOK, Locked, Pcs
  <2>2. Pending(w)' => Pending(w)
    BY <1>2 DEF Pending
  <2>3. Commands(w)' => item_lock'[k] = w
    BY <1>2, <1>3, <1>4 DEF Commands, Locked
  <2> QED BY <1>2, <1>3, <1>4, <2>1, <2>2, <2>3 DEF KeyOK, CasGiven, LockStep, HashStep
<1>16. \A j \in Chunks : j \in {c'[w].it, c'[w].old, c'[w].new} =>
         c'[w].key = k /\ (item[j].key = k \/ item[j].refcount = 0)
  BY <1>1, <1>2, <1>4, ItemsAssumption DEF WorkerOK
<1>17. hash'[k] = hash[k] /\ hash[k] # i
  BY <1>3, <1>4, ItemsAssumption
<1>18. item' = [j \in Chunks |-> item'[j]]
  BY <1>10
<1> QED BY <1>2, <1>3, <1>4, <1>12, <1>13, <1>14, <1>15, <1>16, <1>17, <1>18, WorkerOne

LEMMA RelinkGot == 
  ASSUME IInv, NEW w \in Workers, Relink(w), Running(w, "got")
  PROVE  IInv'
<1>1. IsTable(c) /\ IsConnection(c[w]) /\ WorkerOK(w) /\ item \in [Chunks -> Headers]
  BY DEF IInv, TypesOK
<1>2. /\ IsTable(c)' /\ IsConnection(c'[w]) /\ OtherWorkers(w) /\ pull[w] = None
      /\ c[w].pc = "got" /\ c'[w].pc = "relink_got" /\ c'[w].told = c[w].told
      /\ c'[w].cmd = c[w].cmd /\ c'[w].key = c[w].key /\ c'[w].unique = c[w].unique
      /\ c'[w].it = c[w].it /\ c'[w].old = c[w].old /\ c'[w].new = c[w].new /\ c'[w].todo = c[w].todo
  BY <1>1 DEF Relink, Running, OtherWorkers, IsTable, IsConnection, Fields
<1>3. /\ UNCHANGED <<settings, item, hash, cas_id, lru_lock, pull, crawlers>>
      /\ Lock(w, c[w].key)
      /\ item[c[w].it].linked /\ lru_lock[item[c[w].it].lru] = None
      /\ queue' = do_item_unlink_q(queue, item[c[w].it].lru, c[w].it)
  BY DEF Relink, Running, Promoted
<1>4. PICK i \in Chunks, k \in Keys :
             /\ i = c[w].it /\ k = c[w].key /\ i # None /\ item_lock[k] = None /\ c[w].old = None /\ c[w].new = None
  BY <1>1, <1>2, <1>3, ItemsAssumption DEF WorkerOK, ConnectionOK, Commands, Locked, Lock
<1>5. /\ item[i].key = k /\ item[i] \in Headers /\ item[i].refcount \in Nat
      /\ item[i].lru \in Queues
      /\ item[i].refcount >= Held(c[w], i) + Hold(Unqueues(w, i) \/ item[i].linked)
      /\ \A q \in Queues : i \in At(q) <=>
           q = item[i].lru /\ (Unqueues(w, i) \/ (item[i].linked /\ ~Requeues(w, i)))
      /\ item[i].linked => hash[k] = i /\ item[i].cas > 0
      /\ item[i].cas <= cas_id /\ item[i].ver <= cas_id
  BY <1>2, <1>3, <1>4, WorkerItem
<1>6. /\ Held(c[w], i) = 1 /\ Held(c'[w], i) = 1 /\ item[i].linked
      /\ ~Unqueues(w, i) /\ ~Unqueues(w, i)' /\ ~Requeues(w, i) /\ Requeues(w, i)'
      /\ ~Fresh(w, i)' /\ (Incring(w, i)' => Incring(w, i))
  <2>1. Held(c[w], i) = 1 /\ Held(c'[w], i) = 1
    BY <1>2, <1>4 DEF Held, Hold
  <2>2. item[i].linked
    BY <1>3, <1>4
  <2>3. ~Unqueues(w, i) /\ ~Unqueues(w, i)' /\ ~Requeues(w, i) /\ Requeues(w, i)'
    BY <1>2, <1>4 DEF Unqueues, Requeues
  <2>4. ~Fresh(w, i)' /\ (Incring(w, i)' => Incring(w, i))
    BY <1>2, <1>4 DEF Fresh, Incring, Commands, Locked
  <2> QED BY <2>1, <2>3, <2>4, <2>2
<1>7. item[i].refcount >= 1
  BY <1>5, <1>6 DEF Hold
<1>8. PICK h : h = item[i]
  OBVIOUS
<1>9. item'[i] = Settled(h) /\ \A j \in Chunks : item'[j] = item[j]
  <2>1. item' = item /\ h.refcount # 0
    BY <1>3, <1>5, <1>7, <1>8
  <2> QED BY <1>8, <2>1 DEF Settled
<1>10. /\ h \in Headers /\ h.refcount = item[i].refcount
       /\ h.key = k /\ h.lru = item[i].lru /\ h.linked = item[i].linked
       /\ h.val = item[i].val /\ h.cas = item[i].cas /\ h.ver = item[i].ver
  BY <1>5, <1>8
<1>11. /\ QueueStep(w) /\ CrawlersStay
       /\ \A r \in Queues : i \notin At(r)'
       /\ \A j \in Chunks \ {i} : \A r \in Queues : j \in At(r)' <=> j \in At(r)
  <2>1. i \in At(item[i].lru)
    BY <1>5, <1>6
  <2>2. /\ item[i].lru \in Queues /\ lru_lock[item[i].lru] \in {None, w}
        /\ queue' = do_item_unlink_q(queue, item[i].lru, i)
    BY <1>3, <1>4, <1>5
  <2> QED BY <2>1, <2>2, OutOfQueue
<1>12. Touched(w, k, i, h)
  <2>1. WorkerGain(w, i, h) = 0
    <3>1. Hold(Unqueues(w, i)' \/ h.linked) = Hold(Unqueues(w, i) \/ item[i].linked)
          /\ Hold(Unqueues(w, i) \/ item[i].linked) \in Nat
      BY <1>6, <1>10 DEF Hold
    <3> QED BY <1>5, <1>6, <1>7, <1>10, <3>1 DEF WorkerGain
  <2>2. \A q \in Queues : i \in At(q)' <=>
          q = h.lru /\ (Unqueues(w, i)' \/ (h.linked /\ ~Requeues(w, i)'))
    BY <1>5, <1>6, <1>10, <1>11
  <2>3. /\ item[i].key = k /\ item_lock[k] \in {None, w}
        /\ item[i].linked \/ i \in {c[w].it, c[w].old, c[w].new}
        /\ item[i].val = Empty => h.val = Empty
    BY <1>3, <1>4, <1>5, <1>10
  <2>4. /\ h \in Headers /\ h.key = k /\ h.lru \in Queues
        /\ h.linked => hash'[k] = i /\ h.cas > 0
        /\ h.cas <= cas_id' /\ h.ver <= cas_id'
    BY <1>3, <1>5, <1>6, <1>10
  <2> QED BY <1>2, <1>3, <1>4, <1>5, <1>6, <1>9, <1>10, <2>1, <2>2, <2>3, <2>4, WorkerTouched
<1>13. \A j \in Chunks \ {i} : Untouched(w, j)
  <2> SUFFICES ASSUME NEW j \in Chunks \ {i} PROVE Untouched(w, j)
    OBVIOUS
  <2>1. /\ Unqueues(w, j)' <=> Unqueues(w, j)
        /\ Requeues(w, j)' <=> Requeues(w, j)
        /\ Fresh(w, j)' => Fresh(w, j)
        /\ Incring(w, j)' => Incring(w, j)
    BY <1>1, <1>2, <1>4, ItemsAssumption DEF Unqueues, Requeues, Fresh, Incring, Commands, Locked, WorkerOK, ConnectionOK
  <2> QED BY <1>2, <1>3, <1>9, <1>11, <2>1, WorkerUntouched
<1>14. KeyOK(w)' /\ CasGiven(w) /\ LockStep(w, k) /\ HashStep(w, k)
  <2>1. ConnectionOK(c'[w])
    BY <1>1, <1>2, <1>4, ItemsAssumption DEF WorkerOK, ConnectionOK, Locked, Pcs
  <2>2. Pending(w)' => Pending(w)
    BY <1>2, <1>4 DEF Pending
  <2>3. Commands(w)' => item_lock'[k] = w
    BY <1>1, <1>2, <1>3, <1>4 DEF Commands, Locked, Lock, WorkerOK, TypesOK, IInv
  <2> QED BY <1>2, <1>3, <1>4, <2>1, <2>2, <2>3 DEF KeyOK, CasGiven, LockStep, HashStep
<1>15. \A j \in Chunks : j \in {c'[w].it, c'[w].old, c'[w].new} =>
         c'[w].key = k /\ (item[j].key = k \/ item[j].refcount = 0)
  BY <1>1, <1>2, <1>4 DEF WorkerOK
<1>16. hash'[k] = hash[k] /\ (hash[k] = i => h.linked)
  <2>1. hash[k] = i => item[i].linked
    BY <1>4, ItemsAssumption DEF IInv, TableOK
  <2> QED BY <1>3, <1>10, <2>1
<1>17. item' = [j \in Chunks |-> item'[j]]
  BY <1>1, <1>3
<1> QED BY <1>2, <1>3, <1>4, <1>11, <1>12, <1>13, <1>14, <1>15, <1>16, <1>17, WorkerOne

LEMMA RelinkRefresh == 
  ASSUME IInv, NEW w \in Workers, Relink(w), Running(w, "refresh")
  PROVE  IInv'
<1>1. IsTable(c) /\ IsConnection(c[w]) /\ WorkerOK(w) /\ item \in [Chunks -> Headers]
  BY DEF IInv, TypesOK
<1>2. /\ IsTable(c)' /\ IsConnection(c'[w]) /\ OtherWorkers(w) /\ pull[w] = None
      /\ c[w].pc = "refresh" /\ c'[w].pc = "relink_refresh" /\ c'[w].told = c[w].told
      /\ c'[w].cmd = c[w].cmd /\ c'[w].key = c[w].key /\ c'[w].unique = c[w].unique
      /\ c'[w].it = c[w].it /\ c'[w].old = c[w].old /\ c'[w].new = c[w].new /\ c'[w].todo = c[w].todo
  BY <1>1 DEF Relink, Running, OtherWorkers, IsTable, IsConnection, Fields
<1>3. /\ UNCHANGED <<settings, item, hash, cas_id, lru_lock, pull, crawlers>>
      /\ UNCHANGED item_lock
      /\ item[c[w].old].linked /\ lru_lock[item[c[w].old].lru] = None
      /\ queue' = do_item_unlink_q(queue, item[c[w].old].lru, c[w].old)
  BY DEF Relink, Running, Promoted
<1>4. PICK i \in Chunks, k \in Keys :
             /\ i = c[w].old /\ k = c[w].key /\ i # None /\ item_lock[k] = w /\ c[w].it # i /\ c[w].new # i
  BY <1>1, <1>2, <1>3, ItemsAssumption DEF WorkerOK, ConnectionOK, Commands, Locked, Lock
<1>5. /\ item[i].key = k /\ item[i] \in Headers /\ item[i].refcount \in Nat
      /\ item[i].lru \in Queues
      /\ item[i].refcount >= Held(c[w], i) + Hold(Unqueues(w, i) \/ item[i].linked)
      /\ \A q \in Queues : i \in At(q) <=>
           q = item[i].lru /\ (Unqueues(w, i) \/ (item[i].linked /\ ~Requeues(w, i)))
      /\ item[i].linked => hash[k] = i /\ item[i].cas > 0
      /\ item[i].cas <= cas_id /\ item[i].ver <= cas_id
  BY <1>2, <1>3, <1>4, WorkerItem
<1>6. /\ Held(c[w], i) = 1 /\ Held(c'[w], i) = 1 /\ item[i].linked
      /\ ~Unqueues(w, i) /\ ~Unqueues(w, i)' /\ ~Requeues(w, i) /\ Requeues(w, i)'
      /\ ~Fresh(w, i)' /\ (Incring(w, i)' => Incring(w, i))
  <2>1. Held(c[w], i) = 1 /\ Held(c'[w], i) = 1
    BY <1>2, <1>4 DEF Held, Hold
  <2>2. item[i].linked
    BY <1>3, <1>4
  <2>3. ~Unqueues(w, i) /\ ~Unqueues(w, i)' /\ ~Requeues(w, i) /\ Requeues(w, i)'
    BY <1>2, <1>4 DEF Unqueues, Requeues
  <2>4. ~Fresh(w, i)' /\ (Incring(w, i)' => Incring(w, i))
    BY <1>2, <1>4 DEF Fresh, Incring, Commands, Locked
  <2> QED BY <2>1, <2>3, <2>4, <2>2
<1>7. item[i].refcount >= 1
  BY <1>5, <1>6 DEF Hold
<1>8. PICK h : h = item[i]
  OBVIOUS
<1>9. item'[i] = Settled(h) /\ \A j \in Chunks : item'[j] = item[j]
  <2>1. item' = item /\ h.refcount # 0
    BY <1>3, <1>5, <1>7, <1>8
  <2> QED BY <1>8, <2>1 DEF Settled
<1>10. /\ h \in Headers /\ h.refcount = item[i].refcount
       /\ h.key = k /\ h.lru = item[i].lru /\ h.linked = item[i].linked
       /\ h.val = item[i].val /\ h.cas = item[i].cas /\ h.ver = item[i].ver
  BY <1>5, <1>8
<1>11. /\ QueueStep(w) /\ CrawlersStay
       /\ \A r \in Queues : i \notin At(r)'
       /\ \A j \in Chunks \ {i} : \A r \in Queues : j \in At(r)' <=> j \in At(r)
  <2>1. i \in At(item[i].lru)
    BY <1>5, <1>6
  <2>2. /\ item[i].lru \in Queues /\ lru_lock[item[i].lru] \in {None, w}
        /\ queue' = do_item_unlink_q(queue, item[i].lru, i)
    BY <1>3, <1>4, <1>5
  <2> QED BY <2>1, <2>2, OutOfQueue
<1>12. Touched(w, k, i, h)
  <2>1. WorkerGain(w, i, h) = 0
    <3>1. Hold(Unqueues(w, i)' \/ h.linked) = Hold(Unqueues(w, i) \/ item[i].linked)
          /\ Hold(Unqueues(w, i) \/ item[i].linked) \in Nat
      BY <1>6, <1>10 DEF Hold
    <3> QED BY <1>5, <1>6, <1>7, <1>10, <3>1 DEF WorkerGain
  <2>2. \A q \in Queues : i \in At(q)' <=>
          q = h.lru /\ (Unqueues(w, i)' \/ (h.linked /\ ~Requeues(w, i)'))
    BY <1>5, <1>6, <1>10, <1>11
  <2>3. /\ item[i].key = k /\ item_lock[k] \in {None, w}
        /\ item[i].linked \/ i \in {c[w].it, c[w].old, c[w].new}
        /\ item[i].val = Empty => h.val = Empty
    BY <1>3, <1>4, <1>5, <1>10
  <2>4. /\ h \in Headers /\ h.key = k /\ h.lru \in Queues
        /\ h.linked => hash'[k] = i /\ h.cas > 0
        /\ h.cas <= cas_id' /\ h.ver <= cas_id'
    BY <1>3, <1>5, <1>6, <1>10
  <2> QED BY <1>2, <1>3, <1>4, <1>5, <1>6, <1>9, <1>10, <2>1, <2>2, <2>3, <2>4, WorkerTouched
<1>13. \A j \in Chunks \ {i} : Untouched(w, j)
  <2> SUFFICES ASSUME NEW j \in Chunks \ {i} PROVE Untouched(w, j)
    OBVIOUS
  <2>1. /\ Unqueues(w, j)' <=> Unqueues(w, j)
        /\ Requeues(w, j)' <=> Requeues(w, j)
        /\ Fresh(w, j)' => Fresh(w, j)
        /\ Incring(w, j)' => Incring(w, j)
    BY <1>1, <1>2, <1>4, ItemsAssumption DEF Unqueues, Requeues, Fresh, Incring, Commands, Locked, WorkerOK, ConnectionOK
  <2> QED BY <1>2, <1>3, <1>9, <1>11, <2>1, WorkerUntouched
<1>14. KeyOK(w)' /\ CasGiven(w) /\ LockStep(w, k) /\ HashStep(w, k)
  <2>1. ConnectionOK(c'[w])
    BY <1>1, <1>2, <1>4, ItemsAssumption DEF WorkerOK, ConnectionOK, Locked, Pcs
  <2>2. Pending(w)' => Pending(w)
    BY <1>2, <1>4 DEF Pending
  <2>3. Commands(w)' => item_lock'[k] = w
    BY <1>1, <1>2, <1>3, <1>4 DEF Commands, Locked, Lock, WorkerOK, TypesOK, IInv
  <2> QED BY <1>2, <1>3, <1>4, <2>1, <2>2, <2>3 DEF KeyOK, CasGiven, LockStep, HashStep
<1>15. \A j \in Chunks : j \in {c'[w].it, c'[w].old, c'[w].new} =>
         c'[w].key = k /\ (item[j].key = k \/ item[j].refcount = 0)
  BY <1>1, <1>2, <1>4 DEF WorkerOK
<1>16. hash'[k] = hash[k] /\ (hash[k] = i => h.linked)
  <2>1. hash[k] = i => item[i].linked
    BY <1>4, ItemsAssumption DEF IInv, TableOK
  <2> QED BY <1>3, <1>10, <2>1
<1>17. item' = [j \in Chunks |-> item'[j]]
  BY <1>1, <1>3
<1> QED BY <1>2, <1>3, <1>4, <1>11, <1>12, <1>13, <1>14, <1>15, <1>16, <1>17, WorkerOne

LEMMA RelinkDoneGot == 
  ASSUME IInv, NEW w \in Workers, RelinkDone(w), Running(w, "relink_got")
  PROVE  IInv'
<1>1. IsTable(c) /\ IsConnection(c[w]) /\ WorkerOK(w) /\ item \in [Chunks -> Headers]
  BY DEF IInv, TypesOK
<1>2. /\ IsTable(c)' /\ IsConnection(c'[w]) /\ OtherWorkers(w) /\ pull[w] = None
      /\ c[w].pc = "relink_got" /\ c'[w].pc = "format" /\ c'[w].told = c[w].told
      /\ c'[w].cmd = c[w].cmd /\ c'[w].key = c[w].key /\ c'[w].unique = c[w].unique
      /\ c'[w].it = c[w].it /\ c'[w].old = c[w].old /\ c'[w].new = c[w].new /\ c'[w].todo = c[w].todo
  BY <1>1 DEF RelinkDone, Running, OtherWorkers, IsTable, IsConnection, Fields
<1>3. /\ UNCHANGED <<settings, item, hash, cas_id, lru_lock, pull, crawlers>>
      /\ Unlock(c[w].key) /\ lru_lock[item[c[w].it].lru] = None
      /\ queue' = do_item_link_q(queue, item[c[w].it].lru, c[w].it)
  BY DEF RelinkDone, Running
<1>4. PICK i \in Chunks, k \in Keys :
             /\ i = c[w].it /\ k = c[w].key /\ i # None /\ item_lock[k] = w
             /\ c[w].old = None /\ c[w].new = None
  BY <1>1, <1>2, ItemsAssumption DEF WorkerOK, ConnectionOK, Commands, Locked
<1>5. /\ item[i].key = k /\ item[i] \in Headers /\ item[i].refcount \in Nat
      /\ item[i].lru \in Queues
      /\ item[i].refcount >= Held(c[w], i) + Hold(Unqueues(w, i) \/ item[i].linked)
      /\ \A q \in Queues : i \in At(q) <=>
           q = item[i].lru /\ (Unqueues(w, i) \/ (item[i].linked /\ ~Requeues(w, i)))
      /\ item[i].linked => hash[k] = i /\ item[i].cas > 0
      /\ item[i].cas <= cas_id /\ item[i].ver <= cas_id
  BY <1>2, <1>3, <1>4, WorkerItem
<1>6. Requeues(w, i) /\ item[i].linked
  <2>1. Requeues(w, i)
    BY <1>2, <1>4 DEF Requeues
  <2> QED BY <2>1 DEF IInv, Placed
<1>7. /\ Held(c[w], i) = 1 /\ Held(c'[w], i) = 1 /\ item[i].linked
      /\ ~Unqueues(w, i) /\ ~Unqueues(w, i)' /\ Requeues(w, i) /\ ~Requeues(w, i)'
      /\ ~Fresh(w, i)' /\ (Incring(w, i)' => Incring(w, i))
  <2>1. Held(c[w], i) = 1 /\ Held(c'[w], i) = 1
    BY <1>2, <1>4 DEF Held, Hold
  <2>2. item[i].linked
    BY <1>6
  <2>3. ~Unqueues(w, i) /\ ~Unqueues(w, i)' /\ Requeues(w, i) /\ ~Requeues(w, i)'
    BY <1>2, <1>4, <1>6 DEF Unqueues, Requeues
  <2>4. ~Fresh(w, i)' /\ (Incring(w, i)' => Incring(w, i))
    BY <1>2, <1>4 DEF Fresh, Incring, Commands, Locked
  <2> QED BY <2>1, <2>3, <2>4, <2>2
<1>8. item[i].refcount >= 1
  BY <1>5, <1>7 DEF Hold
<1>9. PICK h : h = item[i]
  OBVIOUS
<1>10. item'[i] = Settled(h) /\ \A j \in Chunks : item'[j] = item[j]
  <2>1. item' = item /\ h.refcount # 0
    BY <1>3, <1>5, <1>8, <1>9
  <2> QED BY <1>9, <2>1 DEF Settled
<1>11. /\ h \in Headers /\ h.refcount = item[i].refcount
       /\ h.key = k /\ h.lru = item[i].lru /\ h.linked = item[i].linked
       /\ h.val = item[i].val /\ h.cas = item[i].cas /\ h.ver = item[i].ver
  BY <1>5, <1>9
<1>12. /\ QueueStep(w) /\ CrawlersStay
       /\ \A r \in Queues : i \in At(r)' <=> r = item[i].lru
       /\ \A j \in Chunks \ {i} : \A r \in Queues : j \in At(r)' <=> j \in At(r)
  <2>1. \A r \in Queues : i \notin At(r)
    BY <1>5, <1>7
  <2>2. PICK q \in Queues : /\ q = item[i].lru /\ lru_lock[q] \in {None, w}
                            /\ queue' = do_item_link_q(queue, q, i)
    BY <1>3, <1>4, <1>5
  <2> QED BY <2>1, <2>2, IntoQueue
<1>13. Touched(w, k, i, h)
  <2>1. WorkerGain(w, i, h) = 0
    <3>1. Hold(Unqueues(w, i)' \/ h.linked) = Hold(Unqueues(w, i) \/ item[i].linked)
          /\ Hold(Unqueues(w, i) \/ item[i].linked) \in Nat
      BY <1>7, <1>11 DEF Hold
    <3> QED BY <1>5, <1>7, <1>8, <1>11, <3>1 DEF WorkerGain
  <2>2. \A q \in Queues : i \in At(q)' <=>
          q = h.lru /\ (Unqueues(w, i)' \/ (h.linked /\ ~Requeues(w, i)'))
    BY <1>5, <1>7, <1>11, <1>12
  <2>3. /\ item[i].key = k /\ item_lock[k] \in {None, w}
        /\ item[i].linked \/ i \in {c[w].it, c[w].old, c[w].new}
        /\ item[i].val = Empty => h.val = Empty
    BY <1>3, <1>4, <1>5, <1>11
  <2>4. /\ h \in Headers /\ h.key = k /\ h.lru \in Queues
        /\ h.linked => hash'[k] = i /\ h.cas > 0
        /\ h.cas <= cas_id' /\ h.ver <= cas_id'
    BY <1>3, <1>5, <1>7, <1>11
  <2> QED BY <1>2, <1>3, <1>4, <1>5, <1>7, <1>10, <1>11, <2>1, <2>2, <2>3, <2>4, WorkerTouched
<1>14. \A j \in Chunks \ {i} : Untouched(w, j)
  <2> SUFFICES ASSUME NEW j \in Chunks \ {i} PROVE Untouched(w, j)
    OBVIOUS
  <2>1. /\ Unqueues(w, j)' <=> Unqueues(w, j)
        /\ Requeues(w, j)' <=> Requeues(w, j)
        /\ Fresh(w, j)' => Fresh(w, j)
        /\ Incring(w, j)' => Incring(w, j)
    BY <1>1, <1>2, <1>4, ItemsAssumption DEF Unqueues, Requeues, Fresh, Incring, Commands, Locked, WorkerOK, ConnectionOK
  <2> QED BY <1>2, <1>3, <1>10, <1>12, <2>1, WorkerUntouched
<1>15. KeyOK(w)' /\ CasGiven(w) /\ LockStep(w, k) /\ HashStep(w, k)
  <2>1. ConnectionOK(c'[w])
    BY <1>1, <1>2, <1>4, ItemsAssumption DEF WorkerOK, ConnectionOK, Locked, Pcs
  <2>2. Pending(w)' => Pending(w)
    BY <1>2, <1>4 DEF Pending
  <2>3. Commands(w)' => item_lock'[k] = w
    BY <1>1, <1>2, <1>3, <1>4 DEF Commands, Locked, Lock, WorkerOK, TypesOK, IInv
  <2> QED BY <1>2, <1>3, <1>4, <2>1, <2>2, <2>3 DEF KeyOK, CasGiven, LockStep, HashStep
<1>16. \A j \in Chunks : j \in {c'[w].it, c'[w].old, c'[w].new} =>
         c'[w].key = k /\ (item[j].key = k \/ item[j].refcount = 0)
  BY <1>1, <1>2, <1>4 DEF WorkerOK
<1>17. hash'[k] = hash[k] /\ (hash[k] = i => h.linked)
  <2>1. hash[k] = i => item[i].linked
    BY <1>4, ItemsAssumption DEF IInv, TableOK
  <2> QED BY <1>3, <1>11, <2>1
<1>18. item' = [j \in Chunks |-> item'[j]]
  BY <1>1, <1>3
<1> QED BY <1>2, <1>3, <1>4, <1>12, <1>13, <1>14, <1>15, <1>16, <1>17, <1>18, WorkerOne

LEMMA RelinkDoneRefresh == 
  ASSUME IInv, NEW w \in Workers, RelinkDone(w), Running(w, "relink_refresh")
  PROVE  IInv'
<1>1. IsTable(c) /\ IsConnection(c[w]) /\ WorkerOK(w) /\ item \in [Chunks -> Headers]
  BY DEF IInv, TypesOK
<1>2. /\ IsTable(c)' /\ IsConnection(c'[w]) /\ OtherWorkers(w) /\ pull[w] = None
      /\ c[w].pc = "relink_refresh" /\ c'[w].pc = "release" /\ c'[w].told = c[w].told
      /\ c'[w].cmd = c[w].cmd /\ c'[w].key = c[w].key /\ c'[w].unique = c[w].unique
      /\ c'[w].it = c[w].it /\ c'[w].old = c[w].old /\ c'[w].new = c[w].new /\ c'[w].todo = c[w].todo
  BY <1>1 DEF RelinkDone, Running, OtherWorkers, IsTable, IsConnection, Fields
<1>3. /\ UNCHANGED <<settings, item, hash, cas_id, lru_lock, pull, crawlers>>
      /\ UNCHANGED item_lock /\ lru_lock[item[c[w].old].lru] = None
      /\ queue' = do_item_link_q(queue, item[c[w].old].lru, c[w].old)
  BY DEF RelinkDone, Running
<1>4. PICK i \in Chunks, k \in Keys :
             /\ i = c[w].old /\ k = c[w].key /\ i # None /\ item_lock[k] = w
             /\ c[w].it # i /\ c[w].new # i
  BY <1>1, <1>2, ItemsAssumption DEF WorkerOK, ConnectionOK, Commands, Locked
<1>5. /\ item[i].key = k /\ item[i] \in Headers /\ item[i].refcount \in Nat
      /\ item[i].lru \in Queues
      /\ item[i].refcount >= Held(c[w], i) + Hold(Unqueues(w, i) \/ item[i].linked)
      /\ \A q \in Queues : i \in At(q) <=>
           q = item[i].lru /\ (Unqueues(w, i) \/ (item[i].linked /\ ~Requeues(w, i)))
      /\ item[i].linked => hash[k] = i /\ item[i].cas > 0
      /\ item[i].cas <= cas_id /\ item[i].ver <= cas_id
  BY <1>2, <1>3, <1>4, WorkerItem
<1>6. Requeues(w, i) /\ item[i].linked
  <2>1. Requeues(w, i)
    BY <1>2, <1>4 DEF Requeues
  <2> QED BY <2>1 DEF IInv, Placed
<1>7. /\ Held(c[w], i) = 1 /\ Held(c'[w], i) = 1 /\ item[i].linked
      /\ ~Unqueues(w, i) /\ ~Unqueues(w, i)' /\ Requeues(w, i) /\ ~Requeues(w, i)'
      /\ ~Fresh(w, i)' /\ (Incring(w, i)' => Incring(w, i))
  <2>1. Held(c[w], i) = 1 /\ Held(c'[w], i) = 1
    BY <1>2, <1>4 DEF Held, Hold
  <2>2. item[i].linked
    BY <1>6
  <2>3. ~Unqueues(w, i) /\ ~Unqueues(w, i)' /\ Requeues(w, i) /\ ~Requeues(w, i)'
    BY <1>2, <1>4, <1>6 DEF Unqueues, Requeues
  <2>4. ~Fresh(w, i)' /\ (Incring(w, i)' => Incring(w, i))
    BY <1>2, <1>4 DEF Fresh, Incring, Commands, Locked
  <2> QED BY <2>1, <2>3, <2>4, <2>2
<1>8. item[i].refcount >= 1
  BY <1>5, <1>7 DEF Hold
<1>9. PICK h : h = item[i]
  OBVIOUS
<1>10. item'[i] = Settled(h) /\ \A j \in Chunks : item'[j] = item[j]
  <2>1. item' = item /\ h.refcount # 0
    BY <1>3, <1>5, <1>8, <1>9
  <2> QED BY <1>9, <2>1 DEF Settled
<1>11. /\ h \in Headers /\ h.refcount = item[i].refcount
       /\ h.key = k /\ h.lru = item[i].lru /\ h.linked = item[i].linked
       /\ h.val = item[i].val /\ h.cas = item[i].cas /\ h.ver = item[i].ver
  BY <1>5, <1>9
<1>12. /\ QueueStep(w) /\ CrawlersStay
       /\ \A r \in Queues : i \in At(r)' <=> r = item[i].lru
       /\ \A j \in Chunks \ {i} : \A r \in Queues : j \in At(r)' <=> j \in At(r)
  <2>1. \A r \in Queues : i \notin At(r)
    BY <1>5, <1>7
  <2>2. PICK q \in Queues : /\ q = item[i].lru /\ lru_lock[q] \in {None, w}
                            /\ queue' = do_item_link_q(queue, q, i)
    BY <1>3, <1>4, <1>5
  <2> QED BY <2>1, <2>2, IntoQueue
<1>13. Touched(w, k, i, h)
  <2>1. WorkerGain(w, i, h) = 0
    <3>1. Hold(Unqueues(w, i)' \/ h.linked) = Hold(Unqueues(w, i) \/ item[i].linked)
          /\ Hold(Unqueues(w, i) \/ item[i].linked) \in Nat
      BY <1>7, <1>11 DEF Hold
    <3> QED BY <1>5, <1>7, <1>8, <1>11, <3>1 DEF WorkerGain
  <2>2. \A q \in Queues : i \in At(q)' <=>
          q = h.lru /\ (Unqueues(w, i)' \/ (h.linked /\ ~Requeues(w, i)'))
    BY <1>5, <1>7, <1>11, <1>12
  <2>3. /\ item[i].key = k /\ item_lock[k] \in {None, w}
        /\ item[i].linked \/ i \in {c[w].it, c[w].old, c[w].new}
        /\ item[i].val = Empty => h.val = Empty
    BY <1>3, <1>4, <1>5, <1>11
  <2>4. /\ h \in Headers /\ h.key = k /\ h.lru \in Queues
        /\ h.linked => hash'[k] = i /\ h.cas > 0
        /\ h.cas <= cas_id' /\ h.ver <= cas_id'
    BY <1>3, <1>5, <1>7, <1>11
  <2> QED BY <1>2, <1>3, <1>4, <1>5, <1>7, <1>10, <1>11, <2>1, <2>2, <2>3, <2>4, WorkerTouched
<1>14. \A j \in Chunks \ {i} : Untouched(w, j)
  <2> SUFFICES ASSUME NEW j \in Chunks \ {i} PROVE Untouched(w, j)
    OBVIOUS
  <2>1. /\ Unqueues(w, j)' <=> Unqueues(w, j)
        /\ Requeues(w, j)' <=> Requeues(w, j)
        /\ Fresh(w, j)' => Fresh(w, j)
        /\ Incring(w, j)' => Incring(w, j)
    BY <1>1, <1>2, <1>4, ItemsAssumption DEF Unqueues, Requeues, Fresh, Incring, Commands, Locked, WorkerOK, ConnectionOK
  <2> QED BY <1>2, <1>3, <1>10, <1>12, <2>1, WorkerUntouched
<1>15. KeyOK(w)' /\ CasGiven(w) /\ LockStep(w, k) /\ HashStep(w, k)
  <2>1. ConnectionOK(c'[w])
    BY <1>1, <1>2, <1>4, ItemsAssumption DEF WorkerOK, ConnectionOK, Locked, Pcs
  <2>2. Pending(w)' => Pending(w)
    BY <1>2, <1>4 DEF Pending
  <2>3. Commands(w)' => item_lock'[k] = w
    BY <1>1, <1>2, <1>3, <1>4 DEF Commands, Locked, Lock, WorkerOK, TypesOK, IInv
  <2> QED BY <1>2, <1>3, <1>4, <2>1, <2>2, <2>3 DEF KeyOK, CasGiven, LockStep, HashStep
<1>16. \A j \in Chunks : j \in {c'[w].it, c'[w].old, c'[w].new} =>
         c'[w].key = k /\ (item[j].key = k \/ item[j].refcount = 0)
  BY <1>1, <1>2, <1>4 DEF WorkerOK
<1>17. hash'[k] = hash[k] /\ (hash[k] = i => h.linked)
  <2>1. hash[k] = i => item[i].linked
    BY <1>4, ItemsAssumption DEF IInv, TableOK
  <2> QED BY <1>3, <1>11, <2>1
<1>18. item' = [j \in Chunks |-> item'[j]]
  BY <1>1, <1>3
<1> QED BY <1>2, <1>3, <1>4, <1>12, <1>13, <1>14, <1>15, <1>16, <1>17, <1>18, WorkerOne

LEMMA ItemUnlinkLinked == 
  ASSUME IInv, NEW w \in Workers, item_unlink(w), item[c[w].it].linked
  PROVE  IInv'
<1>1. IsTable(c) /\ IsConnection(c[w]) /\ WorkerOK(w) /\ item \in [Chunks -> Headers]
  BY DEF IInv, TypesOK
<1>2. /\ IsTable(c)' /\ IsConnection(c'[w]) /\ OtherWorkers(w) /\ pull[w] = None
      /\ c[w].pc = "unlink" /\ c'[w].pc = "unlinking"
      /\ c'[w].cmd = c[w].cmd /\ c'[w].key = c[w].key /\ c'[w].unique = c[w].unique
      /\ c'[w].it = c[w].it /\ c'[w].old = c[w].old /\ c'[w].new = c[w].new /\ c'[w].todo = c[w].todo
  BY <1>1 DEF item_unlink, Running, OtherWorkers, IsTable, IsConnection, Fields
<1>3. /\ UNCHANGED <<settings, queue, cas_id, lru_lock, pull, crawlers>>
      /\ Lock(w, c[w].key) /\ item[c[w].it].linked
      /\ item' = [item EXCEPT ![c[w].it].linked = FALSE]
      /\ hash' = [hash EXCEPT ![c[w].key] = None]
  BY DEF item_unlink, Running
<1>4. PICK i \in Chunks, k \in Keys :
             /\ i = c[w].it /\ k = c[w].key /\ i # None /\ item_lock[k] = None
             /\ c[w].old = None /\ c[w].new = None
  BY <1>1, <1>2, <1>3, ItemsAssumption DEF WorkerOK, ConnectionOK, Commands, Locked, Lock
<1>5. /\ item[i].key = k /\ item[i] \in Headers /\ item[i].refcount \in Nat
      /\ item[i].lru \in Queues
      /\ item[i].refcount >= Held(c[w], i) + Hold(Unqueues(w, i) \/ item[i].linked)
      /\ \A q \in Queues : i \in At(q) <=>
           q = item[i].lru /\ (Unqueues(w, i) \/ (item[i].linked /\ ~Requeues(w, i)))
      /\ item[i].linked => hash[k] = i /\ item[i].cas > 0
      /\ item[i].cas <= cas_id /\ item[i].ver <= cas_id
  BY <1>2, <1>3, <1>4, WorkerItem
<1>6. /\ Held(c[w], i) = 1 /\ Held(c'[w], i) = 1 /\ item[i].linked
      /\ ~Unqueues(w, i) /\ Unqueues(w, i)' /\ ~Requeues(w, i) /\ ~Requeues(w, i)'
      /\ ~Fresh(w, i)' /\ (Incring(w, i)' => Incring(w, i))
  <2>1. Held(c[w], i) = 1 /\ Held(c'[w], i) = 1
    BY <1>2, <1>4 DEF Held, Hold
  <2>2. ~Unqueues(w, i) /\ Unqueues(w, i)' /\ ~Requeues(w, i) /\ ~Requeues(w, i)'
    BY <1>2, <1>4 DEF Unqueues, Requeues
  <2>3. ~Fresh(w, i)' /\ (Incring(w, i)' => Incring(w, i))
    BY <1>2, <1>4 DEF Fresh, Incring, Commands, Locked
  <2>4. item[i].linked
    BY <1>3, <1>4
  <2> QED BY <2>1, <2>2, <2>3, <2>4
<1>7. item[i].refcount >= 1
  BY <1>5, <1>6 DEF Hold
<1>8. PICK h : h = [item[i] EXCEPT !.linked = FALSE]
  OBVIOUS
<1>9. /\ item' \in [Chunks -> Headers] /\ item'[i] = Settled(h)
      /\ \A j \in Chunks \ {i} : item'[j] = item[j]
  <2>1. [item[i] EXCEPT !.linked = FALSE] \in Headers
    BY <1>5 DEF Headers
  <2>2. h.refcount # 0
    <3>1. h.refcount = item[i].refcount
      BY <1>5, <1>8 DEF Headers
    <3> QED BY <1>5, <1>7, <3>1
  <2>3. item' = [item EXCEPT ![i] = h]
    BY <1>3, <1>4, <1>8
  <2> QED BY <1>1, <1>8, <2>1, <2>3, <2>2 DEF Settled
<1>10. /\ h \in Headers /\ h.refcount = item[i].refcount
       /\ h.key = k /\ h.lru = item[i].lru /\ ~h.linked
       /\ h.val = item[i].val /\ h.cas = item[i].cas /\ h.ver = item[i].ver
  BY <1>5, <1>8 DEF Headers
<1>11. /\ QueueStep(w) /\ CrawlersStay
       /\ \A j, r : j \in At(r)' <=> j \in At(r)
  BY <1>3, SameQueues
<1>12. Touched(w, k, i, h)
  <2>1. WorkerGain(w, i, h) = 0
    <3>1. Hold(Unqueues(w, i)' \/ h.linked) = Hold(Unqueues(w, i) \/ item[i].linked)
          /\ Hold(Unqueues(w, i) \/ item[i].linked) \in Nat
      BY <1>6, <1>10 DEF Hold
    <3> QED BY <1>5, <1>6, <1>7, <1>10, <3>1 DEF WorkerGain
  <2>2. \A q \in Queues : i \in At(q)' <=>
          q = h.lru /\ (Unqueues(w, i)' \/ (h.linked /\ ~Requeues(w, i)'))
    BY <1>5, <1>6, <1>10, <1>11
  <2>3. /\ item[i].key = k /\ item_lock[k] \in {None, w}
        /\ item[i].linked \/ i \in {c[w].it, c[w].old, c[w].new}
        /\ item[i].val = Empty => h.val = Empty
    BY <1>3, <1>4, <1>5, <1>10
  <2>4. /\ h \in Headers /\ h.key = k /\ h.lru \in Queues
        /\ h.linked => hash'[k] = i /\ h.cas > 0
        /\ h.cas <= cas_id' /\ h.ver <= cas_id'
    BY <1>3, <1>5, <1>6, <1>10
  <2> QED BY <1>2, <1>3, <1>4, <1>5, <1>6, <1>9, <1>10, <2>1, <2>2, <2>3, <2>4, WorkerTouched
<1>13. \A j \in Chunks \ {i} : Untouched(w, j)
  <2> SUFFICES ASSUME NEW j \in Chunks \ {i} PROVE Untouched(w, j)
    OBVIOUS
  <2>1. /\ Unqueues(w, j)' <=> Unqueues(w, j)
        /\ Requeues(w, j)' <=> Requeues(w, j)
        /\ Fresh(w, j)' => Fresh(w, j)
        /\ Incring(w, j)' => Incring(w, j)
    BY <1>1, <1>2, <1>4, ItemsAssumption DEF Unqueues, Requeues, Fresh, Incring, Commands, Locked, WorkerOK, ConnectionOK
  <2> QED BY <1>2, <1>3, <1>9, <1>11, <2>1, WorkerUntouched
<1>14. KeyOK(w)' /\ CasGiven(w) /\ LockStep(w, k) /\ HashStep(w, k)
  <2>1. ConnectionOK(c'[w])
    BY <1>1, <1>2, <1>4, ItemsAssumption DEF WorkerOK, ConnectionOK, Locked, Pcs
  <2>2. Pending(w)' => Pending(w)
    BY <1>2, <1>4 DEF Pending
  <2>3. Commands(w)' => item_lock'[k] = w
    BY <1>1, <1>2, <1>3, <1>4 DEF Commands, Locked, Lock, WorkerOK, TypesOK, IInv
  <2> QED BY <1>2, <1>3, <1>4, <2>1, <2>2, <2>3 DEF KeyOK, CasGiven, LockStep, HashStep
<1>15. \A j \in Chunks : j \in {c'[w].it, c'[w].old, c'[w].new} =>
         c'[w].key = k /\ (item[j].key = k \/ item[j].refcount = 0)
  BY <1>1, <1>2, <1>4 DEF WorkerOK
<1>16. hash'[k] = None /\ hash[k] = i /\ ~h.linked /\ hash \in [Keys -> Chunks \cup {None}]
  BY <1>3, <1>4, <1>5, <1>6, <1>10 DEF IInv, TypesOK
<1>17. item' = [j \in Chunks |-> item'[j]]
  BY <1>9
<1> QED BY <1>2, <1>3, <1>4, <1>11, <1>12, <1>13, <1>14, <1>15, <1>16, <1>17, ItemsAssumption, WorkerOne

LEMMA StoreLinkOld == 
  ASSUME IInv, NEW w \in Workers, store_link(w), c[w].old # None
  PROVE  IInv'
<1>1. IsTable(c) /\ IsConnection(c[w]) /\ WorkerOK(w) /\ item \in [Chunks -> Headers]
  BY DEF IInv, TypesOK
<1>2. /\ IsTable(c)' /\ IsConnection(c'[w]) /\ OtherWorkers(w) /\ pull[w] = None
      /\ c[w].pc = "found" /\ c'[w].pc = "swap" /\ c[w].cmd # "incr" /\ ~Refused(w)
      /\ c'[w].cmd = c[w].cmd /\ c'[w].key = c[w].key /\ c'[w].unique = c[w].unique
      /\ c'[w].it = c[w].it /\ c'[w].old = c[w].old /\ c'[w].new = c[w].new /\ c'[w].todo = c[w].todo
  BY <1>1 DEF store_link, Found, Running, OtherWorkers, IsTable, IsConnection, Fields
<1>3. /\ UNCHANGED <<settings, queue, cas_id, item_lock, lru_lock, pull, crawlers>>
      /\ item' = [item EXCEPT ![c[w].old].linked = FALSE]
      /\ hash' = [hash EXCEPT ![c[w].key] = None]
  BY DEF store_link, Running
<1>4. PICK i \in Chunks, k \in Keys :
             /\ i = c[w].old /\ k = c[w].key /\ i # None /\ item_lock[k] = w
             /\ c[w].it # i /\ c[w].new = None /\ hash[k] = i /\ item[i].linked
  BY <1>1, <1>2, ItemsAssumption DEF WorkerOK, ConnectionOK, Commands, Locked, IInv, TableOK
<1>5. /\ item[i].key = k /\ item[i] \in Headers /\ item[i].refcount \in Nat
      /\ item[i].lru \in Queues
      /\ item[i].refcount >= Held(c[w], i) + Hold(Unqueues(w, i) \/ item[i].linked)
      /\ \A q \in Queues : i \in At(q) <=>
           q = item[i].lru /\ (Unqueues(w, i) \/ (item[i].linked /\ ~Requeues(w, i)))
      /\ item[i].linked => hash[k] = i /\ item[i].cas > 0
      /\ item[i].cas <= cas_id /\ item[i].ver <= cas_id
  BY <1>2, <1>3, <1>4, WorkerItem
<1>6. /\ Held(c[w], i) = 1 /\ Held(c'[w], i) = 1 /\ item[i].linked
      /\ ~Unqueues(w, i) /\ Unqueues(w, i)' /\ ~Requeues(w, i) /\ ~Requeues(w, i)'
      /\ ~Fresh(w, i)' /\ (Incring(w, i)' => Incring(w, i))
  <2>1. Held(c[w], i) = 1 /\ Held(c'[w], i) = 1
    BY <1>2, <1>4 DEF Held, Hold
  <2>2. ~Unqueues(w, i) /\ Unqueues(w, i)' /\ ~Requeues(w, i) /\ ~Requeues(w, i)'
    BY <1>2, <1>4 DEF Unqueues, Requeues
  <2>3. ~Fresh(w, i)' /\ (Incring(w, i)' => Incring(w, i))
    BY <1>2, <1>4 DEF Fresh, Incring, Commands, Locked
  <2> QED BY <1>4, <2>1, <2>2, <2>3
<1>7. item[i].refcount >= 1
  BY <1>5, <1>6 DEF Hold
<1>8. PICK h : h = [item[i] EXCEPT !.linked = FALSE]
  OBVIOUS
<1>9. /\ item' \in [Chunks -> Headers] /\ item'[i] = Settled(h)
      /\ \A j \in Chunks \ {i} : item'[j] = item[j]
  <2>1. [item[i] EXCEPT !.linked = FALSE] \in Headers
    BY <1>5 DEF Headers
  <2>2. h.refcount # 0
    <3>1. h.refcount = item[i].refcount
      BY <1>5, <1>8 DEF Headers
    <3> QED BY <1>5, <1>7, <3>1
  <2>3. item' = [item EXCEPT ![i] = h]
    BY <1>3, <1>4, <1>8
  <2> QED BY <1>1, <1>8, <2>1, <2>3, <2>2 DEF Settled
<1>10. /\ h \in Headers /\ h.refcount = item[i].refcount
       /\ h.key = k /\ h.lru = item[i].lru /\ ~h.linked
       /\ h.val = item[i].val /\ h.cas = item[i].cas /\ h.ver = item[i].ver
  BY <1>5, <1>8 DEF Headers
<1>11. /\ QueueStep(w) /\ CrawlersStay
       /\ \A j, r : j \in At(r)' <=> j \in At(r)
  BY <1>3, SameQueues
<1>12. Touched(w, k, i, h)
  <2>1. WorkerGain(w, i, h) = 0
    <3>1. Hold(Unqueues(w, i)' \/ h.linked) = Hold(Unqueues(w, i) \/ item[i].linked)
          /\ Hold(Unqueues(w, i) \/ item[i].linked) \in Nat
      BY <1>6, <1>10 DEF Hold
    <3> QED BY <1>5, <1>6, <1>7, <1>10, <3>1 DEF WorkerGain
  <2>2. \A q \in Queues : i \in At(q)' <=>
          q = h.lru /\ (Unqueues(w, i)' \/ (h.linked /\ ~Requeues(w, i)'))
    BY <1>5, <1>6, <1>10, <1>11
  <2>3. /\ item[i].key = k /\ item_lock[k] \in {None, w}
        /\ item[i].linked \/ i \in {c[w].it, c[w].old, c[w].new}
        /\ item[i].val = Empty => h.val = Empty
    BY <1>3, <1>4, <1>5, <1>10
  <2>4. /\ h \in Headers /\ h.key = k /\ h.lru \in Queues
        /\ h.linked => hash'[k] = i /\ h.cas > 0
        /\ h.cas <= cas_id' /\ h.ver <= cas_id'
    BY <1>3, <1>5, <1>6, <1>10
  <2> QED BY <1>2, <1>3, <1>4, <1>5, <1>6, <1>9, <1>10, <2>1, <2>2, <2>3, <2>4, WorkerTouched
<1>13. \A j \in Chunks \ {i} : Untouched(w, j)
  <2> SUFFICES ASSUME NEW j \in Chunks \ {i} PROVE Untouched(w, j)
    OBVIOUS
  <2>1. /\ Unqueues(w, j)' <=> Unqueues(w, j)
        /\ Requeues(w, j)' <=> Requeues(w, j)
        /\ Fresh(w, j)' => Fresh(w, j)
        /\ Incring(w, j)' => Incring(w, j)
    BY <1>1, <1>2, <1>4, ItemsAssumption DEF Unqueues, Requeues, Fresh, Incring, Commands, Locked, WorkerOK, ConnectionOK
  <2> QED BY <1>2, <1>3, <1>9, <1>11, <2>1, WorkerUntouched
<1>14. KeyOK(w)' /\ CasGiven(w) /\ LockStep(w, k) /\ HashStep(w, k)
  <2>1. c[w].cmd = "cas" => c[w].unique # 0
    <3>1. c[w].cmd = "cas" => c[w].unique = item[i].cas
      BY <1>2, <1>4 DEF Refused
    <3>2. item[i].cas # 0 /\ item[i].cas \in Nat
      BY <1>4, <1>5 DEF Headers
    <3> QED BY <3>1, <3>2
  <2>2. hash'[k] = None
    BY <1>3, <1>4 DEF IInv, TypesOK
  <2>3. ConnectionOK(c'[w])
    BY <1>1, <1>2, <1>4, <2>1, ItemsAssumption DEF WorkerOK, ConnectionOK, Locked, Pcs
  <2>4. Pending(w)' => Pending(w)
    BY <1>2, <1>4 DEF Pending
  <2>5. Commands(w)' => item_lock'[k] = w
    BY <1>1, <1>2, <1>3, <1>4 DEF Commands, Locked, Lock, WorkerOK, TypesOK, IInv
  <2> QED BY <2>2, <1>2, <1>3, <1>4, <2>3, <2>4, <2>5 DEF KeyOK, CasGiven, LockStep, HashStep
<1>15. \A j \in Chunks : j \in {c'[w].it, c'[w].old, c'[w].new} =>
         c'[w].key = k /\ (item[j].key = k \/ item[j].refcount = 0)
  BY <1>1, <1>2, <1>4 DEF WorkerOK
<1>16. hash'[k] = None /\ hash[k] = i /\ ~h.linked /\ hash \in [Keys -> Chunks \cup {None}]
  BY <1>3, <1>4, <1>10 DEF IInv, TypesOK
<1>17. item' = [j \in Chunks |-> item'[j]]
  BY <1>9
<1> QED BY <1>2, <1>3, <1>4, <1>11, <1>12, <1>13, <1>14, <1>15, <1>16, <1>17, WorkerOne

LEMMA DeltaInPlaceInv == 
  ASSUME IInv, NEW w \in Workers, delta_in_place(w)
  PROVE  IInv'
<1>1. IsTable(c) /\ IsConnection(c[w]) /\ WorkerOK(w) /\ item \in [Chunks -> Headers]
  BY DEF IInv, TypesOK
<1>2. /\ IsTable(c)' /\ IsConnection(c'[w]) /\ OtherWorkers(w) /\ pull[w] = None
      /\ c[w].pc = "found" /\ c'[w].pc \in {"release", "refresh"} /\ c[w].cmd = "incr" /\ ~Refused(w)
      /\ c'[w].told.res = "stored"
      /\ c'[w].cmd = c[w].cmd /\ c'[w].key = c[w].key /\ c'[w].unique = c[w].unique
      /\ c'[w].it = c[w].it /\ c'[w].old = c[w].old /\ c'[w].new = c[w].new /\ c'[w].todo = c[w].todo
  <2>1. PICK pc \in AfterUpdate :
          c' = [c EXCEPT ![w].told = Stored(w, Successor(item[c[w].old].val)), ![w].pc = pc]
    BY DEF delta_in_place
  <2>2. Stored(w, Successor(item[c[w].old].val)).res = "stored" /\ pc \in {"release", "refresh"}
    BY DEF Stored, AfterUpdate
  <2> QED BY <1>1, <2>1, <2>2 DEF delta_in_place, Found, Running, OtherWorkers, IsTable, IsConnection, Fields
<1>3. /\ UNCHANGED <<settings, hash, queue, item_lock, lru_lock, pull, crawlers>>
      /\ item' = [item EXCEPT ![c[w].old].val = Successor(@), ![c[w].old].cas = cas_id + 1,
                              ![c[w].old].ver = cas_id + 1]
      /\ cas_id' = cas_id + 1 /\ item[c[w].old].val # Empty
  BY DEF delta_in_place
<1>4. PICK i \in Chunks, k \in Keys :
             /\ i = c[w].old /\ k = c[w].key /\ i # None /\ item_lock[k] = w
             /\ c[w].it # i /\ c[w].new = None /\ hash[k] = i /\ item[i].linked
  BY <1>1, <1>2, ItemsAssumption DEF WorkerOK, ConnectionOK, Commands, Locked, Refused, IInv, TableOK
<1>5. /\ item[i].key = k /\ item[i] \in Headers /\ item[i].refcount \in Nat
      /\ item[i].lru \in Queues
      /\ item[i].refcount >= Held(c[w], i) + Hold(Unqueues(w, i) \/ item[i].linked)
      /\ \A q \in Queues : i \in At(q) <=>
           q = item[i].lru /\ (Unqueues(w, i) \/ (item[i].linked /\ ~Requeues(w, i)))
      /\ item[i].linked => hash[k] = i /\ item[i].cas > 0
      /\ item[i].cas <= cas_id /\ item[i].ver <= cas_id
  BY <1>2, <1>3, <1>4, WorkerItem
<1>6. /\ Held(c[w], i) = 1 /\ Held(c'[w], i) = 1 /\ item[i].linked
      /\ ~Unqueues(w, i) /\ ~Unqueues(w, i)' /\ ~Requeues(w, i) /\ ~Requeues(w, i)'
      /\ ~Fresh(w, i)' /\ (Incring(w, i)' => Incring(w, i))
  <2>1. Held(c[w], i) = 1 /\ Held(c'[w], i) = 1
    BY <1>2, <1>4 DEF Held, Hold
  <2>2. ~Unqueues(w, i) /\ ~Unqueues(w, i)' /\ ~Requeues(w, i) /\ ~Requeues(w, i)'
    BY <1>2, <1>4 DEF Unqueues, Requeues
  <2>3. ~Fresh(w, i)' /\ (Incring(w, i)' => Incring(w, i))
    BY <1>2, <1>4 DEF Fresh, Incring, Commands, Locked
  <2> QED BY <1>4, <2>1, <2>2, <2>3
<1>7. item[i].refcount >= 1
  BY <1>5, <1>6 DEF Hold
<1>8. PICK h : h = [item[i] EXCEPT !.val = Successor(@), !.cas = cas_id + 1, !.ver = cas_id + 1]
  OBVIOUS
<1>9. /\ item' \in [Chunks -> Headers] /\ item'[i] = Settled(h) /\ h \in Headers /\ h.refcount # 0
      /\ \A j \in Chunks \ {i} : item'[j] = item[j]
  <2>1. Successor(item[i].val) \in 0..MaxVal
    <3>1. PICK v \in 0..MaxVal : v = item[i].val
      BY <1>3, <1>4, <1>5 DEF Headers
    <3>2. MaxVal \in Nat
      BY ItemsAssumption
    <3>3. (v + 1) % (MaxVal + 1) \in 0..MaxVal
      BY <3>2
    <3> QED BY <3>1, <3>3 DEF Successor
  <2>2. cas_id \in Nat
    BY DEF IInv, TypesOK
  <2>3. h \in Headers /\ h.refcount # 0
    <3>1. PICK v \in 0..MaxVal : v = Successor(item[i].val)
      BY <2>1
    <3>2. PICK n \in Nat : n = cas_id + 1
      BY <2>2
    <3>3. h = [item[i] EXCEPT !.val = v, !.cas = n, !.ver = n]
      BY <1>8, <3>1, <3>2
    <3>4. h \in Headers /\ h.refcount = item[i].refcount
      BY <1>5, <3>3 DEF Headers
    <3> QED BY <1>5, <1>7, <3>4
  <2>4. item' = [item EXCEPT ![i] = h]
    BY <1>3, <1>4, <1>8
  <2> QED BY <1>1, <2>3, <2>4 DEF Settled
<1>10. /\ h \in Headers /\ h.refcount = item[i].refcount /\ item[i].val # Empty
       /\ h.key = k /\ h.lru = item[i].lru /\ h.linked = item[i].linked
       /\ h.cas = cas_id' /\ h.ver = cas_id' /\ h.cas > 0
  <2>1. cas_id \in Nat /\ cas_id' = cas_id + 1
    BY <1>3 DEF IInv, TypesOK
  <2>2. PICK v, n : n = cas_id' /\ h = [item[i] EXCEPT !.val = v, !.cas = n, !.ver = n]
    BY <1>8, <2>1
  <2>3. /\ h.refcount = item[i].refcount /\ h.key = item[i].key /\ h.lru = item[i].lru
        /\ h.linked = item[i].linked /\ h.cas = n /\ h.ver = n
    BY <1>5, <2>2 DEF Headers
  <2>4. n \in Nat /\ n > 0
    BY <2>1, <2>2
  <2> QED BY <1>3, <1>4, <1>5, <1>9, <2>2, <2>3, <2>4
<1>11. /\ QueueStep(w) /\ CrawlersStay
       /\ \A j, r : j \in At(r)' <=> j \in At(r)
  BY <1>3, SameQueues
<1>12. Touched(w, k, i, h)
  <2>1. WorkerGain(w, i, h) = 0
    <3>1. Hold(Unqueues(w, i)' \/ h.linked) = Hold(Unqueues(w, i) \/ item[i].linked)
          /\ Hold(Unqueues(w, i) \/ item[i].linked) \in Nat
      BY <1>6, <1>10 DEF Hold
    <3> QED BY <1>5, <1>6, <1>7, <1>10, <3>1 DEF WorkerGain
  <2>2. \A q \in Queues : i \in At(q)' <=>
          q = h.lru /\ (Unqueues(w, i)' \/ (h.linked /\ ~Requeues(w, i)'))
    BY <1>5, <1>6, <1>10, <1>11
  <2>3. /\ item[i].key = k /\ item_lock[k] \in {None, w}
        /\ item[i].linked \/ i \in {c[w].it, c[w].old, c[w].new}
        /\ item[i].val = Empty => h.val = Empty
    BY <1>3, <1>4, <1>5, <1>10
  <2>4. /\ h \in Headers /\ h.key = k /\ h.lru \in Queues
        /\ h.linked => hash'[k] = i /\ h.cas > 0
        /\ h.cas <= cas_id' /\ h.ver <= cas_id'
    <3>1. cas_id' \in Nat /\ hash' = hash
      BY <1>3 DEF IInv, TypesOK
    <3>2. h.cas <= cas_id' /\ h.ver <= cas_id'
      BY <1>10, <3>1
    <3> QED BY <1>4, <1>5, <1>9, <1>10, <3>1, <3>2
  <2> QED BY <1>2, <1>3, <1>4, <1>5, <1>6, <1>9, <1>10, <2>1, <2>2, <2>3, <2>4, WorkerTouched
<1>13. \A j \in Chunks \ {i} : Untouched(w, j)
  <2> SUFFICES ASSUME NEW j \in Chunks \ {i} PROVE Untouched(w, j)
    OBVIOUS
  <2>1. /\ Unqueues(w, j)' <=> Unqueues(w, j)
        /\ Requeues(w, j)' <=> Requeues(w, j)
        /\ Fresh(w, j)' => Fresh(w, j)
        /\ Incring(w, j)' => Incring(w, j)
    BY <1>1, <1>2, <1>4, ItemsAssumption DEF Unqueues, Requeues, Fresh, Incring, Commands, Locked, WorkerOK, ConnectionOK
  <2> QED BY <1>2, <1>3, <1>9, <1>11, <2>1, WorkerUntouched
<1>14. KeyOK(w)' /\ CasGiven(w) /\ LockStep(w, k) /\ HashStep(w, k)
  <2>1. ConnectionOK(c'[w])
    BY <1>1, <1>2, <1>4, ItemsAssumption DEF WorkerOK, ConnectionOK, Locked, Pcs, Refused
  <2>2. Pending(w) /\ ~Pending(w)'
    BY <1>2, <1>4 DEF Pending
  <2>3. Commands(w)' => item_lock'[k] = w
    BY <1>1, <1>2, <1>3, <1>4 DEF Commands, Locked, Lock, WorkerOK, TypesOK, IInv
  <2> QED BY <1>2, <1>3, <1>4, <2>1, <2>2, <2>3 DEF KeyOK, CasGiven, LockStep, HashStep
<1>15. \A j \in Chunks : j \in {c'[w].it, c'[w].old, c'[w].new} =>
         c'[w].key = k /\ (item[j].key = k \/ item[j].refcount = 0)
  BY <1>1, <1>2, <1>4 DEF WorkerOK
<1>16. hash'[k] = hash[k] /\ (hash[k] = i => h.linked)
  <2>1. hash[k] = i => item[i].linked
    BY <1>4, ItemsAssumption DEF IInv, TableOK
  <2> QED BY <1>3, <1>10, <2>1
<1>17. item' = [j \in Chunks |-> item'[j]]
  BY <1>9
<1> QED BY <1>2, <1>3, <1>4, <1>11, <1>12, <1>13, <1>14, <1>15, <1>16, <1>17, WorkerOne

LEMMA ItemUnlinkGone ==
  ASSUME IInv, NEW w \in Workers, item_unlink(w), ~item[c[w].it].linked
  PROVE  IInv'
<1>1. IsTable(c) /\ IsConnection(c[w]) /\ WorkerOK(w) /\ settings \in Settings
  BY DEF IInv, TypesOK
<1>2. /\ IsTable(c)' /\ IsConnection(c'[w]) /\ OtherWorkers(w) /\ pull[w] = None
      /\ c[w].pc = "unlink" /\ c'[w].cmd = c[w].cmd /\ c'[w].key = c[w].key
      /\ c'[w].pc = "drop" /\ c'[w].unique = c[w].unique
      /\ c'[w].it = c[w].it /\ c'[w].old = c[w].old /\ c'[w].new = c[w].new
      /\ c'[w].todo = c[w].todo
  BY <1>1 DEF item_unlink, Running, OtherWorkers, IsTable, IsConnection, Fields
<1>3. UNCHANGED <<settings, item, hash, queue, cas_id, item_lock, lru_lock, pull, crawlers>>
  BY DEF item_unlink
<1>4. c'[w].it = c[w].it /\ c'[w].old = c[w].old /\ c'[w].new = c[w].new
  BY <1>1, <1>2, ItemsAssumption DEF WorkerOK, ConnectionOK
<1>5. WorkerOK(w)'
  <2>1. ConnectionOK(c'[w])
    BY <1>1, <1>2, <1>4, ItemsAssumption DEF WorkerOK, ConnectionOK, Locked, Pcs
  <2>2. /\ Commands(w)' => item_lock'[c'[w].key] = w
        /\ c'[w].pc = "found" \/ (c'[w].pc = "alloc" /\ c'[w].old # None) => hash'[c'[w].key] = c'[w].old
        /\ c'[w].pc \in {"reap", "swap", "link"} => hash'[c'[w].key] = None
    BY <1>1, <1>2, <1>3, <1>4 DEF WorkerOK, ConnectionOK, Commands, Locked
  <2>3. \A i \in Chunks : i \in {c'[w].it, c'[w].old, c'[w].new} => item'[i].key = c'[w].key
    BY <1>1, <1>2, <1>3, <1>4, ItemsAssumption DEF WorkerOK, ConnectionOK
  <2> QED BY <1>2, <1>3, <2>1, <2>2, <2>3 DEF WorkerOK
<1>6. \A i \in Chunks : /\ Unqueues(w, i)' <=> Unqueues(w, i)
                        /\ Requeues(w, i)' <=> Requeues(w, i)
                        /\ Fresh(w, i)' => Fresh(w, i)
                        /\ Incring(w, i)' => Incring(w, i)
  BY <1>1, <1>2, <1>4, ItemsAssumption DEF Unqueues, Requeues, Fresh, Incring, Commands, Locked, WorkerOK, ConnectionOK
<1>7. Pending(w)' => Pending(w)
  BY <1>1, <1>2, <1>4 DEF Pending, WorkerOK, ConnectionOK
<1> QED BY <1>2, <1>3, <1>4, <1>5, <1>6, <1>7, ConnStep

LEMMA StoreLinkNew ==
  ASSUME IInv, NEW w \in Workers, store_link(w), c[w].old = None
  PROVE  IInv'
<1>1. IsTable(c) /\ IsConnection(c[w]) /\ WorkerOK(w) /\ settings \in Settings
  BY DEF IInv, TypesOK
<1>2. /\ IsTable(c)' /\ IsConnection(c'[w]) /\ OtherWorkers(w) /\ pull[w] = None
      /\ c[w].pc = "found" /\ c'[w].cmd = c[w].cmd /\ c'[w].key = c[w].key
      /\ c'[w].pc = "link" /\ c'[w].unique = c[w].unique /\ ~Refused(w) /\ c[w].cmd # "incr"
      /\ c'[w].it = c[w].it /\ c'[w].old = c[w].old /\ c'[w].new = c[w].new
      /\ c'[w].todo = c[w].todo
  BY <1>1 DEF store_link, Found, Running, OtherWorkers, IsTable, IsConnection, Fields
<1>3. UNCHANGED <<settings, item, hash, queue, cas_id, item_lock, lru_lock, pull, crawlers>>
  BY DEF store_link
<1>4. c'[w].it = c[w].it /\ c'[w].old = c[w].old /\ c'[w].new = c[w].new
  BY <1>1, <1>2, ItemsAssumption DEF WorkerOK, ConnectionOK
<1>5. WorkerOK(w)'
  <2>1. ConnectionOK(c'[w])
    BY <1>1, <1>2, <1>4, ItemsAssumption, ZenonT(30) DEF WorkerOK, ConnectionOK, Locked, Pcs, Refused
  <2>2. /\ Commands(w)' => item_lock'[c'[w].key] = w
        /\ c'[w].pc = "found" \/ (c'[w].pc = "alloc" /\ c'[w].old # None) => hash'[c'[w].key] = c'[w].old
        /\ c'[w].pc \in {"reap", "swap", "link"} => hash'[c'[w].key] = None
    BY <1>1, <1>2, <1>3, <1>4 DEF WorkerOK, ConnectionOK, Commands, Locked
  <2>3. \A i \in Chunks : i \in {c'[w].it, c'[w].old, c'[w].new} => item'[i].key = c'[w].key
    BY <1>1, <1>2, <1>3, <1>4, ItemsAssumption DEF WorkerOK, ConnectionOK
  <2> QED BY <1>2, <1>3, <2>1, <2>2, <2>3 DEF WorkerOK
<1>6. \A i \in Chunks : /\ Unqueues(w, i)' <=> Unqueues(w, i)
                        /\ Requeues(w, i)' <=> Requeues(w, i)
                        /\ Fresh(w, i)' => Fresh(w, i)
                        /\ Incring(w, i)' => Incring(w, i)
  BY <1>1, <1>2, <1>4, ItemsAssumption DEF Unqueues, Requeues, Fresh, Incring, Commands, Locked, WorkerOK, ConnectionOK
<1>7. Pending(w)' => Pending(w)
  BY <1>1, <1>2, <1>4 DEF Pending, WorkerOK, ConnectionOK
<1> QED BY <1>2, <1>3, <1>4, <1>5, <1>6, <1>7, ConnStep

\* An item that is linked under a key whose lock nobody else has.
LEMMA LinkedItem ==
  ASSUME IInv, NEW w \in Workers, NEW i \in Chunks, NEW k \in Keys, pull[w] = None,
         i \notin {c[w].it, c[w].old, c[w].new}, item[i].linked, item[i].key = k,
         item_lock[k] \in {None, w}
  PROVE  /\ item[i] \in Headers /\ item[i].refcount \in Nat /\ item[i].lru \in Queues
         /\ item[i].refcount >= 1 /\ hash[k] = i
         /\ \A q \in Queues : i \in At(q) <=> q = item[i].lru
         /\ item[i].cas > 0 /\ item[i].cas <= cas_id /\ item[i].ver <= cas_id
<1>1. w \in Threads /\ w \in Walkers
  BY DEF Threads, Walkers
<1>2. item[i] \in Headers /\ item[i].refcount \in Nat
  BY DEF IInv, TypesOK, Headers
<1>3. item[i].refcount # 0
  BY Unheld
<1>4. item[i] # Slabbed
  BY <1>3 DEF Slabbed
<1>5. Only(w, i)
  BY <1>1, LockOnly
<1>6. (Between(i) <=> Unq(w, i)) /\ (Away(i) <=> Req(w, i))
  BY <1>1, <1>5, OnlyRefs
<1>7. ~Unq(w, i) /\ ~Req(w, i)
  BY DEF Unq, Req, Unqueues, Requeues, Moves, InHandOf
<1>8. item[i].lru \in Queues /\ hash[k] = i
  BY <1>4 DEF IInv, TableOK, Tabled
<1>9. CasOf(i) /\ Placed(i)
  BY DEF IInv
<1> QED BY <1>2, <1>3, <1>6, <1>7, <1>8, <1>9 DEF CasOf, Placed

\* do_item_get in a command that has only what it has allocated.
LEMMA LookupInv ==
  ASSUME IInv, NEW w \in Workers, NEW k \in Keys, pull[w] = None, OtherWorkers(w),
         UNCHANGED <<settings, queue, cas_id, lru_lock, pull, crawlers>>,
         IsTable(c)', IsConnection(c'[w]), ConnectionOK(c'[w]), c'[w].key = k,
         c[w].pc \in {"new_cmd", "nread", "stale"}, c[w].pc # "new_cmd" => c[w].key = k,
         item_lock[k] = None, do_item_get(k), LockStep(w, k), Commands(w)' => item_lock'[k] = w,
         c'[w].new = None,
         hash[k] = None => /\ c'[w].it = c[w].it /\ c'[w].old = None
                           /\ c'[w].pc \in {"done", "found"},
         hash[k] # None => \/ c'[w].it = c[w].it /\ c'[w].old = hash[k]
                           \/ c[w].it = None /\ c'[w].it = hash[k] /\ c'[w].old = None,
         hash[k] # None => IF Hit(k) THEN c'[w].pc \in {"got", "unlink", "found"}
                                     ELSE c'[w].pc = "reap" /\ c'[w].old = hash[k],
         c'[w].pc = "found" => c'[w].old = hash[k],
         Pending(w)' => Pending(w) \/ cas_id < MaxCas,
         \A i \in Chunks : Incring(w, i)' => item[i].refcount < MaxRefs
  PROVE  IInv'
<1>1. /\ WorkerOK(w) /\ item \in [Chunks -> Headers] /\ hash \in [Keys -> Chunks \cup {None}]
      /\ c[w].old = None /\ c[w].new = None
      /\ c[w].it # None => c[w].pc = "nread"
  BY ItemsAssumption DEF IInv, TypesOK, WorkerOK, ConnectionOK
<1>2. QueueStep(w) /\ CrawlersStay /\ \A j, r : j \in At(r)' <=> j \in At(r)
  BY SameQueues
<1>3. \A j \in Chunks : /\ ~Unqueues(w, j) /\ ~Requeues(w, j) /\ ~Requeues(w, j)'
                        /\ Fresh(w, j)' => Fresh(w, j) \/ c'[w].it # c[w].it
                        /\ Unqueues(w, j)' <=> c'[w].pc = "reap" /\ c'[w].old = j
  BY <1>1, ItemsAssumption DEF Unqueues, Requeues, Fresh
<1>4. \A j \in Chunks : j \in {c'[w].it, c'[w].old, c'[w].new} =>
        c'[w].key = k /\ (item[j].key = k \/ item[j].refcount = 0)
  <2>1. hash[k] # None => hash[k] \in Chunks /\ item[hash[k]].key = k
    BY DEF IInv, TypesOK, TableOK
  <2>2. \A j \in Chunks : j = c[w].it => item[j].key = k
    BY <1>1, ItemsAssumption DEF WorkerOK
  <2> QED BY <2>1, <2>2, ItemsAssumption
<1>5. CasGiven(w)
  BY DEF CasGiven
<1>6. CASE hash[k] = None
  <2>1. item' = item /\ hash' = hash
    BY <1>6 DEF do_item_get
  <2>2. \A j \in Chunks : Untouched(w, j)
    <3> SUFFICES ASSUME NEW j \in Chunks PROVE Untouched(w, j)
      OBVIOUS
    <3>1. /\ Unqueues(w, j)' <=> Unqueues(w, j)
          /\ Requeues(w, j)' <=> Requeues(w, j)
          /\ Fresh(w, j)' => Fresh(w, j)
      BY <1>3, <1>6
    <3>2. Incring(w, j)' => Incring(w, j)
      BY <1>6, ItemsAssumption DEF Incring
    <3> QED BY <1>1, <1>2, <1>6, <2>1, <3>1, <3>2, WorkerUntouched
  <2>3. KeyOK(w)'
    BY <1>6, <2>1 DEF KeyOK
  <2>4. Rehashed(k) /\ HashStep(w, k)
    BY <1>6, <2>1 DEF Rehashed, HashStep
  <2>5. item' = [j \in Chunks |-> item'[j]]
    BY <1>1, <2>1
  <2> QED BY <1>2, <1>4, <1>5, <2>2, <2>3, <2>4, <2>5, WorkerKept
<1>7. CASE hash[k] # None
  <2>1. PICK i \in Chunks : i = hash[k] /\ i # None
    BY <1>1, <1>7
  <2>2. item[i].linked /\ item[i].key = k
    BY <1>7, <2>1 DEF IInv, TableOK
  <2>3. i \notin {c[w].it, c[w].old, c[w].new}
    <3>1. c[w].it # i
      <4>1. c[w].it = i => Fresh(w, i)
        BY <1>1, <2>1 DEF Fresh
      <4> QED BY <2>2, <4>1 DEF IInv, Placed
    <3> QED BY <1>1, <2>1, <3>1
  <2>4. /\ item[i] \in Headers /\ item[i].refcount \in Nat /\ item[i].lru \in Queues
        /\ item[i].refcount >= 1 /\ hash[k] = i
        /\ \A q \in Queues : i \in At(q) <=> q = item[i].lru
        /\ item[i].cas > 0 /\ item[i].cas <= cas_id /\ item[i].ver <= cas_id
    BY <2>2, <2>3, LinkedItem
  <2>5. Hit(k) <=> ~Expired(i)
    BY <2>1 DEF Hit
  <2>6. PICK h : /\ h \in Headers /\ h.refcount = item[i].refcount + 1 /\ h.refcount # 0
                 /\ h.key = k /\ h.lru = item[i].lru /\ h.val = item[i].val
                 /\ h.cas = item[i].cas /\ h.ver = item[i].ver
                 /\ h.linked <=> Hit(k)
                 /\ item' = [item EXCEPT ![i] = h]
    <3>1. PICK n \in Nat : n = item[i].refcount + 1 /\ n # 0
      BY <2>4
    <3>2. CASE Expired(i)
      <4> DEFINE h == [item[i] EXCEPT !.refcount = n, !.linked = FALSE]
      <4>1. /\ h \in Headers /\ h.refcount = n /\ h.key = item[i].key /\ h.lru = item[i].lru
            /\ h.val = item[i].val /\ h.cas = item[i].cas /\ h.ver = item[i].ver /\ h.linked = FALSE
        BY <2>4 DEF Headers
      <4>2. item' = [item EXCEPT ![i] = h]
        BY <1>1, <2>1, <3>1, <3>2 DEF do_item_get, refcount_incr
      <4> HIDE DEF h
      <4> QED BY <2>2, <2>5, <3>1, <3>2, <4>1, <4>2
    <3>3. CASE ~Expired(i)
      <4> DEFINE h == [item[i] EXCEPT !.refcount = n, !.active = TRUE]
      <4>1. /\ h \in Headers /\ h.refcount = n /\ h.key = item[i].key /\ h.lru = item[i].lru
            /\ h.val = item[i].val /\ h.cas = item[i].cas /\ h.ver = item[i].ver /\ h.linked = item[i].linked
        BY <2>4 DEF Headers
      <4>2. item' = [item EXCEPT ![i] = h]
        BY <1>1, <2>1, <3>1, <3>3 DEF do_item_get, refcount_incr
      <4>3. item[i].linked = TRUE
        BY <2>2, <2>4 DEF Headers
      <4> HIDE DEF h
      <4> QED BY <2>2, <2>5, <3>1, <3>3, <4>1, <4>2, <4>3
    <3> QED BY <3>2, <3>3
  <2>7. hash' = IF Hit(k) THEN hash ELSE [hash EXCEPT ![k] = None]
    BY <1>7, <2>1, <2>5 DEF do_item_get
  <2>8. item'[i] = Settled(h) /\ \A j \in Chunks \ {i} : item'[j] = item[j]
    BY <1>1, <2>6 DEF Settled
  <2>9. Held(c[w], i) = 0 /\ Held(c'[w], i) = 1 /\ c'[w].it # c'[w].old
    <3>1. Held(c[w], i) = 0
      BY <2>3 DEF Held, Hold
    <3>2. Held(c'[w], i) = 1
      BY <2>1, <2>3 DEF Held, Hold
    <3>3. c'[w].it # c'[w].old
      BY <1>7, <2>1, <2>3
    <3> QED BY <3>1, <3>2, <3>3
  <2>10. /\ Unqueues(w, i)' <=> ~Hit(k)
         /\ ~Unqueues(w, i) /\ ~Requeues(w, i)' /\ ~Fresh(w, i)'
    <3>1. Unqueues(w, i)' <=> ~Hit(k)
      BY <1>3, <1>7, <2>1
    <3>2. ~Fresh(w, i)'
      <4>1. CASE c'[w].it = i
        <5>1. c'[w].pc \in {"got", "unlink", "found"} /\ c'[w].old # i
          BY <1>7, <2>1, <2>9, <4>1
        <5>2. c'[w].pc # "found"
          BY <2>1, <5>1
        <5> QED BY <2>1, <5>1, <5>2 DEF Fresh
      <4>2. CASE c'[w].it # i
        BY <2>1, <4>2 DEF Fresh
      <4> QED BY <4>1, <4>2
    <3> QED BY <1>3, <3>1, <3>2
  <2>11. Touched(w, k, i, h)
    <3>1. WorkerGain(w, i, h) = 0
      <4>1. Hold(Unqueues(w, i)' \/ h.linked) = 1 /\ Hold(Unqueues(w, i) \/ item[i].linked) = 1
        BY <2>2, <2>6, <2>10 DEF Hold
      <4> QED BY <2>4, <2>6, <2>9, <4>1 DEF WorkerGain
    <3>2. \A q \in Queues : i \in At(q)' <=>
            q = h.lru /\ (Unqueues(w, i)' \/ (h.linked /\ ~Requeues(w, i)'))
      BY <1>2, <2>4, <2>6, <2>10
    <3>3. /\ item[i].key = k /\ item_lock[k] \in {None, w}
          /\ item[i].linked \/ i \in {c[w].it, c[w].old, c[w].new}
          /\ item[i].val = Empty => h.val = Empty
      BY <2>2, <2>6
    <3>4. /\ h \in Headers /\ h.key = k /\ h.lru \in Queues
          /\ h.linked => hash'[k] = i /\ h.cas > 0
          /\ h.cas <= cas_id' /\ h.ver <= cas_id'
      BY <2>4, <2>6, <2>7
    <3>5. /\ Unqueues(w, i)' => ~h.linked
          /\ Requeues(w, i)' => h.linked
          /\ Incring(w, i)' => item[i].refcount < MaxRefs
      BY <2>6, <2>10
    <3> QED BY <2>4, <2>8, <2>10, <3>1, <3>2, <3>3, <3>4, <3>5, WorkerTouched
  <2>12. \A j \in Chunks \ {i} : Untouched(w, j)
    <3> SUFFICES ASSUME NEW j \in Chunks \ {i} PROVE Untouched(w, j)
      OBVIOUS
    <3>1. /\ c'[w].it = j <=> c[w].it = j
          /\ c'[w].old = j <=> c[w].old = j
          /\ c'[w].new = j <=> c[w].new = j
      BY <1>1, <1>7, <2>1, ItemsAssumption
    <3>2. /\ Unqueues(w, j)' <=> Unqueues(w, j)
          /\ Requeues(w, j)' <=> Requeues(w, j)
          /\ Fresh(w, j)' => Fresh(w, j)
          /\ Incring(w, j)' => Incring(w, j)
      BY <1>1, <1>3, <3>1, ItemsAssumption DEF Unqueues, Requeues, Fresh, Incring
    <3> QED BY <1>2, <2>8, <3>1, <3>2, WorkerUntouched
  <2>13. KeyOK(w)' /\ HashStep(w, k)
    <3>1. c'[w].pc \notin {"alloc", "swap", "link"} /\ (c'[w].pc = "found" => Hit(k)) /\ (c'[w].pc = "reap" => ~Hit(k))
      BY <1>7
    <3>2. HashStep(w, k)
      BY <2>7 DEF HashStep
    <3> QED BY <1>1, <2>7, <3>1, <3>2 DEF KeyOK
  <2>14. hash'[k] \in {None, hash[k], i} /\ (hash'[k] = i => h.linked) /\ (hash'[k] # hash[k] => hash[k] = i /\ ~h.linked)
    BY <1>1, <2>1, <2>6, <2>7
  <2>15. item' = [j \in Chunks |-> item'[j]]
    BY <1>1, <2>6
  <2> QED BY <1>2, <1>4, <1>5, <2>11, <2>12, <2>13, <2>14, <2>15, WorkerOne
<1> QED BY <1>6, <1>7

LEMMA ItemGetInv ==
  ASSUME IInv, NEW w \in Workers, NEW k \in Keys, pull[w] = None,
         c[w].pc \in {"new_cmd", "stale"}, c[w].pc # "new_cmd" => c[w].key = k,
         NEW cmd, NEW then \in {"got", "unlink"}, NEW told, cmd # "incr",
         item_get(w, cmd, k, then, told)
  PROVE  IInv'
<1>1. /\ IsTable(c) /\ IsConnection(c[w]) /\ WorkerOK(w) /\ hash[k] \in Chunks \cup {None}
      /\ c[w].it = None /\ c[w].old = None /\ c[w].new = None
  BY DEF IInv, TypesOK, WorkerOK, ConnectionOK
<1>2. /\ UNCHANGED <<settings, queue, cas_id, lru_lock, pull, crawlers>>
      /\ item_lock[k] = None /\ do_item_get(k)
      /\ IF hash[k] # None /\ ~Hit(k) THEN Lock(w, k) ELSE UNCHANGED item_lock
  BY DEF item_get
<1>3. LockStep(w, k)
  BY <1>2 DEF LockStep
<1>4. /\ IsTable(c)' /\ IsConnection(c'[w]) /\ OtherWorkers(w)
      /\ c'[w].cmd = cmd /\ c'[w].key = k /\ c'[w].new = None /\ c'[w].todo = <<>>
      /\ c'[w].it = IF Hit(k) THEN hash[k] ELSE None
      /\ c'[w].old = IF Hit(k) THEN None ELSE hash[k]
      /\ c'[w].pc = IF Hit(k) THEN then ELSE IF hash[k] = None THEN "done" ELSE "reap"
  <2>1. PICK conn : /\ conn = [Connection EXCEPT !.cmd = cmd, !.key = k, !.told = conn.told]
                    /\ IF Hit(k) THEN c' = [c EXCEPT ![w] = [conn EXCEPT !.pc = then, !.it = hash[k]]]
                       ELSE c' = [c EXCEPT ![w] = [conn EXCEPT
                                   !.pc = IF hash[k] = None THEN "done" ELSE "reap", !.old = hash[k]]]
    <3> DEFINE t == IF told # None THEN told ELSE [res |-> IF Hit(k) THEN "hit" ELSE "miss", key |-> k]
               conn == [Connection EXCEPT !.cmd = cmd, !.key = k, !.told = t]
    <3>1. conn.told = t
      BY DEF Connection
    <3>2. IF Hit(k) THEN c' = [c EXCEPT ![w] = [conn EXCEPT !.pc = then, !.it = hash[k]]]
          ELSE c' = [c EXCEPT ![w] = [conn EXCEPT
                       !.pc = IF hash[k] = None THEN "done" ELSE "reap", !.old = hash[k]]]
      BY DEF item_get
    <3> HIDE DEF t
    <3> QED BY <3>1, <3>2
  <2>2. /\ IsConnection(conn) /\ conn.cmd = cmd /\ conn.key = k /\ conn.new = None /\ conn.todo = <<>>
        /\ conn.it = None /\ conn.old = None
    BY <2>1 DEF Connection, IsConnection, Fields
  <2>3. CASE Hit(k)
    <3>1. PICK i : i = hash[k]
      OBVIOUS
    <3>2. c' = [c EXCEPT ![w] = [conn EXCEPT !.pc = then, !.it = i]]
      BY <2>1, <2>3, <3>1
    <3>3. /\ IsTable(c)' /\ OtherWorkers(w) /\ c'[w] = [conn EXCEPT !.pc = then, !.it = i]
      BY <1>1, <3>2 DEF IsTable, OtherWorkers
    <3>4. /\ IsConnection(c'[w]) /\ c'[w].cmd = cmd /\ c'[w].key = k /\ c'[w].new = None
          /\ c'[w].todo = <<>> /\ c'[w].it = i /\ c'[w].old = None /\ c'[w].pc = then
      BY <2>2, <3>3 DEF IsConnection, Fields
    <3> QED BY <2>3, <3>1, <3>3, <3>4
  <2>4. CASE ~Hit(k)
    <3>1. PICK i, pc : i = hash[k] /\ pc = IF hash[k] = None THEN "done" ELSE "reap"
      OBVIOUS
    <3>2. c' = [c EXCEPT ![w] = [conn EXCEPT !.pc = pc, !.old = i]]
      BY <2>1, <2>4, <3>1
    <3>3. /\ IsTable(c)' /\ OtherWorkers(w) /\ c'[w] = [conn EXCEPT !.pc = pc, !.old = i]
      BY <1>1, <3>2 DEF IsTable, OtherWorkers
    <3>4. /\ IsConnection(c'[w]) /\ c'[w].cmd = cmd /\ c'[w].key = k /\ c'[w].new = None
          /\ c'[w].todo = <<>> /\ c'[w].it = None /\ c'[w].old = i /\ c'[w].pc = pc
      BY <2>2, <3>3 DEF IsConnection, Fields
    <3> QED BY <2>4, <3>1, <3>3, <3>4
  <2> QED BY <2>3, <2>4
<1>5. Hit(k) => hash[k] # None
  BY DEF Hit
<1>6. ConnectionOK(c'[w])
  <2>1. /\ c'[w].key \in Keys /\ c'[w].todo \in Seq(PullRequest) /\ c'[w].new = None
        /\ {c'[w].it, c'[w].old, c'[w].new} \subseteq Chunks \cup {None}
        /\ c'[w].it = None \/ c'[w].old = None
    BY <1>1, <1>4
  <2>2. \/ c'[w].pc \in {"got", "unlink"} /\ c'[w].it # None /\ c'[w].old = None
        \/ c'[w].pc = "done" /\ c'[w].it = None /\ c'[w].old = None
        \/ c'[w].pc = "reap" /\ c'[w].it = None /\ c'[w].old # None
    BY <1>4, <1>5
  <2> QED BY <2>1, <2>2 DEF ConnectionOK, Locked, Pcs
<1>7. Commands(w)' => item_lock'[k] = w
  <2>1. Commands(w)' => hash[k] # None /\ ~Hit(k)
    BY <1>4, <1>5 DEF Commands, Locked
  <2> QED BY <1>2, <2>1 DEF Lock, IInv, TypesOK
<1>8. ~Pending(w)' /\ \A i \in Chunks : ~Incring(w, i)'
  BY <1>4 DEF Pending, Incring
<1>9. /\ hash[k] = None => /\ c'[w].it = c[w].it /\ c'[w].old = None
                           /\ c'[w].pc \in {"done", "found"}
      /\ hash[k] # None => \/ c'[w].it = c[w].it /\ c'[w].old = hash[k]
                           \/ c[w].it = None /\ c'[w].it = hash[k] /\ c'[w].old = None
      /\ hash[k] # None => IF Hit(k) THEN c'[w].pc \in {"got", "unlink", "found"}
                                     ELSE c'[w].pc = "reap" /\ c'[w].old = hash[k]
      /\ c'[w].pc = "found" => c'[w].old = hash[k]
  BY <1>1, <1>4, <1>5
<1> QED BY <1>2, <1>3, <1>4, <1>6, <1>7, <1>8, <1>9, LookupInv

LEMMA GetInv == ASSUME IInv, NEW w \in Workers, NEW k \in Keys, Get(w, k) PROVE IInv'
<1>1. PICK cmd \in {"get", "gets"} : item_get(w, cmd, k, "got", None)
  BY DEF Get
<1>2. pull[w] = None /\ c[w].pc = "new_cmd"
  BY DEF Get, NewCommand, Running
<1> QED BY <1>1, <1>2, ItemGetInv

LEMMA DeleteInv == ASSUME IInv, NEW w \in Workers, NEW k \in Keys, Delete(w, k) PROVE IInv'
<1>1. item_get(w, "delete", k, "unlink", None) /\ pull[w] = None /\ c[w].pc = "new_cmd"
  BY DEF Delete, NewCommand, Running
<1> QED BY <1>1, ItemGetInv

LEMMA UnlinkStaleInv == ASSUME IInv, NEW w \in Workers, UnlinkStale(w) PROVE IInv'
<1>1. item_get(w, "set", c[w].key, "unlink", c[w].told) /\ pull[w] = None /\ c[w].pc = "stale"
  BY DEF UnlinkStale, Running
<1>2. PICK k \in Keys : k = c[w].key
  BY <1>1 DEF IInv, WorkerOK, ConnectionOK
<1>3. PICK told : told = c[w].told
  OBVIOUS
<1> QED BY <1>1, <1>2, <1>3, ItemGetInv

LEMMA EnterInv ==
  ASSUME IInv, NEW w \in Workers, NEW k \in Keys, NEW pc \in {"new_cmd", "nread"}, NEW conn,
         Enter(w, pc, k, conn), IsConnection(conn), conn.key = k, pc # "new_cmd" => c[w].key = k,
         conn.it = c[w].it, conn.new = None, conn.todo \in Seq(PullRequest),
         pc = "nread" \/ conn.cmd = "incr",
         (conn.cmd = "cas" /\ conn.unique = 0) \/ cas_id < MaxCas,
         conn.cmd = "incr" => \A i \in Chunks : item[i].refcount < MaxRefs
  PROVE  IInv'
<1>1. /\ pull[w] = None /\ c[w].pc = pc /\ Lock(w, k) /\ do_item_get(k)
      /\ UNCHANGED <<settings, queue, cas_id, lru_lock, pull, crawlers>>
  BY DEF Enter, Running
<1>2. /\ IsTable(c) /\ WorkerOK(w) /\ hash[k] \in Chunks \cup {None}
      /\ c[w].it \in Chunks \cup {None} /\ (c[w].pc = "nread" => c[w].it # None)
  BY DEF IInv, TypesOK, WorkerOK, ConnectionOK
<1>3. LockStep(w, k) /\ item_lock[k] = None /\ item_lock'[k] = w
  BY <1>1 DEF LockStep, Lock, IInv, TypesOK
<1>4. /\ IsTable(c)' /\ IsConnection(c'[w]) /\ OtherWorkers(w)
      /\ c'[w].cmd = conn.cmd /\ c'[w].key = k /\ c'[w].new = None /\ c'[w].todo = conn.todo
      /\ c'[w].unique = conn.unique /\ c'[w].it = c[w].it /\ c'[w].old = hash[k]
      /\ c'[w].pc = IF hash[k] # None /\ ~Hit(k) THEN "reap" ELSE "found"
  BY <1>2 DEF Enter, IsTable, IsConnection, Fields, OtherWorkers
<1>5. c[w].it # None => c[w].it # hash[k]
  <2> SUFFICES ASSUME c[w].it # None, c[w].it = hash[k] PROVE FALSE
    OBVIOUS
  <2>1. PICK i \in Chunks : i = c[w].it
    BY <1>2
  <2>2. item[i].linked
    BY <2>1 DEF IInv, TableOK
  <2>3. c[w].pc = "nread"
    BY <1>1, <1>2 DEF WorkerOK, ConnectionOK
  <2>4. Fresh(w, i)
    BY <2>1, <2>3 DEF Fresh
  <2> QED BY <2>2, <2>4 DEF IInv, Placed
<1>6. ConnectionOK(c'[w])
  <2>1. /\ c'[w].key \in Keys /\ c'[w].todo \in Seq(PullRequest) /\ c'[w].new = None
        /\ {c'[w].it, c'[w].old, c'[w].new} \subseteq Chunks \cup {None}
        /\ c'[w].it # None => c'[w].it # c'[w].old
    BY <1>2, <1>4, <1>5
  <2>2. \/ c'[w].pc = "found" /\ (c'[w].it # None \/ c'[w].cmd = "incr")
        \/ c'[w].pc = "reap" /\ c'[w].old # None
    BY <1>1, <1>2, <1>4
  <2> QED BY <2>1, <2>2 DEF ConnectionOK, Locked, Pcs
<1>7. Pending(w)' => cas_id < MaxCas
  BY <1>4 DEF Pending
<1>8. \A i \in Chunks : Incring(w, i)' => item[i].refcount < MaxRefs
  BY <1>4 DEF Incring
<1>9. Hit(k) => hash[k] # None
  BY DEF Hit
<1>10. /\ hash[k] = None => /\ c'[w].it = c[w].it /\ c'[w].old = None
                            /\ c'[w].pc \in {"done", "found"}
       /\ hash[k] # None => \/ c'[w].it = c[w].it /\ c'[w].old = hash[k]
                            \/ c[w].it = None /\ c'[w].it = hash[k] /\ c'[w].old = None
       /\ hash[k] # None => IF Hit(k) THEN c'[w].pc \in {"got", "unlink", "found"}
                                      ELSE c'[w].pc = "reap" /\ c'[w].old = hash[k]
       /\ c'[w].pc = "found" => c'[w].old = hash[k]
  BY <1>4, <1>9
<1> QED BY <1>1, <1>3, <1>4, <1>6, <1>7, <1>8, <1>10, LookupInv

LEMMA StoreItemInv == ASSUME IInv, NEW w \in Workers, store_item(w) PROVE IInv'
<1>1. PICK cmd, unique :
        /\ Enter(w, "nread", c[w].key, [c[w] EXCEPT !.cmd = cmd, !.unique = unique])
        /\ cmd \in IF MayUpdate THEN Stores ELSE {"cas"}
        /\ unique \in IF MayUpdate /\ cmd \in {"cas", "append"} THEN 0..cas_id ELSE {0}
  BY DEF store_item
<1>2. IsConnection(c[w]) /\ WorkerOK(w) /\ c[w].pc = "nread" /\ c[w].new = None
  BY DEF IInv, TypesOK, WorkerOK, ConnectionOK, store_item, Running
<1>3. PICK k \in Keys : k = c[w].key
  BY <1>2 DEF WorkerOK, ConnectionOK
<1>4. PICK conn : conn = [c[w] EXCEPT !.cmd = cmd, !.unique = unique]
  OBVIOUS
<1>5. /\ IsConnection(conn) /\ conn.key = k /\ conn.it = c[w].it /\ conn.new = None
      /\ conn.todo = c[w].todo /\ conn.cmd = cmd /\ conn.unique = unique
  BY <1>2, <1>3, <1>4 DEF IsConnection, Fields
<1>6. cmd # "incr" /\ ((cmd = "cas" /\ unique = 0) \/ cas_id < MaxCas)
  BY <1>1 DEF MayUpdate, Stores
<1>7. conn.todo \in Seq(PullRequest)
  BY <1>2, <1>5 DEF WorkerOK, ConnectionOK
<1>8. Enter(w, "nread", k, conn)
  BY <1>1, <1>3, <1>4
<1> QED BY <1>3, <1>5, <1>6, <1>7, <1>8, EnterInv

LEMMA AddDeltaInv == ASSUME IInv, NEW w \in Workers, NEW k \in Keys, add_delta(w, k) PROVE IInv'
<1>1. PICK unique \in 0..cas_id :
        Enter(w, "new_cmd", k, [Connection EXCEPT !.cmd = "incr", !.key = k, !.unique = unique])
  BY DEF add_delta
<1> DEFINE conn == [Connection EXCEPT !.cmd = "incr", !.key = k, !.unique = unique]
<1>2. /\ Enter(w, "new_cmd", k, conn) /\ cas_id < MaxCas
      /\ \A i \in Chunks : item[i].refcount < MaxRefs
  BY <1>1 DEF add_delta, MayUpdate
<1>3. /\ IsConnection(conn) /\ conn.key = k /\ conn.it = None /\ conn.new = None
      /\ conn.todo = <<>> /\ conn.cmd = "incr"
  BY <1>1 DEF Connection, IsConnection, Fields
<1> HIDE DEF conn
<1>4. c[w].pc = "new_cmd" /\ c[w].it = None
  BY <1>2 DEF Enter, Running, IInv, WorkerOK, ConnectionOK
<1>5. conn.todo \in Seq(PullRequest)
  BY <1>3
<1> QED BY <1>2, <1>3, <1>4, <1>5, EnterInv

LEMMA LinkInv == ASSUME IInv, NEW w \in Workers, do_item_link(w) PROVE IInv'
<1>1. IsTable(c) /\ IsConnection(c[w]) /\ WorkerOK(w) /\ item \in [Chunks -> Headers]
  BY DEF IInv, TypesOK
<1>2. PICK i : i = IF c[w].new # None THEN c[w].new ELSE c[w].it
  OBVIOUS
<1>3. /\ IsTable(c)' /\ IsConnection(c'[w]) /\ OtherWorkers(w) /\ pull[w] = None
      /\ c[w].pc = "link" /\ c'[w].pc = "release" /\ c'[w].told.res = "stored"
      /\ c'[w].cmd = c[w].cmd /\ c'[w].key = c[w].key /\ c'[w].unique = c[w].unique
      /\ c'[w].it = c[w].it /\ c'[w].old = c[w].old /\ c'[w].new = c[w].new /\ c'[w].todo = c[w].todo
  <2>1. c' = [c EXCEPT ![w].told = Stored(w, item[i].val), ![w].pc = "release"]
    BY <1>2 DEF do_item_link
  <2>2. Stored(w, item[i].val).res = "stored"
    BY DEF Stored
  <2>3. PICK told : told = Stored(w, item[i].val)
    OBVIOUS
  <2>4. c' = [c EXCEPT ![w].told = told, ![w].pc = "release"] /\ told.res = "stored"
    BY <2>1, <2>2, <2>3
  <2>5. c[w].pc = "link" /\ pull[w] = None
    BY DEF do_item_link, Running
  <2> QED BY <1>1, <2>4, <2>5 DEF OtherWorkers, IsTable, IsConnection, Fields
<1>4. PICK n : n = cas_id + 1
  OBVIOUS
<1>5. PICK L : L = [item EXCEPT ![i].linked = TRUE, ![i].cas = n, ![i].ver = n, ![i].refcount = @ + 1]
  OBVIOUS
<1>6. /\ item' = IF c[w].cmd = "incr" THEN [L EXCEPT ![c[w].old].cas = n] ELSE L
      /\ cas_id' = n /\ hash' = [hash EXCEPT ![c[w].key] = i]
      /\ lru_lock[item[i].lru] = None
      /\ queue' = do_item_link_q(queue, item[i].lru, i)
      /\ UNCHANGED <<settings, item_lock, lru_lock, pull, crawlers>>
  BY <1>2, <1>4, <1>5 DEF do_item_link
<1>7. PICK k \in Keys : /\ k = c[w].key /\ i \in Chunks /\ i # None /\ i \in {c[w].it, c[w].new}
                        /\ item_lock[k] = w /\ hash[k] = None /\ i # c[w].old
                        /\ c[w].cmd = "incr" => c[w].old \in Chunks
  <2>1. /\ c[w].pc = "link" /\ ConnectionOK(c[w]) /\ item_lock[c[w].key] = w /\ hash[c[w].key] = None
    BY <1>1, <1>3 DEF WorkerOK, Commands, Locked
  <2>2. c[w].new # None => c[w].old # None /\ c[w].old # c[w].new /\ c[w].new \in Chunks /\ c[w].old \in Chunks
    BY <2>1 DEF ConnectionOK
  <2>3. c[w].new = None => c[w].it # None /\ c[w].it \in Chunks /\ c[w].it # c[w].old /\ c[w].cmd # "incr"
    BY <2>1 DEF ConnectionOK
  <2>4. i \in Chunks /\ i \in {c[w].it, c[w].new} /\ i # c[w].old /\ (c[w].cmd = "incr" => c[w].old \in Chunks)
    BY <1>2, <2>2, <2>3
  <2>5. i # None
    BY <2>4, ItemsAssumption
  <2>6. c[w].key \in Keys
    <3>1. item[i].key = c[w].key
      BY <1>1, <2>4 DEF WorkerOK
    <3>2. item[i].refcount # 0
      BY <2>4, Unheld
    <3>3. item[i] # Slabbed
      BY <3>2 DEF Slabbed
    <3> QED BY <2>4, <3>1, <3>3 DEF IInv, TableOK, Tabled
  <2> QED BY <2>1, <2>4, <2>5, <2>6
<1>8. /\ item[i].key = k /\ item[i] \in Headers /\ item[i].refcount \in Nat
      /\ item[i].lru \in Queues
      /\ item[i].refcount >= Held(c[w], i) + Hold(Unqueues(w, i) \/ item[i].linked)
      /\ \A q \in Queues : i \in At(q) <=>
           q = item[i].lru /\ (Unqueues(w, i) \/ (item[i].linked /\ ~Requeues(w, i)))
      /\ item[i].linked => hash[k] = i /\ item[i].cas > 0
      /\ item[i].cas <= cas_id /\ item[i].ver <= cas_id
  BY <1>3, <1>6, <1>7, WorkerItem
<1>9. /\ Held(c'[w], i) = Held(c[w], i) /\ Held(c[w], i) \in Nat /\ ~item[i].linked
      /\ ~Unqueues(w, i) /\ ~Requeues(w, i)
      /\ \A j \in Chunks : /\ ~Unqueues(w, j) /\ ~Requeues(w, j) /\ ~Unqueues(w, j)' /\ ~Requeues(w, j)'
                           /\ ~Fresh(w, j)' /\ (Incring(w, j)' => Incring(w, j))
  <2>1. Held(c'[w], i) = Held(c[w], i) /\ Held(c[w], i) \in Nat
    BY <1>3 DEF Held, Hold
  <2>2. \A j \in Chunks : ~Unqueues(w, j) /\ ~Unqueues(w, j)' /\ ~Requeues(w, j) /\ ~Requeues(w, j)'
    BY <1>3 DEF Unqueues, Requeues
  <2>3. \A j \in Chunks : ~Fresh(w, j)' /\ (Incring(w, j)' => Incring(w, j))
    BY <1>3 DEF Fresh, Incring, Commands, Locked
  <2>4. ~item[i].linked
    BY <1>7, <1>8
  <2> QED BY <1>7, <2>1, <2>2, <2>3, <2>4
<1>10. cas_id \in Nat /\ n \in Nat /\ n > 0 /\ n > cas_id /\ cas_id' = n
  BY <1>6, <1>4 DEF IInv, TypesOK
\* The item that is linked.
<1>11. PICK h : /\ h \in Headers /\ h.key = k /\ h.lru = item[i].lru /\ h.linked
                /\ h.refcount = item[i].refcount + 1 /\ h.refcount # 0
                /\ h.val = item[i].val /\ h.cas = n /\ h.ver = n
                /\ L = [item EXCEPT ![i] = h]
  <2>1. PICK m \in Nat : m = item[i].refcount + 1 /\ m # 0
    BY <1>8
  <2>2. PICK h : h = [item[i] EXCEPT !.linked = TRUE, !.cas = n, !.ver = n, !.refcount = m]
    OBVIOUS
  <2>3. /\ h \in Headers /\ h.key = item[i].key /\ h.lru = item[i].lru /\ h.linked = TRUE
        /\ h.refcount = m /\ h.val = item[i].val /\ h.cas = n /\ h.ver = n
    BY <1>8, <1>10, <2>2 DEF Headers
  <2>4. L = [item EXCEPT ![i] = h]
    BY <1>1, <1>7, <1>5, <2>1, <2>2
  <2> QED BY <1>8, <2>1, <2>3, <2>4
<1>12. /\ QueueStep(w) /\ CrawlersStay
       /\ \A r \in Queues : i \in At(r)' <=> r = item[i].lru
       /\ \A j \in Chunks \ {i} : \A r \in Queues : j \in At(r)' <=> j \in At(r)
  <2>1. \A r \in Queues : i \notin At(r)
    BY <1>8, <1>9
  <2>2. PICK q \in Queues : q = item[i].lru
    BY <1>8
  <2> QED BY <1>6, <1>7, <2>1, <2>2, IntoQueue
<1>13. item'[i] = h /\ (c[w].cmd # "incr" => \A j \in Chunks \ {i} : item'[j] = item[j])
  BY <1>1, <1>6, <1>7, <1>11
<1>14. Touched(w, k, i, h)
  <2>1. WorkerGain(w, i, h) = 0
    <3>1. Hold(Unqueues(w, i)' \/ h.linked) = 1 /\ Hold(Unqueues(w, i) \/ item[i].linked) = 0
      BY <1>9, <1>11 DEF Hold
    <3> QED BY <1>8, <1>9, <1>11, <3>1 DEF WorkerGain
  <2>2. \A q \in Queues : i \in At(q)' <=>
          q = h.lru /\ (Unqueues(w, i)' \/ (h.linked /\ ~Requeues(w, i)'))
    BY <1>7, <1>9, <1>11, <1>12
  <2>3. /\ item[i].key = k /\ item_lock[k] \in {None, w}
        /\ item[i].linked \/ i \in {c[w].it, c[w].old, c[w].new}
        /\ item[i].val = Empty => h.val = Empty
    BY <1>7, <1>8, <1>11
  <2>4. /\ h \in Headers /\ h.key = k /\ h.lru \in Queues
        /\ h.linked => hash'[k] = i /\ h.cas > 0
        /\ h.cas <= cas_id' /\ h.ver <= cas_id'
    <3>1. hash'[k] = i
      BY <1>6, <1>7 DEF IInv, TypesOK
    <3> QED BY <1>8, <1>10, <1>11, <3>1
  <2>5. item'[i] = Settled(h) /\ i \in Chunks
    BY <1>7, <1>11, <1>13 DEF Settled
  <2> QED BY <1>3, <1>6, <1>7, <1>8, <1>9, <1>11, <2>1, <2>2, <2>3, <2>4, <2>5, WorkerTouched
<1>15. \A j \in Chunks : j # i /\ item'[j] = item[j] => Untouched(w, j)
  <2> SUFFICES ASSUME NEW j \in Chunks \ {i}, item'[j] = item[j] PROVE Untouched(w, j)
    OBVIOUS
  <2>1. /\ Unqueues(w, j)' <=> Unqueues(w, j)
        /\ Requeues(w, j)' <=> Requeues(w, j)
        /\ Fresh(w, j)' => Fresh(w, j)
        /\ Incring(w, j)' => Incring(w, j)
    BY <1>9
  <2> QED BY <1>3, <1>6, <1>12, <2>1, WorkerUntouched
<1>16. KeyOK(w)' /\ CasGiven(w) /\ LockStep(w, k) /\ HashStep(w, k)
  <2>1. ConnectionOK(c'[w])
    BY <1>1, <1>3, <1>7, ItemsAssumption DEF WorkerOK, ConnectionOK, Locked, Pcs
  <2>2. Pending(w) /\ ~Pending(w)'
    BY <1>1, <1>3 DEF Pending, WorkerOK, ConnectionOK
  <2>3. HashStep(w, k)
    BY <1>6, <1>7 DEF HashStep
  <2> QED BY <1>3, <1>6, <1>7, <1>4, <2>1, <2>2, <2>3 DEF KeyOK, CasGiven, LockStep
<1>17. \A j \in Chunks : j \in {c'[w].it, c'[w].old, c'[w].new} =>
         c'[w].key = k /\ (item[j].key = k \/ item[j].refcount = 0)
  BY <1>1, <1>3, <1>7 DEF WorkerOK
<1>18. hash'[k] = i /\ Rehashed(k)
  <2>1. hash'[k] = i
    BY <1>6, <1>7 DEF IInv, TypesOK
  <2> QED BY <1>7, <1>11, <1>13, <2>1 DEF Rehashed
<1>19. CASE c[w].cmd # "incr"
  <2>1. item' = [j \in Chunks |-> item'[j]]
    BY <1>1, <1>6, <1>11, <1>19
  <2>2. \A j \in Chunks : Untouched(w, j) \/ \E g : Touched(w, k, j, g)
    BY <1>13, <1>14, <1>15, <1>19
  <2> QED BY <1>3, <1>6, <1>12, <1>16, <1>17, <1>18, <2>1, <2>2, WorkerKept
\* An incr gives its cas id to the old item, too.
<1>20. CASE c[w].cmd = "incr"
  <2>1. PICK old \in Chunks : old = c[w].old /\ old # i
    BY <1>7, <1>20
  <2>2. /\ item[old].key = k /\ item[old] \in Headers /\ item[old].refcount \in Nat
        /\ item[old].lru \in Queues
        /\ item[old].refcount >= Held(c[w], old) + Hold(Unqueues(w, old) \/ item[old].linked)
        /\ Held(c[w], old) >= 1
        /\ \A q \in Queues : old \in At(q) <=>
             q = item[old].lru /\ (Unqueues(w, old) \/ (item[old].linked /\ ~Requeues(w, old)))
        /\ item[old].linked => hash[k] = old
        /\ item[old].ver <= cas_id
    BY <1>3, <1>6, <1>7, <2>1, WorkerItem
  <2>3. PICK g : /\ g \in Headers /\ g.key = k /\ g.lru = item[old].lru /\ g.linked = item[old].linked
                 /\ g.refcount = item[old].refcount /\ g.val = item[old].val /\ g.cas = n /\ g.ver = item[old].ver
                 /\ item' = [L EXCEPT ![old] = g]
    <3>1. PICK g : g = [item[old] EXCEPT !.cas = n]
      OBVIOUS
    <3>2. /\ g \in Headers /\ g.key = item[old].key /\ g.lru = item[old].lru /\ g.linked = item[old].linked
          /\ g.refcount = item[old].refcount /\ g.val = item[old].val /\ g.cas = n /\ g.ver = item[old].ver
      BY <1>10, <2>2, <3>1 DEF Headers
    <3>3. L[old] = item[old]
      BY <1>1, <1>11, <2>1
    <3>4. item' = [L EXCEPT ![old] = g]
      BY <1>6, <1>20, <2>1, <3>1, <3>3
    <3> QED BY <2>2, <3>2, <3>4
  <2>4. /\ L \in [Chunks -> Headers] /\ item'[old] = g
        /\ \A j \in Chunks : j # i /\ j # old => item'[j] = item[j]
    BY <1>1, <1>7, <1>11, <2>1, <2>3
  <2>5. Held(c'[w], old) = Held(c[w], old) /\ Held(c[w], old) \in Nat
    BY <1>3 DEF Held, Hold
  <2>6. ~item[old].linked /\ g.refcount # 0
    <3>1. Hold(Unqueues(w, old) \/ item[old].linked) \in Nat
      BY DEF Hold
    <3>2. item[old].refcount # 0
      BY <2>2, <2>5, <3>1
    <3>3. old # None
      BY <2>1, ItemsAssumption
    <3> QED BY <1>7, <2>2, <2>3, <3>2, <3>3
  <2>7. Touched(w, k, old, g)
    <3>1. WorkerGain(w, old, g) = 0
      <4>1. Hold(Unqueues(w, old)' \/ g.linked) = 0 /\ Hold(Unqueues(w, old) \/ item[old].linked) = 0
        BY <1>9, <2>3, <2>6 DEF Hold
      <4> QED BY <2>2, <2>3, <2>5, <4>1 DEF WorkerGain
    <3>2. \A q \in Queues : old \in At(q)' <=>
            q = g.lru /\ (Unqueues(w, old)' \/ (g.linked /\ ~Requeues(w, old)'))
      BY <1>9, <1>12, <2>1, <2>2, <2>3, <2>6
    <3>3. /\ item[old].key = k /\ item_lock[k] \in {None, w}
          /\ item[old].linked \/ old \in {c[w].it, c[w].old, c[w].new}
          /\ item[old].val = Empty => g.val = Empty
      BY <1>7, <2>1, <2>2, <2>3
    <3>4. /\ g \in Headers /\ g.key = k /\ g.lru \in Queues
          /\ g.linked => hash'[k] = old /\ g.cas > 0
          /\ g.cas <= cas_id' /\ g.ver <= cas_id'
      <4>1. g.ver \in Nat /\ g.ver <= cas_id
        BY <2>2, <2>3 DEF Headers
      <4> QED BY <1>10, <2>2, <2>3, <2>6, <4>1
    <3>5. item'[old] = Settled(g)
      BY <2>4, <2>6 DEF Settled
    <3>6. /\ Unqueues(w, old)' => ~g.linked
          /\ Requeues(w, old)' => g.linked
          /\ ~Fresh(w, old)' /\ (Incring(w, old)' => Incring(w, old))
      BY <1>9
    <3> QED BY <1>3, <1>6, <2>2, <3>1, <3>2, <3>3, <3>4, <3>5, <3>6, WorkerTouched
  <2>8. item' = [j \in Chunks |-> item'[j]]
    BY <2>3, <2>4
  <2>9. \A j \in Chunks : Untouched(w, j) \/ \E d : Touched(w, k, j, d)
    BY <1>14, <1>15, <2>4, <2>7
  <2> QED BY <1>3, <1>6, <1>12, <1>16, <1>17, <1>18, <2>8, <2>9, WorkerKept
<1> QED BY <1>19, <1>20

LEMMA SuccessorType == \A v \in (0..MaxVal) \cup {Empty} : Successor(v) \in 0..MaxVal
<1>1. MaxVal \in Nat
  BY ItemsAssumption
<1>2. \A n \in Nat : n % (MaxVal + 1) \in 0..MaxVal
  BY <1>1
<1>3. \A v \in (0..MaxVal) \cup {Empty} : v + 1 \in Nat
  BY <1>1 DEF Empty
<1> QED BY <1>2, <1>3 DEF Successor

\* A chunk that is free.
LEMMA FreeChunk ==
  ASSUME IInv, NEW i \in Free
  PROVE  /\ i \in Chunks /\ item[i].refcount = 0 /\ ~item[i].linked
         /\ \A r \in Queues : i \notin At(r)
         /\ \A v \in Workers : /\ c[v].it # i /\ c[v].old # i /\ c[v].new # i
                               /\ ~Unqueues(v, i) /\ ~Requeues(v, i)
<1>1. i \in Chunks /\ item[i] = Slabbed
  BY DEF Free
<1>2. item[i].refcount = 0 /\ item[i].lru = "none"
  BY <1>1 DEF Slabbed
<1>3. \A r \in Queues : i \notin At(r)
  BY <1>1, <1>2 DEF IInv, Placed, Queues
<1> QED BY <1>1, <1>2, <1>3, Unheld

\* The header of a chunk when it is allocated.
AllocHeader(key, val, expired) ==
  [Slabbed EXCEPT !.key = key, !.val = val, !.expired = expired, !.refcount = 1,
                  !.lru = IF settings.lru_maintainer_thread THEN "hot" ELSE "cold"]

LEMMA AllocHeaderType ==
  ASSUME NEW k \in Keys, NEW v \in (0..MaxVal) \cup {Empty}, NEW e \in BOOLEAN
  PROVE  \E g : /\ g = AllocHeader(k, v, e)
               /\ g \in Headers /\ g.key = k /\ g.lru \in Queues /\ ~g.linked /\ g.refcount = 1
               /\ g.val = v /\ g.cas = 0 /\ g.ver = 0
<1>1. PICK q \in Queues : q = IF settings.lru_maintainer_thread THEN "hot" ELSE "cold"
  BY DEF Queues
<1>2. PICK h : h = [Slabbed EXCEPT !.key = k, !.val = v, !.expired = e, !.refcount = 1, !.lru = q]
  OBVIOUS
<1>3. h = AllocHeader(k, v, e)
  BY <1>1, <1>2 DEF AllocHeader
<1>4. /\ h \in Headers /\ h.key = k /\ h.lru = q /\ ~h.linked /\ h.refcount = 1
      /\ h.val = v /\ h.cas = 0 /\ h.ver = 0
  BY <1>2 DEF Slabbed, Headers
<1> QED BY <1>3, <1>4

LEMMA AllocUpload ==
  ASSUME IInv, NEW w \in Workers, Running(w, "alloc"), c[w].old = None,
         NEW i \in Free, NEW v \in SetValues,
         item' = [item EXCEPT ![i] = AllocHeader(c[w].key, v, FALSE)],
         c' = [c EXCEPT ![w].pc = "nread", ![w].it = i, ![w].tries = 0],
         UNCHANGED <<settings, hash, queue, cas_id, item_lock, lru_lock, pull, crawlers>>
  PROVE  IInv'
<1>1. IsTable(c) /\ IsConnection(c[w]) /\ WorkerOK(w) /\ item \in [Chunks -> Headers]
  BY DEF IInv, TypesOK
<1>2. /\ IsTable(c)' /\ IsConnection(c'[w]) /\ OtherWorkers(w) /\ pull[w] = None
      /\ c[w].pc = "alloc" /\ c'[w].pc = "nread"
      /\ c'[w].cmd = c[w].cmd /\ c'[w].key = c[w].key /\ c'[w].it = i
      /\ c'[w].old = c[w].old /\ c'[w].new = c[w].new /\ c'[w].todo = c[w].todo
  BY <1>1 DEF Running, OtherWorkers, IsTable, IsConnection, Fields
<1>3. PICK k \in Keys : /\ k = c[w].key /\ i \in Chunks /\ i # None
                        /\ c[w].it = None /\ c[w].old = None /\ c[w].new = None
  BY <1>1, <1>2, FreeChunk, ItemsAssumption DEF WorkerOK, ConnectionOK
<1>4. /\ item[i].refcount = 0 /\ ~item[i].linked /\ (\A r \in Queues : i \notin At(r))
      /\ ~Unqueues(w, i) /\ ~Requeues(w, i)
  BY FreeChunk
<1>5. PICK h : /\ h \in Headers /\ h.key = k /\ h.lru \in Queues /\ ~h.linked /\ h.refcount = 1
               /\ h.cas = 0 /\ h.ver = 0 /\ item' = [item EXCEPT ![i] = h]
  <2>1. v \in (0..MaxVal) \cup {Empty}
    BY ItemsAssumption
  <2>2. PICK e \in BOOLEAN : e = FALSE
    OBVIOUS
  <2>3. PICK h : /\ h = AllocHeader(k, v, e)
                 /\ h \in Headers /\ h.key = k /\ h.lru \in Queues /\ ~h.linked /\ h.refcount = 1
                 /\ h.val = v /\ h.cas = 0 /\ h.ver = 0
    BY <1>3, <2>1, <2>2, AllocHeaderType
  <2> QED BY <1>3, <2>2, <2>3
<1>6. /\ item'[i] = Settled(h) /\ \A j \in Chunks \ {i} : item'[j] = item[j]
      /\ item' = [j \in Chunks |-> item'[j]]
  <2>1. item'[i] = h /\ \A j \in Chunks \ {i} : item'[j] = item[j]
    BY <1>1, <1>3, <1>5
  <2>2. item' = [j \in Chunks |-> item'[j]]
    BY <1>1, <1>5
  <2>3. Settled(h) = h
    BY <1>5 DEF Settled
  <2> QED BY <2>1, <2>2, <2>3
<1>7. /\ Held(c[w], i) = 0 /\ Held(c'[w], i) = 1
      /\ ~Unqueues(w, i)' /\ ~Requeues(w, i)' /\ ~Incring(w, i)'
  <2>1. Held(c[w], i) = 0 /\ Held(c'[w], i) = 1
    BY <1>2, <1>3 DEF Held, Hold
  <2>2. ~Unqueues(w, i)' /\ ~Requeues(w, i)' /\ ~Incring(w, i)'
    BY <1>2, <1>3 DEF Unqueues, Requeues, Incring
  <2> QED BY <2>1, <2>2
<1>8. QueueStep(w) /\ CrawlersStay /\ \A j, r : j \in At(r)' <=> j \in At(r)
  BY SameQueues
<1>9. cas_id \in Nat
  BY DEF IInv, TypesOK
<1>10. Touched(w, k, i, h)
  <2>1. WorkerGain(w, i, h) = 0
    <3>1. Hold(Unqueues(w, i)' \/ h.linked) = 0 /\ Hold(Unqueues(w, i) \/ item[i].linked) = 0
      BY <1>4, <1>5, <1>7 DEF Hold
    <3> QED BY <1>4, <1>5, <1>7, <3>1 DEF WorkerGain
  <2>2. \A q \in Queues : i \in At(q)' <=>
          q = h.lru /\ (Unqueues(w, i)' \/ (h.linked /\ ~Requeues(w, i)'))
    BY <1>4, <1>5, <1>7, <1>8
  <2>3. h.cas <= cas_id' /\ h.ver <= cas_id'
    BY <1>5, <1>9
  <2>4. Fresh(w, i)' => /\ Fresh(w, i) \/ item[i].refcount = 0
                        /\ ~h.linked /\ c'[w].old # i /\ ~(c'[w].it = i /\ c'[w].new = i)
    BY <1>2, <1>3, <1>4, <1>5
  <2>5. item[i].refcount \in Nat
    BY <1>4
  <2> QED BY <1>2, <1>3, <1>4, <1>5, <1>6, <1>7, <2>1, <2>2, <2>3, <2>4, <2>5, WorkerTouched
<1>11. \A j \in Chunks \ {i} : Untouched(w, j)
  <2> SUFFICES ASSUME NEW j \in Chunks \ {i} PROVE Untouched(w, j)
    OBVIOUS
  <2>1. j \notin {c[w].it, c[w].old, c[w].new} /\ j \notin {c'[w].it, c'[w].old, c'[w].new}
    BY <1>2, <1>3, ItemsAssumption
  <2> QED BY <1>6, <1>8, <2>1, Elsewhere
<1>12. KeyOK(w)' /\ CasGiven(w) /\ LockStep(w, k) /\ HashStep(w, k)
  <2>1. ConnectionOK(c'[w])
    BY <1>1, <1>2, <1>3, ItemsAssumption DEF WorkerOK, ConnectionOK, Locked, Pcs
  <2>2. ~Commands(w)' /\ ~Pending(w)'
    BY <1>2 DEF Commands, Locked, Pending
  <2> QED BY <1>2, <2>1, <2>2 DEF KeyOK, CasGiven, LockStep, HashStep
<1>13. \A j \in Chunks : j \in {c'[w].it, c'[w].old, c'[w].new} =>
         c'[w].key = k /\ (item[j].key = k \/ item[j].refcount = 0)
  BY <1>2, <1>3, <1>4, ItemsAssumption
<1>14. hash[k] # i
  BY <1>3, <1>4 DEF IInv, TableOK
<1> QED BY <1>2, <1>3, <1>6, <1>8, <1>10, <1>11, <1>12, <1>13, <1>14, WorkerOne

LEMMA AllocReplace ==
  ASSUME IInv, NEW w \in Workers, Running(w, "alloc"), c[w].old # None, NEW i \in Free,
         item' = [item EXCEPT
           ![i] = AllocHeader(c[w].key, Successor(item[c[w].old].val), item[c[w].old].expired),
           ![c[w].old].linked = FALSE],
         hash' = [hash EXCEPT ![c[w].key] = None],
         c' = [c EXCEPT ![w].pc = "swap", ![w].new = i, ![w].tries = 0],
         UNCHANGED <<settings, queue, cas_id, item_lock, lru_lock, pull, crawlers>>
  PROVE  IInv'
<1>1. IsTable(c) /\ IsConnection(c[w]) /\ WorkerOK(w) /\ item \in [Chunks -> Headers]
  BY DEF IInv, TypesOK
<1>2. /\ IsTable(c)' /\ IsConnection(c'[w]) /\ OtherWorkers(w) /\ pull[w] = None
      /\ c[w].pc = "alloc" /\ c'[w].pc = "swap"
      /\ c'[w].cmd = c[w].cmd /\ c'[w].key = c[w].key /\ c'[w].unique = c[w].unique
      /\ c'[w].it = c[w].it /\ c'[w].old = c[w].old /\ c'[w].new = i /\ c'[w].todo = c[w].todo
  BY <1>1 DEF Running, OtherWorkers, IsTable, IsConnection, Fields
<1>3. PICK k \in Keys, old \in Chunks :
        /\ k = c[w].key /\ old = c[w].old /\ old # None /\ i \in Chunks /\ i # None
        /\ item_lock[k] = w /\ hash[k] = old /\ item[old].linked /\ c[w].new = None
        /\ c[w].it # old /\ c[w].it # i /\ old # i
        /\ c[w].cmd = "incr" \/ (c[w].cmd = "append" /\ c[w].it # None)
  <2>1. i \in Chunks /\ i # None /\ c[w].it # i /\ c[w].old # i
    BY FreeChunk, ItemsAssumption
  <2>2. /\ c[w].key \in Keys /\ c[w].old \in Chunks /\ c[w].new = None /\ c[w].it # c[w].old
        /\ c[w].cmd = "incr" \/ (c[w].cmd = "append" /\ c[w].it # None)
    BY <1>1, <1>2, ItemsAssumption DEF WorkerOK, ConnectionOK
  <2>3. item_lock[c[w].key] = w /\ hash[c[w].key] = c[w].old
    BY <1>1, <1>2 DEF WorkerOK, Commands
  <2>4. item[c[w].old].linked
    BY <2>2, <2>3 DEF IInv, TableOK
  <2> QED BY <2>1, <2>2, <2>3, <2>4
<1>4. /\ item[i].refcount = 0 /\ ~item[i].linked /\ (\A r \in Queues : i \notin At(r))
      /\ ~Unqueues(w, i) /\ ~Requeues(w, i)
  BY FreeChunk
<1>5. /\ item[old].key = k /\ item[old] \in Headers /\ item[old].refcount \in Nat
      /\ item[old].lru \in Queues
      /\ item[old].refcount >= Held(c[w], old) + Hold(Unqueues(w, old) \/ item[old].linked)
      /\ Held(c[w], old) >= 1
      /\ \A q \in Queues : old \in At(q) <=>
           q = item[old].lru /\ (Unqueues(w, old) \/ (item[old].linked /\ ~Requeues(w, old)))
      /\ item[old].cas > 0 /\ item[old].cas <= cas_id /\ item[old].ver <= cas_id
  BY <1>2, <1>3, WorkerItem
<1>6. PICK h : /\ h \in Headers /\ h.key = k /\ h.lru \in Queues /\ ~h.linked /\ h.refcount = 1
               /\ h.cas = 0 /\ h.ver = 0
               /\ h = AllocHeader(k, Successor(item[old].val), item[old].expired)
  <2>1. item[old].val \in (0..MaxVal) \cup {Empty} /\ item[old].expired \in BOOLEAN
    BY <1>5 DEF Headers
  <2>2. PICK v \in 0..MaxVal, e \in BOOLEAN : v = Successor(item[old].val) /\ e = item[old].expired
    BY <2>1, SuccessorType
  <2>3. v \in (0..MaxVal) \cup {Empty}
    BY <2>2
  <2>4. PICK h : /\ h = AllocHeader(k, v, e)
                 /\ h \in Headers /\ h.key = k /\ h.lru \in Queues /\ ~h.linked /\ h.refcount = 1
                 /\ h.val = v /\ h.cas = 0 /\ h.ver = 0
    BY <1>3, <2>2, <2>3, AllocHeaderType
  <2> QED BY <2>2, <2>4
<1>7. PICK g : /\ g \in Headers /\ g.key = k /\ g.lru = item[old].lru /\ ~g.linked
               /\ g.refcount = item[old].refcount /\ g.refcount # 0 /\ g.val = item[old].val
               /\ g.cas = item[old].cas /\ g.ver = item[old].ver
               /\ g = [item[old] EXCEPT !.linked = FALSE]
  <2>1. item[old].refcount # 0
    BY <1>3, Unheld
  <2>2. PICK g : g = [item[old] EXCEPT !.linked = FALSE]
    OBVIOUS
  <2>3. /\ g \in Headers /\ g.key = item[old].key /\ g.lru = item[old].lru /\ g.linked = FALSE
        /\ g.refcount = item[old].refcount /\ g.val = item[old].val
        /\ g.cas = item[old].cas /\ g.ver = item[old].ver
    BY <1>5, <2>2 DEF Headers
  <2> QED BY <1>5, <2>1, <2>2, <2>3
<1>8. /\ item' = [[item EXCEPT ![i] = h] EXCEPT ![old] = g]
      /\ item'[i] = h /\ item'[old] = g /\ (\A j \in Chunks : j # i /\ j # old => item'[j] = item[j])
      /\ item' = [j \in Chunks |-> item'[j]]
  <2>1. item' = [[item EXCEPT ![i] = h] EXCEPT ![old] = g]
    BY <1>1, <1>3, <1>6, <1>7
  <2> QED BY <1>1, <1>3, <2>1
<1>9. /\ Held(c[w], i) = 0 /\ Held(c'[w], i) = 1
      /\ Held(c[w], old) = 1 /\ Held(c'[w], old) = 1
      /\ ~Unqueues(w, i)' /\ ~Incring(w, i)'
      /\ Unqueues(w, old)' /\ ~Unqueues(w, old) /\ ~Requeues(w, old)
      /\ ~Fresh(w, old)' /\ (Incring(w, old)' => Incring(w, old))
      /\ \A j \in Chunks : ~Requeues(w, j)'
  <2>1. /\ Held(c[w], i) = 0 /\ Held(c'[w], i) = 1
        /\ Held(c[w], old) = 1 /\ Held(c'[w], old) = 1
    BY <1>2, <1>3 DEF Held, Hold
  <2>2. /\ ~Unqueues(w, i)' /\ ~Incring(w, i)'
        /\ Unqueues(w, old)' /\ ~Unqueues(w, old) /\ ~Requeues(w, old)
        /\ \A j \in Chunks : ~Requeues(w, j)'
    BY <1>2, <1>3 DEF Unqueues, Requeues, Incring
  <2>3. ~Fresh(w, old)' /\ (Incring(w, old)' => Incring(w, old))
    BY <1>2, <1>3 DEF Fresh, Incring, Commands, Locked
  <2> QED BY <2>1, <2>2, <2>3
<1>10. QueueStep(w) /\ CrawlersStay /\ \A j, r : j \in At(r)' <=> j \in At(r)
  BY SameQueues
<1>11. cas_id \in Nat
  BY DEF IInv, TypesOK
<1>12. Touched(w, k, i, h)
  <2>1. WorkerGain(w, i, h) = 0
    <3>1. Hold(Unqueues(w, i)' \/ h.linked) = 0 /\ Hold(Unqueues(w, i) \/ item[i].linked) = 0
      BY <1>4, <1>6, <1>9 DEF Hold
    <3> QED BY <1>4, <1>6, <1>9, <3>1 DEF WorkerGain
  <2>2. \A q \in Queues : i \in At(q)' <=>
          q = h.lru /\ (Unqueues(w, i)' \/ (h.linked /\ ~Requeues(w, i)'))
    BY <1>4, <1>6, <1>9, <1>10
  <2>3. h.cas <= cas_id' /\ h.ver <= cas_id'
    BY <1>6, <1>11
  <2>4. Fresh(w, i)' => /\ Fresh(w, i) \/ item[i].refcount = 0
                        /\ ~h.linked /\ c'[w].old # i /\ ~(c'[w].it = i /\ c'[w].new = i)
    BY <1>2, <1>3, <1>4, <1>6
  <2>5. item[i].refcount \in Nat /\ i \in Chunks
    BY <1>3, <1>4
  <2>6. item'[i] = Settled(h)
    <3>1. item'[i] = h
      BY <1>8
    <3>2. h.refcount # 0
      BY <1>6
    <3> QED BY <3>1, <3>2 DEF Settled
  <2> QED BY <1>2, <1>4, <1>6, <1>9, <2>1, <2>2, <2>3, <2>4, <2>5, <2>6, WorkerTouched
<1>13. Touched(w, k, old, g)
  <2>1. WorkerGain(w, old, g) = 0
    <3>1. Hold(Unqueues(w, old)' \/ g.linked) = 1 /\ Hold(Unqueues(w, old) \/ item[old].linked) = 1
      BY <1>3, <1>7, <1>9 DEF Hold
    <3> QED BY <1>5, <1>7, <1>9, <3>1 DEF WorkerGain
  <2>2. \A q \in Queues : old \in At(q)' <=>
          q = g.lru /\ (Unqueues(w, old)' \/ (g.linked /\ ~Requeues(w, old)'))
    BY <1>3, <1>5, <1>7, <1>9, <1>10
  <2>3. /\ item[old].key = k /\ item_lock[k] \in {None, w}
        /\ item[old].linked \/ old \in {c[w].it, c[w].old, c[w].new}
        /\ item[old].val = Empty => g.val = Empty
    BY <1>3, <1>5, <1>7
  <2>4. g.cas <= cas_id' /\ g.ver <= cas_id' /\ item'[old] = Settled(g) /\ ~Requeues(w, old)'
    BY <1>3, <1>5, <1>7, <1>8, <1>9 DEF Settled
  <2>5. g.lru \in Queues
    BY <1>5, <1>7
  <2> QED BY <1>2, <1>5, <1>7, <1>9, <2>1, <2>2, <2>3, <2>4, <2>5, WorkerTouched
<1>14. \A j \in Chunks : j # i /\ j # old => Untouched(w, j)
  <2> SUFFICES ASSUME NEW j \in Chunks, j # i, j # old PROVE Untouched(w, j)
    OBVIOUS
  <2>1. /\ Unqueues(w, j)' <=> Unqueues(w, j)
        /\ Requeues(w, j)' <=> Requeues(w, j)
        /\ Fresh(w, j)' => Fresh(w, j)
        /\ Incring(w, j)' => Incring(w, j)
    BY <1>2, <1>3 DEF Unqueues, Requeues, Fresh, Incring
  <2>2. c'[w].new = j <=> c[w].new = j
    BY <1>2, <1>3, ItemsAssumption
  <2> QED BY <1>2, <1>8, <1>10, <2>1, <2>2, WorkerUntouched
<1>15. KeyOK(w)' /\ CasGiven(w) /\ LockStep(w, k) /\ HashStep(w, k)
  <2>1. ConnectionOK(c'[w])
    BY <1>1, <1>2, <1>3, ItemsAssumption DEF WorkerOK, ConnectionOK, Locked, Pcs
  <2>2. Pending(w)
    BY <1>2, <1>3 DEF Pending
  <2>3. hash'[k] = None
    BY <1>3 DEF IInv, TypesOK
  <2> QED BY <1>2, <1>3, <2>1, <2>2, <2>3 DEF KeyOK, CasGiven, LockStep, HashStep
<1>16. \A j \in Chunks : j \in {c'[w].it, c'[w].old, c'[w].new} =>
         c'[w].key = k /\ (item[j].key = k \/ item[j].refcount = 0)
  BY <1>1, <1>2, <1>3, <1>4 DEF WorkerOK
<1>17. Rehashed(k)
  <2>1. hash'[k] = None
    BY <1>3 DEF IInv, TypesOK
  <2>2. hash[k] = old /\ ~item'[old].linked
    BY <1>3, <1>7, <1>8
  <2> QED BY <2>1, <2>2 DEF Rehashed
<1>18. \A j \in Chunks : Untouched(w, j) \/ \E d : Touched(w, k, j, d)
  BY <1>12, <1>13, <1>14
<1> QED BY <1>2, <1>8, <1>10, <1>15, <1>16, <1>17, <1>18, WorkerKept

LEMMA AllocInv == ASSUME IInv, NEW w \in Workers, slabs_alloc(w) PROVE IInv'
<1>1. PICK i \in Free :
        \/ /\ c[w].old = None
           /\ \E v \in SetValues : item' = [item EXCEPT ![i] = AllocHeader(c[w].key, v, FALSE)]
           /\ c' = [c EXCEPT ![w].pc = "nread", ![w].it = i, ![w].tries = 0]
           /\ UNCHANGED hash
        \/ /\ c[w].old # None
           /\ item' = [item EXCEPT
                ![i] = AllocHeader(c[w].key, Successor(item[c[w].old].val), item[c[w].old].expired),
                ![c[w].old].linked = FALSE]
           /\ hash' = [hash EXCEPT ![c[w].key] = None]
           /\ c' = [c EXCEPT ![w].pc = "swap", ![w].new = i, ![w].tries = 0]
  BY DEF slabs_alloc, AllocHeader
<1>2. Running(w, "alloc") /\ UNCHANGED <<settings, queue, cas_id, item_lock, lru_lock, pull, crawlers>>
  BY DEF slabs_alloc
<1>3. CASE c[w].old = None
  BY <1>1, <1>2, <1>3, AllocUpload
<1>4. CASE c[w].old # None
  BY <1>1, <1>2, <1>4, AllocReplace
<1> QED BY <1>3, <1>4

\* The items a command gives back.
Releasing(w, k) ==
  /\ pull[w] = None /\ c[w].pc = "release" /\ k = c[w].key /\ item_lock[k] = w
  /\ c'[w].pc \in {"new_cmd", "drop"} /\ c'[w].cmd = "none"
  /\ c'[w].it = c[w].it /\ c'[w].old = None /\ c'[w].new = None
  /\ (c[w].it # None => c[w].it # c[w].old /\ c[w].it # c[w].new)
  /\ (c[w].new # None => c[w].old # c[w].new)
  /\ UNCHANGED <<settings, hash, queue, cas_id, lru_lock, pull, crawlers>>

LEMMA ReleaseFacts ==
  ASSUME NEW w \in Workers, NEW k \in Keys, Releasing(w, k), NEW i \in Chunks
  PROVE  /\ ~Unqueues(w, i) /\ ~Requeues(w, i) /\ ~Unqueues(w, i)' /\ ~Requeues(w, i)'
         /\ ~Fresh(w, i)' /\ ~Incring(w, i)'
         /\ c[w].old = i => Held(c[w], i) = 1 /\ Held(c'[w], i) = 0
         /\ c[w].new = i => Held(c[w], i) = 1 /\ Held(c'[w], i) = 0
<1>1. i # None
  BY ItemsAssumption
<1>2. ~Unqueues(w, i) /\ ~Requeues(w, i) /\ ~Unqueues(w, i)' /\ ~Requeues(w, i)'
  BY DEF Releasing, Unqueues, Requeues
<1>3. ~Fresh(w, i)' /\ ~Incring(w, i)'
  BY <1>1 DEF Releasing, Fresh, Incring
<1>4. c[w].old = i => Held(c[w], i) = 1 /\ Held(c'[w], i) = 0
  BY <1>1 DEF Releasing, Held, Hold
<1>5. c[w].new = i => Held(c[w], i) = 1 /\ Held(c'[w], i) = 0
  BY <1>1 DEF Releasing, Held, Hold
<1> QED BY <1>2, <1>3, <1>4, <1>5

LEMMA ReleaseTouched ==
  ASSUME IInv, NEW w \in Workers, NEW k \in Keys, Releasing(w, k),
         NEW i \in Chunks, i \in {c[w].old, c[w].new},
         NEW h, h = Less(item[i], 1) \/ (h = item[i] /\ Leaks(w) /\ i = c[w].old), item'[i] = Settled(h)
  PROVE  Touched(w, k, i, h) /\ item[i].key = k /\ item[i].refcount >= 1
<1>1. /\ pull[w] = None /\ pull' = pull /\ queue' = queue /\ hash' = hash /\ cas_id' = cas_id
      /\ k = c[w].key /\ item_lock[k] = w /\ i \in {c[w].it, c[w].old, c[w].new}
  BY DEF Releasing
<1>2. /\ item[i].key = k /\ item[i] \in Headers /\ item[i].refcount \in Nat
      /\ item[i].lru \in Queues
      /\ item[i].refcount >= Held(c[w], i) + Hold(Unqueues(w, i) \/ item[i].linked)
      /\ \A q \in Queues : i \in At(q) <=>
           q = item[i].lru /\ (Unqueues(w, i) \/ (item[i].linked /\ ~Requeues(w, i)))
      /\ item[i].linked => hash[k] = i /\ item[i].cas > 0
      /\ item[i].cas <= cas_id /\ item[i].ver <= cas_id
  BY <1>1, WorkerItem
<1>3. /\ Held(c[w], i) = 1 /\ Held(c'[w], i) = 0
      /\ ~Unqueues(w, i) /\ ~Requeues(w, i) /\ ~Unqueues(w, i)' /\ ~Requeues(w, i)'
      /\ ~Fresh(w, i)' /\ ~Incring(w, i)'
  BY ReleaseFacts
<1>4. item[i].refcount >= 1
  <2>1. Hold(Unqueues(w, i) \/ item[i].linked) \in Nat
    BY DEF Hold
  <2> QED BY <1>2, <1>3, <2>1
<1>5. /\ h \in Headers /\ h.key = k /\ h.lru = item[i].lru /\ h.linked = item[i].linked
      /\ h.val = item[i].val /\ h.cas = item[i].cas /\ h.ver = item[i].ver
      /\ h.refcount = item[i].refcount - 1 \/ (h.refcount = item[i].refcount /\ Leaks(w) /\ i = c[w].old)
  <2>1. CASE h = Less(item[i], 1)
    BY <1>2, <1>4, <2>1, LessTyped
  <2>2. CASE h = item[i] /\ Leaks(w) /\ i = c[w].old
    BY <1>2, <2>2
  <2> QED BY <2>1, <2>2
<1>6. /\ Hold(Unqueues(w, i)' \/ h.linked) = Hold(Unqueues(w, i) \/ item[i].linked)
      /\ Hold(Unqueues(w, i) \/ item[i].linked) \in Nat
  BY <1>3, <1>5 DEF Hold
<1>7. \/ WorkerGain(w, i, h) = 0
      \/ WorkerGain(w, i, h) = 1 /\ h.val = Empty /\ Incring(w, i)
  <2>1. CASE h.refcount = item[i].refcount - 1
    BY <1>2, <1>3, <1>6, <2>1 DEF WorkerGain
  <2>2. CASE h.refcount = item[i].refcount /\ Leaks(w) /\ i = c[w].old
    <3>1. WorkerGain(w, i, h) = 1
      BY <1>2, <1>3, <1>6, <2>2 DEF WorkerGain
    <3>2. item[i].val = Empty
      BY <2>2 DEF Leaks
    <3>3. Incring(w, i)
      BY <2>2 DEF Incring, Commands, Locked, Leaks, Releasing
    <3> QED BY <1>5, <3>1, <3>2, <3>3
  <2> QED BY <1>5, <2>1, <2>2
<1>8. \A q \in Queues : i \in At(q)' <=>
        q = h.lru /\ (Unqueues(w, i)' \/ (h.linked /\ ~Requeues(w, i)'))
  <2>1. \A q \in Queues : i \in At(q)' <=> i \in At(q)
    BY <1>1 DEF At
  <2> QED BY <1>2, <1>3, <1>5, <2>1
<1>9. /\ item[i].key = k /\ item_lock[k] \in {None, w}
      /\ item[i].linked \/ i \in {c[w].it, c[w].old, c[w].new}
      /\ item[i].val = Empty => h.val = Empty
  BY <1>1, <1>2, <1>5
<1>10. /\ h \in Headers /\ h.key = k /\ h.lru \in Queues
       /\ h.linked => hash'[k] = i /\ h.cas > 0
       /\ h.cas <= cas_id' /\ h.ver <= cas_id'
  BY <1>1, <1>2, <1>5
<1>11. \/ WorkerGain(w, i, h) = 0 /\ (Incring(w, i)' => Incring(w, i) \/ item[i].refcount < MaxRefs)
       \/ WorkerGain(w, i, h) = 1 /\ h.val = Empty /\ Incring(w, i) /\ ~Incring(w, i)'
  BY <1>3, <1>7
<1>12. Touched(w, k, i, h)
  BY <1>1, <1>2, <1>3, <1>8, <1>9, <1>10, <1>11, WorkerTouched
<1> QED BY <1>2, <1>4, <1>12

LEMMA ReleaseInv == ASSUME IInv, NEW w \in Workers, Release(w) PROVE IInv'
<1>1. IsTable(c) /\ IsConnection(c[w]) /\ WorkerOK(w) /\ item \in [Chunks -> Headers]
  BY DEF IInv, TypesOK
<1>2. /\ IsTable(c)' /\ IsConnection(c'[w]) /\ OtherWorkers(w) /\ pull[w] = None /\ c[w].pc = "release"
      /\ c'[w].pc \in {"new_cmd", "drop"} /\ c'[w].cmd = "none" /\ c'[w].it = c[w].it
      /\ c'[w].old = None /\ c'[w].new = None /\ c'[w].todo = <<>>
      /\ c[w].it = None => c'[w].pc = "new_cmd" /\ c'[w].key = None
      /\ c[w].it # None => c'[w].pc = "drop" /\ c'[w].key = c[w].key
  <2>1. c[w].pc = "release" /\ pull[w] = None
    BY DEF Release, Running
  <2>2. CASE c[w].it = None
    <3>1. c' = [c EXCEPT ![w] = Connection]
      BY <2>2 DEF Release
    <3> QED BY <1>1, <2>1, <2>2, <3>1 DEF Connection, OtherWorkers, IsTable, IsConnection, Fields
  <2>3. CASE c[w].it # None
    <3>1. PICK d : d = [Connection EXCEPT !.pc = "drop", !.key = c[w].key, !.it = c[w].it]
      OBVIOUS
    <3>2. c' = [c EXCEPT ![w] = d]
      BY <2>3, <3>1 DEF Release
    <3>3. /\ IsConnection(d) /\ d.pc = "drop" /\ d.cmd = "none" /\ d.it = c[w].it /\ d.key = c[w].key
          /\ d.old = None /\ d.new = None /\ d.todo = <<>>
      BY <3>1 DEF Connection, IsConnection, Fields
    <3>4. c'[w] = d /\ IsTable(c)' /\ OtherWorkers(w)
      BY <1>1, <3>2 DEF OtherWorkers, IsTable
    <3> QED BY <2>1, <2>3, <3>3, <3>4
  <2> QED BY <2>2, <2>3
<1>3. /\ UNCHANGED <<settings, hash, queue, cas_id, lru_lock, pull, crawlers>>
      /\ \E old \in {c[w].old} \cup (IF Leaks(w) THEN {None} ELSE {}) :
           item' = drop(drop(item, old), c[w].new)
      /\ Unlock(c[w].key)
  BY DEF Release
<1>4. PICK k \in Keys : /\ k = c[w].key /\ item_lock[k] = w
                        /\ c[w].old \in Chunks \cup {None} /\ c[w].new \in Chunks \cup {None}
                        /\ c[w].it \in Chunks \cup {None}
                        /\ (c[w].it # None => c[w].it # c[w].old /\ c[w].it # c[w].new)
                        /\ (c[w].new # None => c[w].old # c[w].new)
  BY <1>1, <1>2 DEF WorkerOK, ConnectionOK, Commands, Locked
<1>5. Releasing(w, k)
  BY <1>2, <1>3, <1>4 DEF Releasing
<1>6. /\ \A i \in Chunks : /\ ~Unqueues(w, i) /\ ~Requeues(w, i) /\ ~Unqueues(w, i)' /\ ~Requeues(w, i)'
                           /\ ~Fresh(w, i)' /\ ~Incring(w, i)'
      /\ None \notin Chunks
  BY <1>5, ReleaseFacts, ItemsAssumption
<1>7. \A i \in Chunks : i \in {c[w].old, c[w].new} =>
        item[i].refcount >= 1 /\ item[i].key = k
  <2> SUFFICES ASSUME NEW i \in Chunks, i \in {c[w].old, c[w].new}
               PROVE  item[i].refcount >= 1 /\ item[i].key = k
    OBVIOUS
  <2>1. item[i].key = k
    BY <1>1, <1>4 DEF WorkerOK
  <2>2. item[i].refcount # 0 /\ item[i].refcount \in Nat
    BY <1>1, Unheld DEF Headers
  <2> QED BY <2>1, <2>2
\* The old item.
<1> PICK old : /\ old = c[w].old \/ (old = None /\ Leaks(w))
               /\ item' = drop(drop(item, old), c[w].new)
  BY <1>3
<1> DEFINE I == drop(item, old)
<1>8. /\ I \in [Chunks -> Headers]
      /\ \A j \in Chunks : j # c[w].old => I[j] = item[j]
      /\ c[w].old # None => \E h : /\ I[c[w].old] = Settled(h)
                                   /\ h = Less(item[c[w].old], 1) \/ (h = item[c[w].old] /\ Leaks(w))
  <2>1. CASE old = None /\ Leaks(w) /\ c[w].old # None
    <3>1. I = item
      BY <2>1 DEF drop
    <3>2. c[w].old \in Chunks /\ item[c[w].old].refcount # 0
      BY <1>4, <1>7, <2>1, Unheld
    <3>3. item[c[w].old] = Settled(item[c[w].old])
      BY <3>2 DEF Settled
    <3> QED BY <1>1, <2>1, <3>1, <3>3
  <2>2. CASE c[w].old = None
    <3>1. I = item
      BY <2>2 DEF drop
    <3> QED BY <1>1, <2>2, <3>1
  <2>3. CASE old = c[w].old /\ c[w].old # None
    <3>1. I = do_item_remove(item, c[w].old) /\ c[w].old \in Chunks /\ item[c[w].old].refcount >= 1
      BY <1>4, <1>7, <2>3 DEF drop
    <3>2. /\ do_item_remove(item, c[w].old) \in [Chunks -> Headers]
          /\ do_item_remove(item, c[w].old)[c[w].old] = Settled(Less(item[c[w].old], 1))
          /\ \A j \in Chunks \ {c[w].old} : do_item_remove(item, c[w].old)[j] = item[j]
      BY <1>1, <3>1, RemoveOnce
    <3> HIDE DEF I
    <3> QED BY <3>1, <3>2
  <2> QED BY <2>1, <2>2, <2>3
<1>9. item' = drop(I, c[w].new)
  OBVIOUS
<1> HIDE DEF I
\* The new one.
<1>10. /\ item' \in [Chunks -> Headers]
       /\ \A j \in Chunks : j # c[w].new => item'[j] = I[j]
       /\ c[w].new # None => item'[c[w].new] = Settled(Less(item[c[w].new], 1))
  <2>1. CASE c[w].new = None
    BY <1>8, <1>9, <2>1 DEF drop
  <2>2. CASE c[w].new # None
    <3>1. /\ item' = do_item_remove(I, c[w].new) /\ c[w].new \in Chunks
          /\ I[c[w].new] = item[c[w].new] /\ item[c[w].new].refcount >= 1
      BY <1>4, <1>7, <1>8, <1>9, <2>2 DEF drop
    <3>2. /\ do_item_remove(I, c[w].new) \in [Chunks -> Headers]
          /\ do_item_remove(I, c[w].new)[c[w].new] = Settled(Less(I[c[w].new], 1))
          /\ \A j \in Chunks \ {c[w].new} : do_item_remove(I, c[w].new)[j] = I[j]
      BY <1>8, <3>1, RemoveOnce
    <3> QED BY <3>1, <3>2
  <2> QED BY <2>1, <2>2
<1>11. ASSUME NEW i \in Chunks, i \in {c[w].old, c[w].new}
       PROVE  \E h : Touched(w, k, i, h) /\ h.linked = item[i].linked /\ h.key = k
  <2>1. PICK h : /\ item'[i] = Settled(h)
                 /\ h = Less(item[i], 1) \/ (h = item[i] /\ Leaks(w) /\ i = c[w].old)
    BY <1>4, <1>6, <1>8, <1>10, <1>11
  <2>2. Touched(w, k, i, h)
    BY <1>5, <1>11, <2>1, ReleaseTouched
  <2>3. h.linked = item[i].linked
    BY <1>1, <1>7, <1>11, <2>1, LessTyped
  <2> QED BY <2>2, <2>3 DEF Touched
<1>12. ASSUME NEW j \in Chunks, j \notin {c[w].old, c[w].new} PROVE Untouched(w, j)
  <2>1. item'[j] = item[j]
    BY <1>8, <1>10, <1>12
  <2>2. \A q \in Queues : j \in At(q)' <=> j \in At(q)
    BY <1>3 DEF At
  <2>3. /\ c'[w].it = j <=> c[w].it = j
        /\ c'[w].old = j <=> c[w].old = j
        /\ c'[w].new = j <=> c[w].new = j
    BY <1>2, <1>6, <1>12
  <2>4. pull' = pull
    BY <1>3
  <2> QED BY <1>6, <2>1, <2>2, <2>3, <2>4, WorkerUntouched
<1>13. KeyOK(w)' /\ CasGiven(w) /\ LockStep(w, k) /\ HashStep(w, k)
  <2>1. ConnectionOK(c'[w])
    <3>1. CASE c[w].it = None
      BY <1>2, <1>4, <3>1 DEF ConnectionOK, Locked, Pcs
    <3>2. CASE c[w].it # None
      BY <1>2, <1>4, <3>2 DEF ConnectionOK, Locked, Pcs
    <3> QED BY <3>1, <3>2
  <2>2. ~Commands(w)' /\ ~Pending(w)'
    BY <1>2 DEF Commands, Locked, Pending
  <2> QED BY <1>2, <1>3, <1>4, <2>1, <2>2 DEF KeyOK, CasGiven, LockStep, HashStep
<1>14. \A j \in Chunks : j \in {c'[w].it, c'[w].old, c'[w].new} =>
         c'[w].key = k /\ (item[j].key = k \/ item[j].refcount = 0)
  BY <1>1, <1>2, <1>4, <1>6 DEF WorkerOK
<1>15. Rehashed(k)
  <2> SUFFICES ASSUME hash[k] # None PROVE item'[hash[k]].linked /\ item'[hash[k]].key = k
    BY <1>3 DEF Rehashed
  <2>1. PICK i \in Chunks : i = hash[k] /\ item[i].linked /\ item[i].key = k
    BY DEF IInv, TypesOK, TableOK
  <2>2. CASE i \in {c[w].old, c[w].new}
    <3>1. PICK h : Touched(w, k, i, h) /\ h.linked = item[i].linked /\ h.key = k
      BY <1>11, <2>2
    <3>2. item'[i].linked <=> h.linked
      <4>1. w \in Threads /\ OtherThreads(w)
        BY <1>2, <1>3 DEF Threads, OtherThreads, OtherWorkers
      <4>2. cas_id' \in Nat /\ cas_id' >= cas_id
        BY <1>3 DEF IInv, TypesOK
      <4> QED BY <3>1, <4>1, <4>2, TouchedKept
    <3>3. item'[i] = h \/ item'[i] = Slabbed
      BY <3>1 DEF Touched, Settled
    <3>4. ~Slabbed.linked
      BY DEF Slabbed
    <3> QED BY <2>1, <3>1, <3>2, <3>3, <3>4
  <2>3. CASE i \notin {c[w].old, c[w].new}
    <3>1. item'[i] = item[i]
      BY <1>8, <1>10, <2>3
    <3> QED BY <2>1, <3>1
  <2> QED BY <2>2, <2>3
<1>16. \A j \in Chunks : Untouched(w, j) \/ \E h : Touched(w, k, j, h)
  BY <1>11, <1>12
<1>17. QueueStep(w) /\ CrawlersStay
  BY <1>3, SameQueues
<1>18. item' = [j \in Chunks |-> item'[j]]
  BY <1>10
<1> QED BY <1>2, <1>3, <1>13, <1>14, <1>15, <1>16, <1>17, <1>18, WorkerKept

-----------------------------------------------------------------------------
(* Steps of lru_pull_tail. *)

LruLockStep(t) ==
  /\ lru_lock' \in [Queues -> Threads \cup {None}]
  /\ \A q \in Queues : lru_lock'[q] = lru_lock[q] \/ {lru_lock[q], lru_lock'[q]} \subseteq {None, t}

PullStep(t) ==
  /\ pull' \in [Walkers -> PullRecord \cup {None}]
  /\ \A v \in Walkers \ {t} : pull'[v] = pull[v]

\* A worker that pulls is in do_item_alloc.
LEMMA PullingWorker ==
  ASSUME IInv, NEW t \in Workers, pull[t] # None
  PROVE  /\ WorkerOK(t) /\ c[t].pc = "alloc"
         /\ Commands(t) => c[t].key \in Keys /\ item_lock[c[t].key] = t
         /\ \A i \in Chunks : ~Unqueues(t, i) /\ ~Requeues(t, i)
<1>1. WorkerOK(t) /\ c[t].pc = "alloc"
  BY DEF IInv, WorkerOK
<1>2. Commands(t) => c[t].key \in Keys /\ item_lock[c[t].key] = t
  BY <1>1 DEF WorkerOK, ConnectionOK
<1> QED BY <1>1, <1>2 DEF Unqueues, Requeues

LEMMA WalkerTouched ==
  ASSUME IInv, NEW t \in Walkers, pull[t] # None, c' = c, NEW k \in Keys, NEW i \in Chunks, NEW h,
         h \in Headers, h.key = k, h.lru \in Queues, item'[i] = Settled(h),
         item[i].key = k, item_lock[k] \in {None, t},
         item[i].linked \/ InHandOf(pull[t], i), item[i].val = Empty => h.val = Empty,
         \A q \in Queues : i \in At(q)' <=> q = h.lru /\ h.linked /\ ~Moves(t, i)',
         Moves(t, i)' => h.linked,
         h.refcount = ((item[i].refcount - Hold(InHandOf(pull[t], i))) - Hold(item[i].linked))
                         + Hold(InHandOf(pull'[t], i)) + Hold(h.linked),
         h.linked => hash'[k] = i /\ h.cas > 0,
         h.cas <= cas_id', h.ver <= cas_id'
  PROVE  Touched(t, k, i, h)
<1>1. ~Unq(t, i) /\ ~Unq(t, i)'
  <2>1. t \in Workers => ~Unqueues(t, i)
    BY PullingWorker
  <2> QED BY <2>1 DEF Unq, Unqueues
<1>2. Req(t, i)' <=> Moves(t, i)'
  <2>1. t \in Workers => ~Requeues(t, i)
    BY PullingWorker
  <2> QED BY <2>1 DEF Req, Requeues
<1>3. ~Upload(t, i)'
  <2>1. t \in Workers => ~Fresh(t, i)
    BY DEF IInv, Placed
  <2> QED BY <2>1 DEF Upload, Fresh
<1>4. Incs(t, i)' <=> Incs(t, i)
  BY DEF Incs, Incring, Commands
<1>5. InConn(t, i)' = InConn(t, i) /\ InConn(t, i) \in Nat
  BY HoldFacts DEF InConn, Held
<1>6. (InPull(t, i) <=> InHandOf(pull[t], i)) /\ (InPull(t, i)' <=> InHandOf(pull'[t], i))
  BY DEF InPull, InHandOf
<1>7. /\ Hold(InPull(t, i)) = Hold(InHandOf(pull[t], i)) /\ Hold(InPull(t, i)') = Hold(InHandOf(pull'[t], i))
      /\ Hold(Unq(t, i)' \/ h.linked) = Hold(h.linked) /\ Hold(Unq(t, i) \/ item[i].linked) = Hold(item[i].linked)
  BY <1>1, <1>6 DEF Hold
<1>8. HeldBy(t, i) = InConn(t, i) + Hold(InHandOf(pull[t], i))
      /\ HeldBy(t, i)' = InConn(t, i) + Hold(InHandOf(pull'[t], i))
  <2>1. HeldBy(t, i)' = InConn(t, i)' + Hold(InPull(t, i)')
    BY DEF HeldBy, Hold
  <2> QED BY <1>5, <1>7, <2>1 DEF HeldBy
<1>9. Gain(t, i, h) = 0
  <2> DEFINE a == Hold(InHandOf(pull[t], i))
             b == Hold(InHandOf(pull'[t], i))
             d == Hold(item[i].linked)
             e == Hold(h.linked)
             n == InConn(t, i)
             r == item[i].refcount
  <2>1. DueTo(t, i) = (n + a) + d /\ HeldBy(t, i)' = n + b
    BY <1>7, <1>8 DEF DueTo
  <2>2. Gain(t, i, h) = (h.refcount - HeldBy(t, i)' - e) - (r - DueTo(t, i))
    BY <1>7 DEF Gain
  <2>3. a \in Nat /\ b \in Nat /\ d \in Nat /\ e \in Nat /\ n \in Nat /\ r \in Nat
    <3>1. a \in Nat /\ b \in Nat /\ d \in Nat /\ e \in Nat
      BY DEF Hold
    <3>2. r \in Nat
      BY DEF IInv, TypesOK, Headers
    <3> QED BY <1>5, <3>1, <3>2
  <2>4. h.refcount = ((r - a) - d) + b + e
    OBVIOUS
  <2> HIDE DEF a, b, d, e, n, r
  <2> QED BY <2>1, <2>2, <2>3, <2>4
<1>10. InHandOf(pull[t], i) => HeldBy(t, i) > 0
  BY <1>5, <1>8 DEF Hold
<1> QED BY <1>1, <1>2, <1>3, <1>4, <1>9, <1>10 DEF Touched

LEMMA WalkerUntouched ==
  ASSUME NEW t, c' = c, NEW i, item'[i] = item[i],
         \A q \in Queues : i \in At(q)' <=> i \in At(q),
         t \in Walkers => (InHandOf(pull'[t], i) <=> InHandOf(pull[t], i)) /\ (Moves(t, i)' <=> Moves(t, i))
  PROVE  Untouched(t, i)
<1>1. /\ Unq(t, i)' <=> Unq(t, i)
      /\ Upload(t, i)' <=> Upload(t, i)
      /\ Incs(t, i)' <=> Incs(t, i)
  BY DEF Unq, Upload, Incs, Unqueues, Fresh, Incring, Commands
<1>2. /\ Req(t, i)' <=> Req(t, i)
      /\ InPull(t, i)' <=> InPull(t, i)
  BY DEF Req, Requeues, InPull
<1> QED BY <1>1, <1>2 DEF Untouched, SameIn

LEMMA WalkerInv ==
  ASSUME IInv, NEW t \in Walkers, pull[t] # None, NEW k \in Keys, c' = c,
         UNCHANGED <<settings, cas_id, crawlers>>, PullStep(t), LruLockStep(t),
         item' = [i \in Chunks |-> item'[i]], QueueStep(t), CrawlersStay, Rehashed(k),
         \/ item_lock' = item_lock
         \/ Lock(t, k)
         \/ Unlock(k) /\ item_lock[k] = t /\ (t \in Workers /\ Commands(t) => c[t].key # k),
         \/ hash' = hash
         \/ item_lock[k] = None /\ \E j \in Chunks \cup {None} : hash' = [hash EXCEPT ![k] = j],
         WalkerOK(t)',
         \A i \in Chunks : Untouched(t, i) \/ \E h : Touched(t, k, i, h)
  PROVE  IInv'
<1>1. t \in Threads /\ t # None /\ Workers \subseteq Walkers
  BY ItemsAssumption DEF Threads, Walkers
<1>2. TypesOK /\ CrawlersOK
  BY DEF IInv
<1>3. CrawlersOK'
  <2>1. \A q \in Queues : "crawler" \in At(q)' <=> q \in crawlers'.running
    BY <1>2 DEF CrawlersOK, CrawlersStay
  <2> QED BY <1>2, <2>1 DEF CrawlersOK, Lrus
<1>4. /\ item_lock' \in [Keys -> Threads \cup {None}]
      /\ \A l \in Keys \ {k} : item_lock'[l] = item_lock[l]
      /\ item_lock'[k] = item_lock[k] \/ {item_lock[k], item_lock'[k]} \subseteq {None, t}
      /\ t \in Workers /\ Commands(t) => item_lock'[c[t].key] = t
  <2>1. t \in Workers /\ Commands(t) => c[t].key \in Keys /\ item_lock[c[t].key] = t
    BY PullingWorker
  <2> QED BY <1>1, <1>2, <2>1 DEF TypesOK, Lock, Unlock
<1>5. /\ hash' \in [Keys -> Chunks \cup {None}]
      /\ \A l \in Keys \ {k} : hash'[l] = hash[l]
      /\ hash'[k] = hash[k] \/ item_lock[k] = None
  BY <1>2 DEF TypesOK
<1>6. OtherThreads(t)
  BY DEF OtherThreads, PullStep
<1>7. Guarded(t, k)
  <2>1. IsTable(c)' /\ \A w \in Workers : IsConnection(c'[w])
    BY <1>2 DEF TypesOK, IsTable
  <2>2. \A q \in Queues : lru_lock[q] \in {None, t} => {None, lru_lock[q]} \subseteq {None, t}
    OBVIOUS
  <2> QED BY <1>4, <1>5, <1>6, <2>1 DEF Guarded, QueueStep, LruLockStep, PullStep
<1>8. CasGiven(t)
  BY DEF CasGiven, Pending
<1>9. t \in Workers => WorkerOK(t)'
  <2> SUFFICES ASSUME t \in Workers PROVE WorkerOK(t)'
    OBVIOUS
  <2>1. WorkerOK(t) /\ c[t].pc = "alloc" /\ c'[t] = c[t]
    BY PullingWorker
  <2>2. Commands(t)' <=> Commands(t)
    BY DEF Commands
  <2>3. Commands(t) => c[t].key \in Keys /\ item_lock[c[t].key] = t /\ hash'[c[t].key] = hash[c[t].key]
    BY <1>1, <1>5, PullingWorker
  <2>4. ASSUME NEW i \in Chunks, i \in {c[t].it, c[t].old, c[t].new} PROVE item'[i].key = c[t].key
    <3>1. item[i].key = c[t].key /\ item[i].refcount # 0
      BY <2>1, <2>4, Unheld DEF WorkerOK
    <3>2. CASE Untouched(t, i)
      BY <3>1, <3>2 DEF Untouched
    <3>3. CASE \E h : Touched(t, k, i, h)
      <4>1. item[i].key = k
        BY <3>1, <3>3 DEF Touched
      <4>2. item'[i].key = k \/ Hands(i)' + Pulled(i)' = 0
        <5>1. cas_id' \in Nat /\ cas_id' >= cas_id
          BY <1>2 DEF TypesOK
        <5> QED BY <1>1, <1>6, <3>3, <5>1, TouchedKept
      <4>3. Hands(i)' + Pulled(i)' # 0
        BY <2>1, <2>4, NoHands
      <4> QED BY <3>1, <4>1, <4>2, <4>3
    <3> QED BY <3>2, <3>3
  <2>5. Commands(t)' => item_lock'[c'[t].key] = t
    BY <1>4, <2>1, <2>2
  <2>6. c'[t].pc = "alloc" /\ c'[t].old # None => hash'[c'[t].key] = c'[t].old
    <3>1. c[t].pc = "alloc" /\ c[t].old # None => Commands(t)
      BY DEF Commands
    <3> QED BY <2>1, <2>3, <3>1 DEF WorkerOK
  <2> QED BY <2>1, <2>4, <2>5, <2>6 DEF WorkerOK
<1> QED BY <1>1, <1>3, <1>7, <1>8, <1>9, StepInv

\* What is known of an item in a queue when nobody has the lock of its key.
LEMMA InQueue ==
  ASSUME IInv, NEW q \in Queues, NEW s \in Chunks, s \in At(q), item_lock[item[s].key] = None
  PROVE  /\ item[s] \in Headers /\ item[s].key \in Keys /\ item[s].lru = q
         /\ item[s].refcount \in Nat /\ item[s].refcount >= 1
         /\ item[s].linked /\ hash[item[s].key] = s
         /\ \A r \in Queues : s \in At(r) <=> r = q
         /\ item[s].cas > 0 /\ item[s].cas <= cas_id /\ item[s].ver <= cas_id
<1>1. PICK t \in Threads : t \notin Workers /\ t \notin Walkers
  BY ItemsAssumption DEF Threads, Walkers
<1>2. Placed(s) /\ Counted(s) /\ CasOf(s) /\ Tabled(s)
  BY DEF IInv, TableOK
<1>3. item[s].lru = q /\ (Between(s) \/ (item[s].linked /\ ~Away(s)))
  BY <1>2 DEF Placed
<1>4. item[s] # Slabbed
  BY <1>3 DEF Slabbed, Queues
<1>5. item[s].key \in Keys
  BY <1>2, <1>4 DEF Tabled
<1>6. Only(t, s)
  BY <1>5, LockOnly
<1>7. ~Between(s) /\ ~Away(s)
  BY <1>1, <1>6 DEF Only, Between, Away, Moves
<1>8. item[s] \in Headers /\ item[s].refcount \in Nat
  BY DEF IInv, TypesOK, Headers
<1>9. item[s].refcount >= 1
  BY <1>3, <1>7, <1>8, Unheld
<1> QED BY <1>2, <1>3, <1>5, <1>7, <1>8, <1>9 DEF Placed, CasOf, Tabled

\* So of the item a walker looks at.
LEMMA LookedAt ==
  ASSUME IInv, NEW t \in Walkers, Looking(t), NEW s \in Chunks, s = pull[t].search,
         item_lock[item[s].key] = None
  PROVE  /\ item[s] \in Headers /\ item[s].key \in Keys /\ item[s].lru = pull[t].q
         /\ item[s].refcount \in Nat /\ item[s].refcount >= 1
         /\ item[s].linked /\ hash[item[s].key] = s
         /\ \A q \in Queues : s \in At(q) <=> q = pull[t].q
         /\ item[s].cas > 0 /\ item[s].cas <= cas_id /\ item[s].ver <= cas_id
<1>1. pull[t].q \in Queues /\ s \in At(pull[t].q)
  BY DEF IInv, TypesOK, WalkerOK, Looking, PullRecord
<1> QED BY <1>1, InQueue

\* Of the item in its hand.
LEMMA InItsHand ==
  ASSUME IInv, NEW t \in Walkers, NEW s \in Chunks, InHandOf(pull[t], s)
  PROVE  /\ item[s] \in Headers /\ item[s].key \in Keys /\ item[s].lru \in Queues
         /\ item_lock[item[s].key] = t
         /\ item[s].refcount \in Nat /\ item[s].refcount >= Hold(item[s].linked) + 1
         /\ item[s].linked => hash[item[s].key] = s /\ item[s].cas > 0
         /\ \A q \in Queues : s \in At(q) <=> q = item[s].lru /\ item[s].linked /\ ~Moves(t, s)
         /\ Moves(t, s) => item[s].linked
         /\ item[s].cas <= cas_id /\ item[s].ver <= cas_id
         /\ t \in Workers /\ Commands(t) => item[s].key # c[t].key
<1>1. t \in Threads /\ pull[t] # None
  BY DEF Threads, Walkers, InHandOf
<1>2. item[s].key \in Keys /\ item_lock[item[s].key] = t /\ (t \in Workers /\ Commands(t) => item[s].key # c[t].key)
  BY DEF IInv, WalkerOK
<1>3. Placed(s) /\ Counted(s) /\ CasOf(s) /\ Tabled(s)
  BY DEF IInv, TableOK
<1>4. Only(t, s)
  BY <1>1, <1>2, LockOnly
<1>5. ~Between(s) /\ (Away(s) <=> Moves(t, s))
  <2>1. ASSUME t \in Workers PROVE ~Unqueues(t, s) /\ ~Requeues(t, s)
    BY <1>1, <2>1, PullingWorker
  <2> QED BY <2>1, <1>4 DEF Only, Between, Away, Moves
<1>6. item[s] \in Headers /\ item[s].refcount \in Nat
  BY DEF IInv, TypesOK, Headers
<1>7. item[s].refcount # 0
  BY Unheld
<1>8. item[s] # Slabbed
  BY <1>7 DEF Slabbed
<1>9. item[s].refcount >= Hold(item[s].linked) + 1
  <2>1. Refs(s) = Hands(s) + Pulled(s) + Hold(item[s].linked)
    BY <1>5 DEF Refs, Linked, Hold
  <2>2. Hands(s) \in Nat /\ Pulled(s) \in Nat /\ Pulled(s) >= 1
    BY CountTypes, HeldCounts
  <2>3. item[s].refcount >= Refs(s) /\ Hold(item[s].linked) \in Nat
    BY <1>3 DEF Counted, Hold
  <2> QED BY <1>6, <2>1, <2>2, <2>3
<1> QED BY <1>2, <1>3, <1>5, <1>6, <1>8, <1>9 DEF Placed, CasOf, Tabled

\* The entry before another one is in the same queue.
LEMMA BeforeFacts ==
  ASSUME IInv, NEW q \in Queues, NEW s \in At(q), NEW next, next = Before(q, s), next # None
  PROVE  next \in At(q) /\ next # s
<1>1. queue[q] \in Seq(Chunks \cup {"crawler"}) /\ NoDuplicates(queue[q])
  BY DEF IInv, TypesOK
<1>2. PICK list : list = queue[q]
  OBVIOUS
<1>3. list \in Seq(Chunks \cup {"crawler"}) /\ NoDuplicates(list) /\ Len(list) \in Nat /\ DOMAIN list = 1..Len(list)
  BY <1>1, <1>2, LenProperties
<1>4. PICK n : n = PlaceOf(list, s)
  OBVIOUS
<1>5. n \in 1..Len(list) /\ list[n] = s
  BY <1>2, <1>3, <1>4 DEF At, RangeOf, PlaceOf
<1>6. n # 1 /\ next = list[n - 1]
  BY <1>2, <1>4 DEF Before
<1>7. n - 1 \in DOMAIN list /\ n - 1 # n
  BY <1>3, <1>5, <1>6
<1> QED BY <1>2, <1>3, <1>5, <1>6, <1>7 DEF At, RangeOf, NoDuplicates

LEMMA AdvanceFacts ==
  ASSUME IInv, NEW t \in Walkers, Looking(t), NEW cost \in {0, 1}, Advance(t, cost)
  PROVE  /\ PullStep(t) /\ LruLockStep(t)
         /\ \A i \in Chunks : ~InHandOf(pull'[t], i) /\ ~InHandOf(pull[t], i)
         /\ pull'[t] # None =>
              /\ pull'[t].it = None /\ pull'[t].move = None
              /\ pull'[t].q = pull[t].q /\ pull'[t].cur = pull[t].cur
              /\ lru_lock'[pull[t].q] = t
              /\ pull'[t].search \in At(pull[t].q) \ {pull[t].search}
<1>1. pull \in [Walkers -> PullRecord \cup {None}] /\ pull[t] \in PullRecord /\ pull[t].it = None
  BY DEF IInv, TypesOK, Looking
<1>2. PICK q \in Queues : /\ q = pull[t].q /\ lru_lock[q] = t
                          /\ pull[t].search \in At(q) /\ pull[t].move = None
  BY <1>1 DEF IInv, WalkerOK, Looking, PullRecord
<1>3. PICK next : next = Before(q, pull[t].search)
  OBVIOUS
<1>4. PICK tries \in Int : tries = pull[t].tries - cost
  BY <1>1 DEF PullRecord
<1>5. lru_lock \in [Queues -> Threads \cup {None}]
  BY DEF IInv, TypesOK
<1>6. \A i \in Chunks : ~InHandOf(pull[t], i)
  BY <1>1, ItemsAssumption DEF InHandOf
<1>7. CASE next = None \/ tries = 0
  <2>1. lru_lock' = [lru_lock EXCEPT ![q] = None] /\ pull' = [pull EXCEPT ![t] = None]
    BY <1>2, <1>3, <1>4, <1>7 DEF Advance
  <2>2. PullStep(t) /\ pull'[t] = None
    BY <1>1, <2>1 DEF PullStep
  <2>3. LruLockStep(t)
    BY <1>2, <1>5, <2>1 DEF LruLockStep
  <2> QED BY <1>6, <2>2, <2>3 DEF InHandOf
<1>8. CASE ~(next = None \/ tries = 0)
  <2>1. lru_lock' = lru_lock /\ pull' = [pull EXCEPT ![t].search = next, ![t].tries = tries]
    BY <1>2, <1>3, <1>4, <1>8 DEF Advance
  <2>2. next \in At(q) /\ next # pull[t].search
    BY <1>2, <1>3, <1>8, BeforeFacts
  <2>3. next \in Chunks \cup {"crawler"}
    <3>1. queue[q] \in Seq(Chunks \cup {"crawler"})
      BY DEF IInv, TypesOK
    <3>2. PICK n \in DOMAIN queue[q] : next = queue[q][n]
      BY <2>2 DEF At, RangeOf
    <3>3. queue[q] \in [1..Len(queue[q]) -> Chunks \cup {"crawler"}]
      BY <3>1, LenProperties
    <3> QED BY <3>2, <3>3
  <2>4. PICK p : p = [pull[t] EXCEPT !.search = next, !.tries = tries]
    OBVIOUS
  <2>5. /\ p \in PullRecord /\ p.it = None /\ p.move = pull[t].move /\ p.q = pull[t].q
        /\ p.cur = pull[t].cur /\ p.search = next
    BY <1>1, <2>3, <2>4 DEF PullRecord
  <2>6. pull' = [pull EXCEPT ![t] = p]
    BY <1>1, <2>1, <2>4
  <2>7. PullStep(t) /\ pull'[t] = p
    BY <1>1, <2>5, <2>6 DEF PullStep
  <2>8. LruLockStep(t)
    BY <1>5, <2>1 DEF LruLockStep
  <2>9. \A i \in Chunks : ~InHandOf(p, i)
    BY <2>5, ItemsAssumption DEF InHandOf
  <2> QED BY <1>2, <1>6, <2>1, <2>2, <2>5, <2>7, <2>8, <2>9
<1> QED BY <1>7, <1>8

\* A walker that goes on is on an entry that is still there.
LEMMA AdvanceOK ==
  ASSUME IInv, NEW t \in Walkers, Looking(t), NEW cost \in {0, 1}, Advance(t, cost), c' = c,
         NEW q, q = pull[t].q, At(q) \ {pull[t].search} \subseteq At(q)'
  PROVE  WalkerOK(t)'
<1>1. /\ \A i \in Chunks : ~InHandOf(pull'[t], i)
      /\ pull'[t] # None =>
           /\ pull'[t].it = None /\ pull'[t].move = None
           /\ pull'[t].q = pull[t].q /\ pull'[t].cur = pull[t].cur
           /\ lru_lock'[pull[t].q] = t
           /\ pull'[t].search \in At(pull[t].q) \ {pull[t].search}
  BY AdvanceFacts
<1>2. ASSUME pull'[t] # None, pull'[t].it = None
      PROVE  /\ lru_lock'[pull'[t].q] = t
             /\ pull'[t].search \in RangeOf(queue'[pull'[t].q])
             /\ pull'[t].move = None
             /\ t \in Workers /\ Commands(t)' => pull'[t].cur = c'[t].key
  <2>1. Commands(t)' <=> Commands(t)
    BY DEF Commands
  <2>2. t \in Workers /\ Commands(t) => pull[t].cur = c[t].key
    BY DEF IInv, WalkerOK, Looking
  <2>3. pull'[t].q = q /\ pull'[t].search \in RangeOf(queue'[q])
    BY <1>1, <1>2 DEF At
  <2> QED BY <1>1, <1>2, <2>1, <2>2, <2>3
<1> QED BY <1>1, <1>2 DEF WalkerOK, InHandOf, At

\* A step of a walker at one item, or at none.
LEMMA WalkerOne ==
  ASSUME IInv, NEW t \in Walkers, pull[t] # None, NEW k \in Keys, c' = c,
         UNCHANGED <<settings, cas_id, crawlers>>, PullStep(t), LruLockStep(t),
         item' \in [Chunks -> Headers], QueueStep(t), CrawlersStay, Rehashed(k),
         \/ item_lock' = item_lock
         \/ Lock(t, k)
         \/ Unlock(k) /\ item_lock[k] = t /\ (t \in Workers /\ Commands(t) => c[t].key # k),
         \/ hash' = hash
         \/ item_lock[k] = None /\ \E j \in Chunks \cup {None} : hash' = [hash EXCEPT ![k] = j],
         WalkerOK(t)', NEW i \in Chunks, NEW h, Touched(t, k, i, h),
         \A j \in Chunks \ {i} : /\ item'[j] = item[j]
                                 /\ \A q \in Queues : j \in At(q)' <=> j \in At(q)
                                 /\ InHandOf(pull'[t], j) <=> InHandOf(pull[t], j)
                                 /\ Moves(t, j)' <=> Moves(t, j)
  PROVE  IInv'
<1>1. \A j \in Chunks \ {i} : Untouched(t, j)
  BY WalkerUntouched
<1>2. \A j \in Chunks : Untouched(t, j) \/ \E g : Touched(t, k, j, g)
  BY <1>1
<1>3. item' = [j \in Chunks |-> item'[j]]
  OBVIOUS
<1> QED BY <1>2, <1>3, WalkerInv

LEMMA PullSkipInv ==
  ASSUME IInv, NEW t \in Walkers, PullSkip(t)
  PROVE  IInv'
<1>1. /\ UNCHANGED <<settings, item, hash, queue, cas_id, item_lock, c, crawlers>>
      /\ Looking(t) /\ pull[t] # None
  BY DEF PullSkip, Looking
<1>2. PICK cost \in {0, 1} : Advance(t, cost)
  BY DEF PullSkip
<1>3. PICK k \in Keys : TRUE
  BY ItemsAssumption
<1>4. /\ PullStep(t) /\ LruLockStep(t)
      /\ \A i \in Chunks : ~InHandOf(pull'[t], i) /\ ~InHandOf(pull[t], i)
  BY <1>1, <1>2, AdvanceFacts
<1>5. QueueStep(t) /\ CrawlersStay /\ \A j, r : j \in At(r)' <=> j \in At(r)
  BY <1>1, SameQueues
<1>6. WalkerOK(t)'
  <2>1. PICK q : q = pull[t].q
    OBVIOUS
  <2>2. At(q) \ {pull[t].search} \subseteq At(q)'
    BY <1>1 DEF At
  <2> QED BY <1>1, <1>2, <2>1, <2>2, AdvanceOK
<1>7. Rehashed(k)
  BY <1>1 DEF Rehashed, IInv, TableOK
<1>8. \A i \in Chunks : Untouched(t, i)
  <2> SUFFICES ASSUME NEW i \in Chunks PROVE Untouched(t, i)
    OBVIOUS
  <2>1. (InHandOf(pull'[t], i) <=> InHandOf(pull[t], i)) /\ (Moves(t, i)' <=> Moves(t, i))
    BY <1>4 DEF Moves
  <2> QED BY <1>1, <1>5, <2>1, WalkerUntouched
<1>9. item' = [i \in Chunks |-> item'[i]]
  BY <1>1 DEF IInv, TypesOK
<1> QED BY <1>1, <1>4, <1>5, <1>6, <1>7, <1>8, <1>9, WalkerInv

\* The other entries of a queue stay.
LEMMA RestKept ==
  ASSUME IInv, NEW q \in Queues, NEW s, CrawlersStay,
         \A j \in Chunks \ {s} : \A r \in Queues : j \in At(r)' <=> j \in At(r)
  PROVE  At(q) \ {s} \subseteq At(q)'
<1>1. \A x \in At(q) : x \in Chunks \cup {"crawler"}
  <2>1. queue[q] \in Seq(Chunks \cup {"crawler"})
    BY DEF IInv, TypesOK
  <2>2. queue[q] \in [1..Len(queue[q]) -> Chunks \cup {"crawler"}]
    BY <2>1, LenProperties
  <2> QED BY <2>2 DEF At, RangeOf
<1>2. ASSUME NEW x \in At(q), x # s PROVE x \in At(q)'
  <2>1. CASE x = "crawler"
    BY <2>1 DEF CrawlersStay
  <2>2. CASE x # "crawler"
    BY <1>1, <1>2, <2>2
  <2> QED BY <2>1, <2>2
<1> QED BY <1>2

LEMMA TriedItem ==
  ASSUME IInv, NEW t \in Walkers, Tried(t)
  PROVE  \E s \in Chunks, k \in Keys, q \in Queues :
           /\ s = pull[t].search /\ k = item[s].key /\ q = pull[t].q
           /\ Looking(t) /\ item_lock[k] = None /\ lru_lock[q] = t /\ pull[t].cur # k
<1>1. Looking(t) /\ pull[t] \in PullRecord
  BY DEF Tried, Looking, IInv, TypesOK
<1>2. PICK s \in Chunks : s = pull[t].search
  BY <1>1 DEF Tried, PullRecord
<1>3. PICK q \in Queues : q = pull[t].q /\ lru_lock[q] = t
  BY <1>1 DEF IInv, WalkerOK, PullRecord, Looking
<1>4. item_lock[item[s].key] = None /\ pull[t].cur # item[s].key
  BY <1>2 DEF Tried
<1>5. item[s].key \in Keys
  BY <1>1, <1>2, <1>4, LookedAt
<1> QED BY <1>1, <1>2, <1>3, <1>4, <1>5

LEMMA PullReapInv ==
  ASSUME IInv, NEW t \in Walkers, PullReap(t)
  PROVE  IInv'
<1>1. PICK s \in Chunks, k \in Keys, q \in Queues :
        /\ s = pull[t].search /\ k = item[s].key /\ q = pull[t].q
        /\ Looking(t) /\ item_lock[k] = None /\ lru_lock[q] = t /\ pull[t].cur # k
  BY TriedItem DEF PullReap
<1>2. /\ UNCHANGED <<settings, cas_id, item_lock, c, crawlers>> /\ Advance(t, 1)
      /\ hash' = [hash EXCEPT ![k] = None] /\ queue' = do_item_unlink_q(queue, q, s)
      /\ item' = do_item_remove(Unlinked(refcount_incr(item, s), s), s) /\ pull[t] # None
  BY <1>1 DEF PullReap, Looking
<1>3. /\ item[s] \in Headers /\ item[s].lru = q /\ item[s].refcount \in Nat /\ item[s].refcount >= 1
      /\ item[s].linked /\ hash[k] = s
      /\ \A r \in Queues : s \in At(r) <=> r = q
      /\ item[s].cas <= cas_id /\ item[s].ver <= cas_id
  BY <1>1, LookedAt
<1>4. item \in [Chunks -> Headers] /\ hash \in [Keys -> Chunks \cup {None}] /\ item[s] \in Headers
  BY DEF IInv, TypesOK
<1>5. PICK n \in Nat : n = item[s].refcount + 1
  BY <1>3
<1>6. PICK I : I = [item EXCEPT ![s].refcount = n, ![s].linked = FALSE]
  OBVIOUS
<1>7. /\ I \in [Chunks -> Headers]
      /\ I[s].refcount = n /\ I[s].key = k /\ I[s].lru = q /\ ~I[s].linked /\ I[s].val = item[s].val
      /\ I[s].cas = item[s].cas /\ I[s].ver = item[s].ver
      /\ \A j \in Chunks \ {s} : I[j] = item[j]
  BY <1>1, <1>3, <1>4, <1>6 DEF Headers
<1>8. item' = do_item_remove(do_item_remove(I, s), s)
  <2>1. [refcount_incr(item, s) EXCEPT ![s].linked = FALSE] = I
    BY <1>4, <1>5, <1>6 DEF refcount_incr, Headers
  <2> QED BY <1>2, <2>1 DEF Unlinked
<1>9. PICK h : h = Less(I[s], 2)
  OBVIOUS
<1>10. I[s] \in Headers /\ I[s].refcount >= 2 /\ I[s].refcount - 2 = item[s].refcount - 1
  <2>1. I[s] \in Headers
    BY <1>7
  <2> QED BY <1>3, <1>5, <1>7, <2>1
<1>11. /\ item' \in [Chunks -> Headers] /\ item'[s] = Settled(h)
       /\ \A j \in Chunks \ {s} : item'[j] = item[j]
  <2>1. /\ do_item_remove(do_item_remove(I, s), s) \in [Chunks -> Headers]
        /\ do_item_remove(do_item_remove(I, s), s)[s] = Settled(Less(I[s], 2))
        /\ \A j \in Chunks \ {s} : do_item_remove(do_item_remove(I, s), s)[j] = I[j]
    BY <1>7, <1>10, RemoveTwice
  <2> QED BY <1>7, <1>8, <1>9, <2>1
<1>12. /\ h \in Headers /\ h.refcount = item[s].refcount - 1 /\ h.key = k /\ h.lru = q /\ ~h.linked
       /\ h.val = item[s].val /\ h.cas = item[s].cas /\ h.ver = item[s].ver
  <2>1. /\ h \in Headers /\ h.refcount = I[s].refcount - 2
        /\ h.key = I[s].key /\ h.lru = I[s].lru /\ h.linked = I[s].linked
        /\ h.val = I[s].val /\ h.cas = I[s].cas /\ h.ver = I[s].ver
    BY <1>9, <1>10, LessTyped
  <2> QED BY <1>7, <1>10, <2>1
<1>13. /\ QueueStep(t) /\ CrawlersStay
       /\ \A r \in Queues : s \notin At(r)'
       /\ \A j \in Chunks \ {s} : \A r \in Queues : j \in At(r)' <=> j \in At(r)
  <2>1. s \in At(q) /\ lru_lock[q] \in {None, t}
    BY <1>1, <1>3
  <2> QED BY <1>2, <2>1, OutOfQueue
<1>14. /\ PullStep(t) /\ LruLockStep(t)
       /\ \A i \in Chunks : ~InHandOf(pull'[t], i) /\ ~InHandOf(pull[t], i)
  BY <1>1, <1>2, AdvanceFacts
<1>15. \A i \in Chunks : ~Moves(t, i) /\ ~Moves(t, i)'
  BY <1>14 DEF Moves
<1>16. Touched(t, k, s, h)
  <2>1. h.refcount = ((item[s].refcount - Hold(InHandOf(pull[t], s))) - Hold(item[s].linked))
                       + Hold(InHandOf(pull'[t], s)) + Hold(h.linked)
    <3>1. /\ Hold(InHandOf(pull[t], s)) = 0 /\ Hold(item[s].linked) = 1
          /\ Hold(InHandOf(pull'[t], s)) = 0 /\ Hold(h.linked) = 0
      BY <1>3, <1>12, <1>14 DEF Hold
    <3>2. item[s].refcount \in Nat /\ h.refcount = item[s].refcount - 1
      BY <1>3, <1>12
    <3> DEFINE a == Hold(InHandOf(pull[t], s))
               b == Hold(InHandOf(pull'[t], s))
               d == Hold(item[s].linked)
               e == Hold(h.linked)
    <3> HIDE DEF a, b, d, e
    <3>3. h.refcount = ((item[s].refcount - a) - d) + b + e
      BY <3>1, <3>2 DEF a, b, d, e
    <3> QED BY <3>3 DEF a, b, d, e
  <2>2. item_lock[k] \in {None, t} /\ h.cas <= cas_id' /\ h.ver <= cas_id' /\ h.lru \in Queues
    BY <1>1, <1>2, <1>3, <1>12
  <2>3. /\ pull[t] # None /\ c' = c /\ h \in Headers /\ h.key = k /\ item'[s] = Settled(h) /\ item[s].key = k
        /\ item[s].linked \/ InHandOf(pull[t], s)
        /\ item[s].val = Empty => h.val = Empty
        /\ Moves(t, s)' => h.linked
        /\ h.linked => hash'[k] = s /\ h.cas > 0
    BY <1>1, <1>2, <1>3, <1>11, <1>12, <1>15
  <2>4. \A r \in Queues : s \in At(r)' <=> r = h.lru /\ h.linked /\ ~Moves(t, s)'
    BY <1>12, <1>13
  <2> QED BY <2>1, <2>2, <2>3, <2>4, WalkerTouched
<1>17. /\ hash'[k] = None
       /\ \/ hash' = hash
          \/ item_lock[k] = None /\ \E j \in Chunks \cup {None} : hash' = [hash EXCEPT ![k] = j]
  BY <1>1, <1>2, <1>4
<1>18. Rehashed(k)
  <2>1. ~item'[s].linked
    BY <1>11, <1>12 DEF Settled, Slabbed
  <2> QED BY <1>3, <1>17, <2>1 DEF Rehashed
<1>19. WalkerOK(t)'
  <2>1. At(q) \ {pull[t].search} \subseteq At(q)'
    BY <1>1, <1>13, RestKept
  <2> QED BY <1>1, <1>2, <2>1, AdvanceOK
<1> QED BY <1>1, <1>2, <1>11, <1>13, <1>14, <1>15, <1>16, <1>17, <1>18, <1>19, WalkerOne, ZenonT(30)

\* Out of a queue and in again at its head.
LEMMA Requeued ==
  ASSUME IInv, NEW t, NEW i \in Chunks, NEW q \in Queues, i \in At(q), lru_lock[q] \in {None, t},
         queue' = do_item_link_q(do_item_unlink_q(queue, q, i), q, i)
  PROVE  QueueStep(t) /\ CrawlersStay /\ \A j \in Chunks, r \in Queues : j \in At(r)' <=> j \in At(r)
<1>1. queue \in [Queues -> Seq(Chunks \cup {"crawler"})] /\ \A r \in Queues : NoDuplicates(queue[r])
  BY DEF IInv, TypesOK
<1>2. i \in RangeOf(queue[q])
  BY DEF At
<1>3. PICK R : R = do_item_unlink_q(queue, q, i)
  OBVIOUS
<1>4. /\ R \in [Queues -> Seq(Chunks \cup {"crawler"})]
      /\ \A r \in Queues : NoDuplicates(R[r])
      /\ RangeOf(R[q]) = RangeOf(queue[q]) \ {i}
      /\ \A r \in Queues \ {q} : R[r] = queue[r]
  <2> DEFINE Q == do_item_unlink_q(queue, q, i)
  <2>1. /\ Q \in [Queues -> Seq(Chunks \cup {"crawler"})]
        /\ \A r \in Queues : NoDuplicates(Q[r])
        /\ RangeOf(Q[q]) = RangeOf(queue[q]) \ {i}
        /\ \A r \in Queues \ {q} : Q[r] = queue[r]
    <3>1. /\ queue[q] \in Seq(Chunks \cup {"crawler"}) /\ NoDuplicates(queue[q])
          /\ i \in RangeOf(queue[q])
      BY <1>1, <1>2
    <3>2. /\ Without(queue[q], i) \in Seq(Chunks \cup {"crawler"}) /\ NoDuplicates(Without(queue[q], i))
          /\ RangeOf(Without(queue[q], i)) = RangeOf(queue[q]) \ {i}
      BY <3>1, WithoutFacts
    <3> QED BY <1>1, <3>2 DEF do_item_unlink_q
  <2> HIDE DEF Q
  <2> QED BY <1>3, <2>1 DEF Q
<1>5. i \notin RangeOf(R[q]) /\ queue' = do_item_link_q(R, q, i)
  BY <1>3, <1>4
<1>6. /\ queue' \in [Queues -> Seq(Chunks \cup {"crawler"})]
      /\ \A r \in Queues : NoDuplicates(queue'[r])
      /\ RangeOf(queue'[q]) = RangeOf(R[q]) \cup {i}
      /\ \A r \in Queues \ {q} : queue'[r] = R[r]
  <2> DEFINE Q == do_item_link_q(R, q, i)
  <2>1. /\ Q \in [Queues -> Seq(Chunks \cup {"crawler"})]
        /\ \A r \in Queues : NoDuplicates(Q[r])
        /\ RangeOf(Q[q]) = RangeOf(R[q]) \cup {i}
        /\ \A r \in Queues \ {q} : Q[r] = R[r]
    BY <1>4, <1>5, LinkQueue
  <2> HIDE DEF Q
  <2> QED BY <1>5, <2>1 DEF Q
<1>7. RangeOf(queue'[q]) = RangeOf(queue[q]) /\ \A r \in Queues \ {q} : queue'[r] = queue[r]
  BY <1>2, <1>4, <1>6
<1>8. QueueStep(t)
  BY <1>6, <1>7 DEF QueueStep
<1>9. \A r \in Queues : At(r)' = At(r)
  <2> SUFFICES ASSUME NEW r \in Queues PROVE RangeOf(queue'[r]) = RangeOf(queue[r])
    BY DEF At
  <2> QED BY <1>7
<1> QED BY <1>8, <1>9 DEF CrawlersStay

LEMMA PullActiveInv ==
  ASSUME IInv, NEW t \in Walkers, PullActive(t)
  PROVE  IInv'
<1>1. PICK s \in Chunks, k \in Keys, q \in Queues :
        /\ s = pull[t].search /\ k = item[s].key /\ q = pull[t].q
        /\ Looking(t) /\ item_lock[k] = None /\ lru_lock[q] = t /\ pull[t].cur # k
  BY TriedItem DEF PullActive
<1>2. /\ UNCHANGED <<settings, hash, cas_id, item_lock, c, crawlers>> /\ Advance(t, 1)
      /\ item' = [item EXCEPT ![s].active = FALSE] /\ pull[t] # None
      /\ queue' = queue \/ queue' = do_item_link_q(do_item_unlink_q(queue, q, s), q, s)
  BY <1>1 DEF PullActive, Looking
<1>3. /\ item[s] \in Headers /\ item[s].lru = q /\ item[s].refcount \in Nat /\ item[s].refcount >= 1
      /\ item[s].linked /\ hash[k] = s
      /\ \A r \in Queues : s \in At(r) <=> r = q
      /\ item[s].cas > 0 /\ item[s].cas <= cas_id /\ item[s].ver <= cas_id
  BY <1>1, LookedAt
<1>4. item \in [Chunks -> Headers]
  BY DEF IInv, TypesOK
<1>5. PICK h : h = [item[s] EXCEPT !.active = FALSE]
  OBVIOUS
<1>6. /\ h \in Headers /\ h.refcount = item[s].refcount /\ h.key = k /\ h.lru = q /\ h.linked
      /\ h.val = item[s].val /\ h.cas = item[s].cas /\ h.ver = item[s].ver
  BY <1>1, <1>3, <1>5 DEF Headers
<1>7. item' = [item EXCEPT ![s] = h]
  BY <1>2, <1>4, <1>5
<1>8. item' \in [Chunks -> Headers] /\ item'[s] = h /\ \A j \in Chunks \ {s} : item'[j] = item[j]
  BY <1>4, <1>6, <1>7
<1>9. Settled(h) = h
  BY <1>3, <1>6 DEF Settled
<1>10. QueueStep(t) /\ CrawlersStay /\ \A j \in Chunks, r \in Queues : j \in At(r)' <=> j \in At(r)
  <2>1. s \in At(q) /\ lru_lock[q] \in {None, t}
    BY <1>1, <1>3
  <2> QED BY <1>2, <2>1, SameQueues, Requeued
<1>11. /\ PullStep(t) /\ LruLockStep(t)
       /\ \A i \in Chunks : ~InHandOf(pull'[t], i) /\ ~InHandOf(pull[t], i)
  BY <1>1, <1>2, AdvanceFacts
<1>12. \A i \in Chunks : ~Moves(t, i) /\ ~Moves(t, i)'
  BY <1>11 DEF Moves
<1>13. Touched(t, k, s, h)
  <2>1. h.refcount = ((item[s].refcount - Hold(InHandOf(pull[t], s))) - Hold(item[s].linked))
                       + Hold(InHandOf(pull'[t], s)) + Hold(h.linked)
    <3>1. /\ Hold(InHandOf(pull[t], s)) = 0 /\ Hold(item[s].linked) = 1
          /\ Hold(InHandOf(pull'[t], s)) = 0 /\ Hold(h.linked) = 1
      BY <1>3, <1>6, <1>11 DEF Hold
    <3>2. item[s].refcount \in Nat /\ h.refcount = item[s].refcount
      BY <1>3, <1>6
    <3> DEFINE a == Hold(InHandOf(pull[t], s))
               b == Hold(InHandOf(pull'[t], s))
               d == Hold(item[s].linked)
               e == Hold(h.linked)
    <3> HIDE DEF a, b, d, e
    <3>3. h.refcount = ((item[s].refcount - a) - d) + b + e
      BY <3>1, <3>2 DEF a, b, d, e
    <3> QED BY <3>3 DEF a, b, d, e
  <2>2. item_lock[k] \in {None, t} /\ h.cas <= cas_id' /\ h.ver <= cas_id' /\ h.lru \in Queues
    BY <1>1, <1>2, <1>3, <1>6
  <2>3. /\ pull[t] # None /\ c' = c /\ h \in Headers /\ h.key = k /\ item'[s] = Settled(h) /\ item[s].key = k
        /\ item[s].linked \/ InHandOf(pull[t], s)
        /\ item[s].val = Empty => h.val = Empty
        /\ Moves(t, s)' => h.linked
        /\ h.linked => hash'[k] = s /\ h.cas > 0
    BY <1>1, <1>2, <1>3, <1>6, <1>8, <1>9
  <2>4. \A r \in Queues : s \in At(r)' <=> r = h.lru /\ h.linked /\ ~Moves(t, s)'
    BY <1>3, <1>6, <1>10, <1>12
  <2> QED BY <2>1, <2>2, <2>3, <2>4, WalkerTouched
<1>14. Rehashed(k)
  BY <1>2, <1>3, <1>6, <1>8 DEF Rehashed
<1>15. WalkerOK(t)'
  <2>1. At(q) \ {pull[t].search} \subseteq At(q)'
    BY <1>1, <1>10, RestKept
  <2> QED BY <1>1, <1>2, <2>1, AdvanceOK
<1> QED BY <1>1, <1>2, <1>8, <1>10, <1>11, <1>12, <1>13, <1>14, <1>15, WalkerOne

LEMMA PullTakeInv ==
  ASSUME IInv, NEW t \in Walkers, PullTake(t)
  PROVE  IInv'
<1>1. PICK s \in Chunks, k \in Keys, q \in Queues :
        /\ s = pull[t].search /\ k = item[s].key /\ q = pull[t].q
        /\ Looking(t) /\ item_lock[k] = None /\ lru_lock[q] = t /\ pull[t].cur # k
  BY TriedItem DEF PullTake
<1>2. /\ item[s] \in Headers /\ item[s].lru = q /\ item[s].refcount \in Nat /\ item[s].refcount >= 1
      /\ item[s].linked /\ hash[k] = s
      /\ \A r \in Queues : s \in At(r) <=> r = q
      /\ item[s].cas > 0 /\ item[s].cas <= cas_id /\ item[s].ver <= cas_id
  BY <1>1, LookedAt
<1>3. /\ item \in [Chunks -> Headers] /\ hash \in [Keys -> Chunks \cup {None}]
      /\ lru_lock \in [Queues -> Threads \cup {None}]
      /\ pull \in [Walkers -> PullRecord \cup {None}] /\ pull[t] \in PullRecord
  BY <1>1 DEF IInv, TypesOK, Looking
<1>4. PICK m \in Queues \cup {None} :
        m = CASE Full(q) -> "cold"
              [] q = "cold" /\ ~pull[t].evict /\ item[s].active /\ settings.lru_maintainer_thread -> "warm"
              [] OTHER -> None
  BY DEF Queues
<1>5. PICK evicts \in BOOLEAN : evicts = (q = "cold" /\ pull[t].evict)
  OBVIOUS
<1>6. evicts => m = None
  BY <1>4, <1>5 DEF Full
<1>7. PICK active \in BOOLEAN : active = IF m = "warm" THEN FALSE ELSE item[s].active
  BY <1>2 DEF Headers
<1>8. PICK n \in Nat : n = item[s].refcount + 1
  BY <1>2
<1>9. PICK g : g = [item[s] EXCEPT !.refcount = n, !.active = active]
  OBVIOUS
<1>10. PICK taken : taken = [item EXCEPT ![s] = g]
  OBVIOUS
<1>11. [refcount_incr(item, s) EXCEPT ![s].active = IF m = "warm" THEN FALSE ELSE @] = taken
  BY <1>3, <1>7, <1>8, <1>9, <1>10 DEF refcount_incr, Headers
<1>12. /\ UNCHANGED <<settings, cas_id, c, crawlers>> /\ pull[t] # None /\ Lock(t, k)
       /\ queue' = IF evicts \/ m # None THEN do_item_unlink_q(queue, q, s) ELSE queue
       /\ item' = IF evicts THEN Unlinked(taken, s) ELSE taken
       /\ hash' = IF evicts THEN [hash EXCEPT ![k] = None] ELSE hash
       /\ pull' = [pull EXCEPT ![t].it = s, ![t].move = m]
       /\ lru_lock' = [lru_lock EXCEPT ![q] = None]
  BY <1>1, <1>4, <1>5, <1>11 DEF PullTake, Looking
<1>13. /\ g \in Headers /\ g.refcount = item[s].refcount + 1 /\ g.key = k /\ g.lru = q /\ g.linked
       /\ g.val = item[s].val /\ g.cas = item[s].cas /\ g.ver = item[s].ver
  BY <1>1, <1>2, <1>8, <1>9 DEF Headers
<1>14. taken \in [Chunks -> Headers] /\ taken[s] = g /\ \A j \in Chunks \ {s} : taken[j] = item[j]
  BY <1>3, <1>10, <1>13
\* The header of the item afterwards.
<1>15. PICK h : h = IF evicts THEN Less([g EXCEPT !.linked = FALSE], 1) ELSE g
  OBVIOUS
<1>16. /\ h \in Headers /\ h.refcount \in Nat /\ h.refcount >= 1
       /\ h.refcount = item[s].refcount + Hold(~evicts) /\ (h.linked <=> ~evicts)
       /\ h.key = k /\ h.lru = q /\ h.val = item[s].val /\ h.cas = item[s].cas /\ h.ver = item[s].ver
       /\ item' \in [Chunks -> Headers] /\ item'[s] = h /\ \A j \in Chunks \ {s} : item'[j] = item[j]
  <2>1. CASE ~evicts
    BY <1>2, <1>12, <1>13, <1>14, <1>15, <2>1 DEF Hold
  <2>2. CASE evicts
    <3>1. PICK f : f = [g EXCEPT !.linked = FALSE]
      OBVIOUS
    <3>2. PICK I : I = [taken EXCEPT ![s] = f]
      OBVIOUS
    <3>3. /\ f \in Headers /\ f.refcount = item[s].refcount + 1 /\ f.key = k /\ f.lru = q /\ ~f.linked
          /\ f.val = item[s].val /\ f.cas = item[s].cas /\ f.ver = item[s].ver
      BY <1>13, <3>1 DEF Headers
    <3>4. I \in [Chunks -> Headers] /\ I[s] = f /\ \A j \in Chunks \ {s} : I[j] = item[j]
      BY <1>14, <3>2, <3>3
    <3>5. item' = do_item_remove(I, s)
      <4>1. [taken EXCEPT ![s].linked = FALSE] = I
        BY <1>14, <3>1, <3>2
      <4> QED BY <1>12, <2>2, <4>1 DEF Unlinked
    <3>6. I[s].refcount >= 1 /\ f.refcount >= 1
      BY <1>2, <3>3, <3>4
    <3>7. /\ do_item_remove(I, s) \in [Chunks -> Headers] /\ do_item_remove(I, s)[s] = Settled(Less(f, 1))
          /\ \A j \in Chunks \ {s} : do_item_remove(I, s)[j] = I[j]
      BY <3>4, <3>6, RemoveOnce
    <3>8. h = Less(f, 1)
      BY <1>15, <2>2, <3>1
    <3>9. /\ h \in Headers /\ h.refcount = f.refcount - 1
          /\ h.key = f.key /\ h.lru = f.lru /\ h.linked = f.linked
          /\ h.val = f.val /\ h.cas = f.cas /\ h.ver = f.ver
      BY <3>3, <3>6, <3>8, LessTyped
    <3>10. h.refcount = item[s].refcount /\ h.refcount \in Nat /\ h.refcount >= 1
      BY <1>2, <3>3, <3>9
    <3>11. Settled(h) = h
      BY <3>10 DEF Settled
    <3>12. /\ item' \in [Chunks -> Headers] /\ item'[s] = h
           /\ \A j \in Chunks \ {s} : item'[j] = item[j]
      BY <3>4, <3>5, <3>7, <3>8, <3>11
    <3> QED BY <2>2, <3>3, <3>9, <3>10, <3>12, <1>2 DEF Hold
  <2> QED BY <2>1, <2>2
<1>17. /\ QueueStep(t) /\ CrawlersStay
       /\ \A j \in Chunks \ {s} : \A r \in Queues : j \in At(r)' <=> j \in At(r)
       /\ \A r \in Queues : s \in At(r)' <=> r = q /\ ~evicts /\ m = None
  <2>1. CASE evicts \/ m # None
    <3>1. s \in At(q) /\ lru_lock[q] \in {None, t} /\ queue' = do_item_unlink_q(queue, q, s)
      BY <1>1, <1>2, <1>12, <2>1
    <3>2. /\ QueueStep(t) /\ CrawlersStay
          /\ \A r \in Queues : s \notin At(r)'
          /\ \A j \in Chunks \ {s} : \A r \in Queues : j \in At(r)' <=> j \in At(r)
      BY <3>1, OutOfQueue
    <3> QED BY <2>1, <3>2
  <2>2. CASE ~(evicts \/ m # None)
    <3>1. queue' = queue
      BY <1>12, <2>2
    <3> QED BY <1>2, <2>2, <3>1, SameQueues
  <2> QED BY <2>1, <2>2
<1>18. PICK p : p = [pull[t] EXCEPT !.it = s, !.move = m]
  OBVIOUS
<1>19. p \in PullRecord /\ p.it = s /\ p.move = m /\ p # None /\ s # None
  <2>1. p \in PullRecord /\ p.it = s /\ p.move = m
    BY <1>3, <1>18 DEF PullRecord
  <2>2. p # None /\ s # None
    BY <2>1, ItemsAssumption
  <2> QED BY <2>1, <2>2
<1>20. pull' = [pull EXCEPT ![t] = p]
  BY <1>3, <1>12, <1>18
<1>21. pull' \in [Walkers -> PullRecord \cup {None}] /\ pull'[t] = p /\ PullStep(t)
  BY <1>3, <1>19, <1>20 DEF PullStep
<1>22. LruLockStep(t)
  BY <1>1, <1>3, <1>12 DEF LruLockStep
<1>23. \A i \in Chunks : /\ ~InHandOf(pull[t], i) /\ ~Moves(t, i)
                         /\ InHandOf(pull'[t], i) <=> i = s
                         /\ Moves(t, i)' <=> i = s /\ m # None
  <2>1. \A i \in Chunks : ~InHandOf(pull[t], i)
    BY <1>1, ItemsAssumption DEF Looking, InHandOf
  <2>2. \A i \in Chunks : InHandOf(pull'[t], i) <=> i = s
    BY <1>19, <1>21 DEF InHandOf
  <2> QED BY <1>19, <1>21, <2>1, <2>2 DEF Moves
<1>24. Touched(t, k, s, h)
  <2>1. h.refcount = ((item[s].refcount - Hold(InHandOf(pull[t], s))) - Hold(item[s].linked))
                       + Hold(InHandOf(pull'[t], s)) + Hold(h.linked)
    <3>1. /\ Hold(InHandOf(pull[t], s)) = 0 /\ Hold(item[s].linked) = 1
          /\ Hold(InHandOf(pull'[t], s)) = 1 /\ Hold(h.linked) = Hold(~evicts) /\ Hold(~evicts) \in Nat
      BY <1>2, <1>16, <1>23 DEF Hold
    <3>2. item[s].refcount \in Nat /\ h.refcount = item[s].refcount + Hold(~evicts)
      BY <1>2, <1>16
    <3> DEFINE a == Hold(InHandOf(pull[t], s))
               b == Hold(InHandOf(pull'[t], s))
               d == Hold(item[s].linked)
               e == Hold(h.linked)
               f == Hold(~evicts)
    <3> HIDE DEF a, b, d, e, f
    <3>3. h.refcount = ((item[s].refcount - a) - d) + b + e
      BY <3>1, <3>2 DEF a, b, d, e, f
    <3> QED BY <3>3 DEF a, b, d, e
  <2>2. item_lock[k] \in {None, t} /\ h.cas <= cas_id' /\ h.ver <= cas_id' /\ h.lru \in Queues
    BY <1>1, <1>2, <1>12, <1>16
  <2>3. Settled(h) = h
    BY <1>16 DEF Settled
  <2>4. h.linked => hash'[k] = s /\ h.cas > 0
    BY <1>2, <1>12, <1>16
  <2>5. /\ pull[t] # None /\ c' = c /\ h \in Headers /\ h.key = k /\ item'[s] = Settled(h) /\ item[s].key = k
        /\ item[s].linked \/ InHandOf(pull[t], s)
        /\ item[s].val = Empty => h.val = Empty
        /\ Moves(t, s)' => h.linked
    BY <1>1, <1>2, <1>6, <1>12, <1>16, <1>23, <2>3
  <2>6. \A r \in Queues : s \in At(r)' <=> r = h.lru /\ h.linked /\ ~Moves(t, s)'
    BY <1>16, <1>17, <1>23
  <2> QED BY <2>1, <2>2, <2>4, <2>5, <2>6, WalkerTouched
<1>25. \/ hash' = hash
       \/ item_lock[k] = None /\ \E j \in Chunks \cup {None} : hash' = [hash EXCEPT ![k] = j]
  BY <1>1, <1>12
<1>26. Rehashed(k)
  <2>1. evicts => hash'[k] = None
    BY <1>3, <1>12
  <2>2. ~evicts => hash'[k] = s
    BY <1>2, <1>12
  <2> QED BY <1>2, <1>16, <2>1, <2>2 DEF Rehashed
<1>27. WalkerOK(t)'
  <2>1. item_lock'[k] = t
    BY <1>12 DEF Lock, IInv, TypesOK
  <2>2. t \in Workers /\ Commands(t)' => k # c'[t].key
    <3>1. Commands(t)' <=> Commands(t)
      BY <1>12 DEF Commands
    <3>2. t \in Workers /\ Commands(t) => pull[t].cur = c[t].key
      BY <1>1 DEF IInv, WalkerOK, Looking
    <3> QED BY <1>1, <1>12, <3>1, <3>2
  <2>3. pull'[t].it # None
    BY <1>19, <1>21
  <2>4. \A i \in Chunks : InHandOf(pull'[t], i) =>
          /\ item'[i].key \in Keys /\ item_lock'[item'[i].key] = t
          /\ t \in Workers /\ Commands(t)' => item'[i].key # c'[t].key
    BY <1>16, <1>23, <2>1, <2>2
  <2> QED BY <2>3, <2>4 DEF WalkerOK, InHandOf
<1>28. \A j \in Chunks \ {s} : /\ item'[j] = item[j]
                               /\ \A r \in Queues : j \in At(r)' <=> j \in At(r)
                               /\ InHandOf(pull'[t], j) <=> InHandOf(pull[t], j)
                               /\ Moves(t, j)' <=> Moves(t, j)
  BY <1>16, <1>17, <1>23
<1>29. item' \in [Chunks -> Headers] /\ QueueStep(t) /\ CrawlersStay
  BY <1>16, <1>17
<1> QED BY <1>12, <1>21, <1>22, <1>24, <1>25, <1>26, <1>27, <1>28, <1>29, WalkerOne

LEMMA PullFinishInv ==
  ASSUME IInv, NEW t \in Walkers, PullFinish(t)
  PROVE  IInv'
<1>1. pull \in [Walkers -> PullRecord \cup {None}] /\ pull[t] \in PullRecord /\ pull[t] # None
      /\ item \in [Chunks -> Headers] /\ lru_lock \in [Queues -> Threads \cup {None}]
  BY DEF PullFinish, IInv, TypesOK
<1>2. PICK s \in Chunks, m \in Queues \cup {None} : s = pull[t].it /\ m = pull[t].move
  BY <1>1 DEF PullFinish, PullRecord
<1>3. PICK k \in Keys : k = item[s].key
  BY <1>1, <1>2, InItsHand DEF InHandOf
<1>4. /\ UNCHANGED <<settings, hash, cas_id, lru_lock, c, crawlers>> /\ Unlock(k)
      /\ pull' = [pull EXCEPT ![t] = None]
      /\ \/ m = None /\ queue' = queue /\ item' = do_item_remove(item, s)
         \/ /\ m # None /\ lru_lock[m] = None
            /\ queue' = do_item_link_q(queue, m, s)
            /\ item' = do_item_remove([item EXCEPT ![s].lru = m], s)
  BY <1>2, <1>3 DEF PullFinish
<1>5. (\A i \in Chunks : InHandOf(pull[t], i) <=> i = s) /\ (Moves(t, s) <=> m # None)
  BY <1>1, <1>2 DEF InHandOf, Moves
<1>6. /\ item[s] \in Headers /\ item[s].lru \in Queues /\ item_lock[k] = t
      /\ item[s].refcount \in Nat /\ item[s].refcount >= Hold(item[s].linked) + 1
      /\ item[s].linked => hash[k] = s /\ item[s].cas > 0
      /\ \A q \in Queues : s \in At(q) <=> q = item[s].lru /\ item[s].linked /\ m = None
      /\ m # None => item[s].linked
      /\ item[s].cas <= cas_id /\ item[s].ver <= cas_id
      /\ t \in Workers /\ Commands(t) => k # c[t].key
  BY <1>3, <1>5, InItsHand
<1>7. PICK q \in Queues : q = IF m = None THEN item[s].lru ELSE m
  BY <1>6
<1>8. PICK g : g = [item[s] EXCEPT !.lru = q]
  OBVIOUS
<1>9. PICK I : I = [item EXCEPT ![s] = g]
  OBVIOUS
<1>10. /\ g \in Headers /\ g.refcount = item[s].refcount /\ g.key = k /\ g.lru = q /\ g.linked = item[s].linked
       /\ g.val = item[s].val /\ g.cas = item[s].cas /\ g.ver = item[s].ver
  BY <1>3, <1>6, <1>8 DEF Headers
<1>11. I \in [Chunks -> Headers] /\ I[s] = g /\ \A j \in Chunks \ {s} : I[j] = item[j]
  BY <1>1, <1>9, <1>10
<1>12. item' = do_item_remove(I, s)
  <2>1. CASE m = None
    <3>1. g = item[s]
      BY <1>6, <1>7, <1>8, <2>1 DEF Headers
    <3>2. I = item
      BY <1>1, <1>9, <3>1
    <3> QED BY <1>2, <1>4, <2>1, <3>2, ItemsAssumption
  <2>2. CASE m # None
    <3>1. [item EXCEPT ![s].lru = m] = I
      BY <1>1, <1>7, <1>8, <1>9, <2>2
    <3> QED BY <1>4, <2>2, <3>1
  <2> QED BY <2>1, <2>2
<1>13. PICK h : h = Less(g, 1)
  OBVIOUS
<1>14. Hold(item[s].linked) \in {0, 1} /\ g.refcount >= 1 /\ I[s].refcount >= 1
  BY <1>6, <1>10, <1>11 DEF Hold
<1>15. /\ item' \in [Chunks -> Headers] /\ item'[s] = Settled(h)
       /\ \A j \in Chunks \ {s} : item'[j] = item[j]
  <2>1. /\ do_item_remove(I, s) \in [Chunks -> Headers] /\ do_item_remove(I, s)[s] = Settled(Less(g, 1))
        /\ \A j \in Chunks \ {s} : do_item_remove(I, s)[j] = I[j]
    BY <1>11, <1>14, RemoveOnce
  <2> QED BY <1>11, <1>12, <1>13, <2>1
<1>16. /\ h \in Headers /\ h.refcount = item[s].refcount - 1 /\ h.key = k /\ h.lru = q
       /\ h.linked = item[s].linked
       /\ h.val = item[s].val /\ h.cas = item[s].cas /\ h.ver = item[s].ver
  <2>1. /\ h \in Headers /\ h.refcount = g.refcount - 1
        /\ h.key = g.key /\ h.lru = g.lru /\ h.linked = g.linked
        /\ h.val = g.val /\ h.cas = g.cas /\ h.ver = g.ver
    BY <1>10, <1>13, <1>14, LessTyped
  <2> QED BY <1>10, <2>1
<1>17. /\ QueueStep(t) /\ CrawlersStay
       /\ \A r \in Queues : s \in At(r)' <=> r = q /\ item[s].linked
       /\ \A j \in Chunks \ {s} : \A r \in Queues : j \in At(r)' <=> j \in At(r)
  <2>1. CASE m = None
    <3>1. queue' = queue /\ q = item[s].lru
      BY <1>4, <1>7, <2>1
    <3>2. \A r \in Queues : s \in At(r) <=> r = q /\ item[s].linked
      BY <1>6, <2>1, <3>1
    <3>3. QueueStep(t) /\ CrawlersStay /\ \A j, r : j \in At(r)' <=> j \in At(r)
      BY <3>1, SameQueues
    <3> QED BY <3>2, <3>3
  <2>2. CASE m # None
    <3>1. /\ q = m /\ lru_lock[q] \in {None, t} /\ queue' = do_item_link_q(queue, q, s)
          /\ \A r \in Queues : s \notin At(r)
      BY <1>4, <1>6, <1>7, <2>2
    <3>2. /\ QueueStep(t) /\ CrawlersStay
          /\ \A r \in Queues : s \in At(r)' <=> r = q
          /\ \A j \in Chunks \ {s} : \A r \in Queues : j \in At(r)' <=> j \in At(r)
      BY <3>1, IntoQueue
    <3> QED BY <1>6, <2>2, <3>2
  <2> QED BY <2>1, <2>2
<1>18. /\ pull' \in [Walkers -> PullRecord \cup {None}] /\ pull'[t] = None /\ PullStep(t)
       /\ \A i \in Chunks : ~InHandOf(pull'[t], i) /\ ~Moves(t, i)'
  <2>1. pull' \in [Walkers -> PullRecord \cup {None}] /\ pull'[t] = None /\ PullStep(t)
    BY <1>1, <1>4 DEF PullStep
  <2> QED BY <2>1 DEF InHandOf, Moves
<1>19. LruLockStep(t)
  BY <1>1, <1>4 DEF LruLockStep
<1>20. Touched(t, k, s, h)
  <2>1. h.refcount = ((item[s].refcount - Hold(InHandOf(pull[t], s))) - Hold(item[s].linked))
                       + Hold(InHandOf(pull'[t], s)) + Hold(h.linked)
    <3>1. /\ Hold(InHandOf(pull[t], s)) = 1 /\ Hold(item[s].linked) \in Nat
          /\ Hold(InHandOf(pull'[t], s)) = 0 /\ Hold(h.linked) = Hold(item[s].linked)
      BY <1>5, <1>14, <1>16, <1>18 DEF Hold
    <3>2. item[s].refcount \in Nat /\ h.refcount = item[s].refcount - 1
      BY <1>6, <1>16
    <3> DEFINE a == Hold(InHandOf(pull[t], s))
               b == Hold(InHandOf(pull'[t], s))
               d == Hold(item[s].linked)
               e == Hold(h.linked)
    <3> HIDE DEF a, b, d, e
    <3>3. h.refcount = ((item[s].refcount - a) - d) + b + e
      BY <3>1, <3>2 DEF a, b, d, e
    <3> QED BY <3>3 DEF a, b, d, e
  <2>2. item_lock[k] \in {None, t} /\ h.cas <= cas_id' /\ h.ver <= cas_id' /\ h.lru \in Queues
    BY <1>4, <1>6, <1>16
  <2>3. h.linked => hash'[k] = s /\ h.cas > 0
    BY <1>4, <1>6, <1>16
  <2>4. /\ pull[t] # None /\ c' = c /\ h \in Headers /\ h.key = k /\ item'[s] = Settled(h) /\ item[s].key = k
        /\ item[s].linked \/ InHandOf(pull[t], s)
        /\ item[s].val = Empty => h.val = Empty
        /\ Moves(t, s)' => h.linked
    BY <1>1, <1>3, <1>4, <1>5, <1>15, <1>16, <1>18
  <2>5. \A r \in Queues : s \in At(r)' <=> r = h.lru /\ h.linked /\ ~Moves(t, s)'
    BY <1>16, <1>17, <1>18
  <2> QED BY <2>1, <2>2, <2>3, <2>4, <2>5, WalkerTouched
<1>21. Rehashed(k)
  <2>1. item[s].linked => item'[s] = h
    <3>1. item[s].linked => h.refcount # 0
      BY <1>6, <1>16 DEF Hold
    <3> QED BY <1>15, <3>1 DEF Settled
  <2>2. hash[k] # None => hash[k] \in Chunks /\ item[hash[k]].linked /\ item[hash[k]].key = k
    BY DEF IInv, TypesOK, TableOK
  <2>3. hash[k] # None => item'[hash[k]].linked /\ item'[hash[k]].key = k
    <3>1. CASE hash[k] = s
      BY <1>16, <2>1, <2>2, <3>1
    <3>2. CASE hash[k] # s
      BY <1>15, <2>2, <3>2
    <3> QED BY <3>1, <3>2
  <2> QED BY <1>4, <2>3 DEF Rehashed
<1>22. WalkerOK(t)'
  BY <1>18 DEF WalkerOK, InHandOf
<1>23. \A j \in Chunks \ {s} : /\ item'[j] = item[j]
                               /\ \A r \in Queues : j \in At(r)' <=> j \in At(r)
                               /\ InHandOf(pull'[t], j) <=> InHandOf(pull[t], j)
                               /\ Moves(t, j)' <=> Moves(t, j)
  <2>1. \A j \in Chunks \ {s} : ~Moves(t, j)
    BY <1>5 DEF Moves
  <2> QED BY <1>5, <1>15, <1>17, <1>18, <2>1
<1>24. t \in Workers /\ Commands(t) => c[t].key # k
  BY <1>6
<1> QED BY <1>1, <1>4, <1>6, <1>15, <1>17, <1>18, <1>19, <1>20, <1>21, <1>22, <1>23, <1>24, WalkerOne

-----------------------------------------------------------------------------
(* A walk begins. *)

LEMMA PullStarted ==
  ASSUME IInv, NEW t \in Walkers, NEW q \in Queues, NEW evict \in BOOLEAN, NEW cur \in Keys \cup {None},
         PullStart(t, q, evict, cur), queue' = queue
  PROVE  /\ PullStep(t) /\ LruLockStep(t)
         /\ \A i \in Chunks : ~InHandOf(pull'[t], i) /\ ~InHandOf(pull[t], i)
         /\ pull'[t] # None =>
              /\ pull'[t].it = None /\ pull'[t].move = None /\ pull'[t].cur = cur
              /\ lru_lock'[pull'[t].q] = t /\ pull'[t].search \in RangeOf(queue'[pull'[t].q])
<1>1. /\ pull \in [Walkers -> PullRecord \cup {None}] /\ lru_lock \in [Queues -> Threads \cup {None}]
      /\ queue[q] \in Seq(Chunks \cup {"crawler"}) /\ t \in Threads
  BY DEF IInv, TypesOK, Walkers, Threads
<1>2. pull[t] = None /\ lru_lock[q] = None
  BY DEF PullStart
<1>3. \A i \in Chunks : ~InHandOf(pull[t], i)
  BY <1>2 DEF InHandOf
<1>4. CASE queue[q] = <<>>
  <2>1. lru_lock' = lru_lock /\ pull' = pull
    BY <1>4 DEF PullStart
  <2> QED BY <1>1, <1>2, <1>3, <2>1 DEF PullStep, LruLockStep
<1>5. CASE queue[q] # <<>>
  <2>1. Len(queue[q]) \in Nat /\ Len(queue[q]) # 0 /\ DOMAIN queue[q] = 1..Len(queue[q])
    BY <1>1, <1>5, LenProperties, EmptySeq
  <2>2. Last(queue[q]) = queue[q][Len(queue[q])]
    BY DEF Last
  <2>3. Len(queue[q]) \in DOMAIN queue[q]
    BY <2>1
  <2>4. PICK s \in Chunks \cup {"crawler"} : s = Last(queue[q]) /\ s \in RangeOf(queue[q])
    BY <1>1, <2>1, <2>2, <2>3, ElementOfSeq DEF RangeOf
  <2>5. PICK p : p = [q |-> q, evict |-> evict, cur |-> cur, tries |-> Tries,
                      search |-> Last(queue[q]), it |-> None, move |-> None]
    OBVIOUS
  <2>6. lru_lock' = [lru_lock EXCEPT ![q] = t] /\ pull' = [pull EXCEPT ![t] = p]
    BY <1>5, <2>5 DEF PullStart
  <2>7. /\ p \in PullRecord /\ p.it = None /\ p.move = None /\ p.cur = cur /\ p.q = q
        /\ p.search = s
    BY <2>4, <2>5, ItemsAssumption DEF PullRecord
  <2>8. pull' \in [Walkers -> PullRecord \cup {None}] /\ pull'[t] = p /\ PullStep(t)
    BY <1>1, <2>6, <2>7 DEF PullStep
  <2>9. LruLockStep(t) /\ lru_lock'[q] = t
    BY <1>1, <1>2, <2>6 DEF LruLockStep
  <2>10. \A i \in Chunks : ~InHandOf(pull'[t], i)
    BY <2>7, <2>8, ItemsAssumption DEF InHandOf
  <2>11. p.search \in RangeOf(queue'[q])
    BY <2>4, <2>7
  <2> QED BY <1>3, <2>7, <2>8, <2>9, <2>10, <2>11
<1> QED BY <1>4, <1>5

LEMMA StartInv ==
  ASSUME IInv, NEW t \in Walkers, OtherThreads(t), PullStep(t), LruLockStep(t),
         UNCHANGED <<settings, item, hash, queue, cas_id, item_lock, crawlers>>,
         IsTable(c)', t \in Workers => IsConnection(c'[t]) /\ WorkerOK(t)', WalkerOK(t)',
         \A i \in Chunks : /\ ~InHandOf(pull'[t], i) /\ ~InHandOf(pull[t], i)
                           /\ t \in Workers => /\ Unqueues(t, i)' <=> Unqueues(t, i)
                                               /\ Requeues(t, i)' <=> Requeues(t, i)
                                               /\ Fresh(t, i)' => Fresh(t, i)
                                               /\ Incring(t, i)' => Incring(t, i)
                                               /\ c'[t].it = c[t].it /\ c'[t].old = c[t].old
                                               /\ c'[t].new = c[t].new,
         t \in Workers /\ Pending(t)' => Pending(t)
  PROVE  IInv'
<1>1. PICK k \in Keys : TRUE
  BY ItemsAssumption
<1>2. t \in Threads
  BY DEF Threads, Walkers
<1>3. QueueStep(t) /\ CrawlersStay /\ \A j, r : j \in At(r)' <=> j \in At(r)
  BY SameQueues
<1>4. ASSUME NEW i \in Chunks PROVE Untouched(t, i)
  <2>1. ~Moves(t, i) /\ ~Moves(t, i)'
    BY DEF Moves
  <2>2. /\ Unq(t, i)' <=> Unq(t, i)
        /\ Req(t, i)' <=> Req(t, i)
        /\ Upload(t, i)' => Upload(t, i)
        /\ Incs(t, i)' => Incs(t, i)
    BY <2>1 DEF Unq, Req, Upload, Incs
  <2>3. InPull(t, i)' <=> InPull(t, i)
    BY DEF InPull, InHandOf
  <2> QED BY <1>3, <2>2, <2>3 DEF Untouched, SameIn
<1>5. TypesOK /\ TableOK /\ CrawlersOK
  BY DEF IInv
<1>6. CrawlersOK'
  <2>1. \A q \in Queues : "crawler" \in At(q)' <=> q \in crawlers'.running
    BY <1>3, <1>5 DEF CrawlersOK, CrawlersStay
  <2> QED BY <1>5, <2>1 DEF CrawlersOK, Lrus
<1>7. Guarded(t, k)
  BY <1>3, <1>5 DEF Guarded, TypesOK, QueueStep, PullStep, LruLockStep
<1>8. Rehashed(k) /\ CasGiven(t)
  BY <1>5 DEF Rehashed, CasGiven, TableOK
<1> QED BY <1>2, <1>4, <1>6, <1>7, <1>8, StepInv

LEMMA JuggleInv == ASSUME IInv, lru_maintainer_juggle PROVE IInv'
<1>1. PICK t \in Walkers : t = "maintainer"
  BY DEF Walkers
<1>2. t \notin Workers
  BY <1>1, ItemsAssumption
<1>3. UNCHANGED <<settings, item, hash, queue, cas_id, item_lock, c, crawlers>>
  BY DEF lru_maintainer_juggle
<1>4. PICK q \in Queues, cur \in Keys \cup {None}, evict \in BOOLEAN : PullStart(t, q, evict, cur)
  <2>1. PICK q \in Queues : PullStart("maintainer", q, FALSE, None)
    BY DEF lru_maintainer_juggle
  <2>2. PullStart(t, q, FALSE, None)
    BY <1>1, <2>1
  <2> QED BY <2>2
<1>5. /\ PullStep(t) /\ LruLockStep(t)
      /\ \A i \in Chunks : ~InHandOf(pull'[t], i) /\ ~InHandOf(pull[t], i)
      /\ pull'[t] # None =>
           /\ pull'[t].it = None /\ pull'[t].move = None /\ pull'[t].cur = cur
           /\ lru_lock'[pull'[t].q] = t /\ pull'[t].search \in RangeOf(queue'[pull'[t].q])
  BY <1>3, <1>4, PullStarted
<1>6. WalkerOK(t)'
  BY <1>2, <1>5 DEF WalkerOK, InHandOf, At
<1>7. OtherThreads(t) /\ IsTable(c)'
  BY <1>3, <1>5 DEF OtherThreads, PullStep, IInv, TypesOK, IsTable
<1> QED BY <1>2, <1>3, <1>5, <1>6, <1>7, StartInv

LEMMA AllocPullInv == ASSUME IInv, NEW w \in Workers, AllocPull(w) PROVE IInv'
<1>1. IsTable(c) /\ IsConnection(c[w]) /\ WorkerOK(w) /\ w \in Walkers
  BY DEF IInv, TypesOK, Walkers
<1>2. UNCHANGED <<settings, item, hash, queue, cas_id, item_lock, crawlers>>
  BY DEF AllocPull
<1>3. c[w].todo \in Seq(PullRequest) /\ c[w].todo # <<>>
  BY <1>1 DEF AllocPull, WorkerOK, ConnectionOK
<1>4. Head(c[w].todo) \in PullRequest /\ Tail(c[w].todo) \in Seq(PullRequest)
  BY <1>3, HeadTailProperties
<1>5. /\ IsTable(c)' /\ IsConnection(c'[w]) /\ OtherWorkers(w) /\ pull[w] = None
      /\ c[w].pc = "alloc" /\ c'[w].pc = "alloc" /\ c'[w].cmd = c[w].cmd /\ c'[w].key = c[w].key
      /\ c'[w].it = c[w].it /\ c'[w].old = c[w].old /\ c'[w].new = c[w].new
      /\ c'[w].todo \in Seq(PullRequest) /\ c'[w].unique = c[w].unique
  <2>1. PICK todo \in Seq(PullRequest) : todo = Tail(c[w].todo)
    BY <1>4
  <2>2. c' = [c EXCEPT ![w].todo = todo]
    BY <2>1 DEF AllocPull
  <2> QED BY <1>1, <2>2 DEF AllocPull, Running, OtherWorkers, IsTable, IsConnection, Fields
<1>6. PICK q \in Queues, cur \in Keys \cup {None}, evict \in BOOLEAN :
        PullStart(w, q, evict, cur) /\ cur = IF c[w].old = None THEN None ELSE c[w].key
  <2>1. Head(c[w].todo).q \in Queues /\ Head(c[w].todo).evict \in BOOLEAN
    BY <1>4 DEF PullRequest
  <2>2. c[w].key \in Keys \cup {None}
    BY <1>1 DEF WorkerOK, ConnectionOK
  <2> QED BY <2>1, <2>2 DEF AllocPull
<1>7. /\ PullStep(w) /\ LruLockStep(w)
      /\ \A i \in Chunks : ~InHandOf(pull'[w], i) /\ ~InHandOf(pull[w], i)
      /\ pull'[w] # None =>
           /\ pull'[w].it = None /\ pull'[w].move = None /\ pull'[w].cur = cur
           /\ lru_lock'[pull'[w].q] = w /\ pull'[w].search \in RangeOf(queue'[pull'[w].q])
  BY <1>1, <1>2, <1>6, PullStarted
<1>8. WorkerOK(w)'
  <2>1. ConnectionOK(c'[w])
    BY <1>1, <1>5, ItemsAssumption DEF WorkerOK, ConnectionOK, Locked, Pcs
  <2>2. /\ Commands(w)' => item_lock'[c'[w].key] = w
        /\ c'[w].pc = "found" \/ (c'[w].pc = "alloc" /\ c'[w].old # None) => hash'[c'[w].key] = c'[w].old
        /\ c'[w].pc \in {"reap", "swap", "link"} => hash'[c'[w].key] = None
    BY <1>1, <1>2, <1>5 DEF WorkerOK, ConnectionOK, Commands, Locked
  <2>3. \A i \in Chunks : i \in {c'[w].it, c'[w].old, c'[w].new} => item'[i].key = c'[w].key
    BY <1>1, <1>2, <1>5, ItemsAssumption DEF WorkerOK, ConnectionOK
  <2> QED BY <1>5, <2>1, <2>2, <2>3 DEF WorkerOK
<1>9. WalkerOK(w)'
  <2>1. Commands(w)' => cur = c'[w].key
    BY <1>5, <1>6 DEF Commands, Locked
  <2> QED BY <1>7, <2>1 DEF WalkerOK, InHandOf, At
<1>10. \A i \in Chunks : /\ Unqueues(w, i)' <=> Unqueues(w, i)
                         /\ Requeues(w, i)' <=> Requeues(w, i)
                         /\ Fresh(w, i)' => Fresh(w, i)
                         /\ Incring(w, i)' => Incring(w, i)
  BY <1>5 DEF Unqueues, Requeues, Fresh, Incring, Commands, Locked
<1>11. Pending(w)' => Pending(w)
  BY <1>5 DEF Pending
<1>12. OtherThreads(w)
  BY <1>5, <1>7 DEF OtherThreads, OtherWorkers, PullStep
<1> QED BY <1>1, <1>2, <1>5, <1>7, <1>8, <1>9, <1>10, <1>11, <1>12, StartInv

-----------------------------------------------------------------------------
(* The crawler. *)

LEMMA SwapFacts ==
  ASSUME NEW S, NEW list \in Seq(S), NoDuplicates(list), NEW a \in RangeOf(list), NEW b \in RangeOf(list),
         a # b, NEW more,
         more = [n \in DOMAIN list |-> CASE list[n] = a -> b [] list[n] = b -> a [] OTHER -> list[n]]
  PROVE  more \in Seq(S) /\ NoDuplicates(more) /\ RangeOf(more) = RangeOf(list)
<1>1. Len(list) \in Nat /\ DOMAIN list = 1..Len(list) /\ list \in [1..Len(list) -> S]
  BY LenProperties
<1>2. a \in S /\ b \in S
  BY <1>1 DEF RangeOf
<1>3. \A n \in DOMAIN list : /\ list[n] = a => more[n] = b
                             /\ list[n] = b => more[n] = a
                             /\ list[n] # a /\ list[n] # b => more[n] = list[n]
  OBVIOUS
<1>4. DOMAIN more = DOMAIN list /\ more = [n \in DOMAIN list |-> more[n]]
  OBVIOUS
<1>5. \A n \in DOMAIN list : more[n] \in S
  BY <1>1, <1>2, <1>3
<1>6. more \in [1..Len(list) -> S]
  BY <1>1, <1>4, <1>5
<1>7. more \in Seq(S)
  BY <1>1, <1>6
<1>8. NoDuplicates(more)
  BY <1>3, <1>4 DEF NoDuplicates
<1>9. RangeOf(more) \subseteq RangeOf(list)
  BY <1>3, <1>4 DEF RangeOf
<1>10. ASSUME NEW n \in DOMAIN list PROVE list[n] \in RangeOf(more)
  <2>1. PICK i \in DOMAIN list, j \in DOMAIN list : list[i] = a /\ list[j] = b
    BY DEF RangeOf
  <2>2. more[i] = b /\ more[j] = a
    BY <1>3, <2>1
  <2> QED BY <1>3, <1>4, <2>2 DEF RangeOf
<1>11. RangeOf(list) \subseteq RangeOf(more)
  BY <1>10 DEF RangeOf
<1> QED BY <1>7, <1>8, <1>9, <1>11

LEMMA CrawlerTouched ==
  ASSUME IInv, NEW t \in Threads, t \notin Workers, t \notin Walkers, NEW k \in Keys, NEW i \in Chunks, NEW h,
         h \in Headers, h.key = k, h.lru \in Queues, item'[i] = Settled(h),
         item[i].key = k, item_lock[k] = None, item[i].linked, item[i].val = Empty => h.val = Empty,
         \A q \in Queues : i \in At(q)' <=> q = h.lru /\ h.linked,
         h.refcount = (item[i].refcount - 1) + Hold(h.linked),
         h.linked => hash'[k] = i /\ h.cas > 0,
         h.cas <= cas_id', h.ver <= cas_id'
  PROVE  Touched(t, k, i, h)
<1>1. /\ ~Unq(t, i) /\ ~Unq(t, i)' /\ ~Req(t, i)' /\ ~Upload(t, i)' /\ ~Incs(t, i)'
      /\ ~InPull(t, i) /\ ~InPull(t, i)'
  BY DEF Unq, Req, Upload, Incs, InPull
<1>2. InConn(t, i) = 0 /\ InConn(t, i)' = 0
  BY DEF InConn
<1>3. Hold(InPull(t, i)) = 0 /\ Hold(InPull(t, i)') = 0
  BY <1>1 DEF Hold
<1>4. HeldBy(t, i) = 0 /\ HeldBy(t, i)' = 0
  <2>1. HeldBy(t, i)' = InConn(t, i)' + Hold(InPull(t, i)')
    BY DEF HeldBy, Hold
  <2> QED BY <1>2, <1>3, <2>1 DEF HeldBy
<1>5. Hold(Unq(t, i)' \/ h.linked) = Hold(h.linked) /\ Hold(Unq(t, i) \/ item[i].linked) = 1
  BY <1>1 DEF Hold
<1>6. Gain(t, i, h) = 0
  <2>1. PICK e \in Nat : e = Hold(h.linked)
    BY DEF Hold
  <2>2. PICK r \in Nat : r = item[i].refcount
    BY DEF IInv, TypesOK, Headers
  <2>3. PICK x \in Nat : x = h.refcount
    BY DEF Headers
  <2>4. x = (r - 1) + e
    BY <2>1, <2>2, <2>3
  <2>5. DueTo(t, i) = 1
    BY <1>4, <1>5 DEF DueTo
  <2>6. Gain(t, i, h) = (x - 0 - e) - (r - 1)
    BY <1>4, <1>5, <2>1, <2>2, <2>3, <2>5 DEF Gain
  <2> QED BY <2>4, <2>6
<1> QED BY <1>1, <1>6 DEF Touched

LEMMA CrawlerInv ==
  ASSUME IInv, NEW t \in Threads, t \notin Workers, t \notin Walkers, NEW k \in Keys,
         UNCHANGED <<settings, cas_id, item_lock, lru_lock, c, pull>>,
         item' = [i \in Chunks |-> item'[i]], QueueStep(t), CrawlersOK', Rehashed(k),
         \/ hash' = hash
         \/ item_lock[k] = None /\ \E j \in Chunks \cup {None} : hash' = [hash EXCEPT ![k] = j],
         \A i \in Chunks :
           \/ item'[i] = item[i] /\ \A q \in Queues : i \in At(q)' <=> i \in At(q)
           \/ \E h : Touched(t, k, i, h)
  PROVE  IInv'
<1>1. TypesOK
  BY DEF IInv
<1>2. /\ hash' \in [Keys -> Chunks \cup {None}]
      /\ \A l \in Keys \ {k} : hash'[l] = hash[l]
      /\ hash'[k] = hash[k] \/ item_lock[k] = None
  BY <1>1 DEF TypesOK
<1>3. Guarded(t, k)
  BY <1>1, <1>2 DEF Guarded, TypesOK, QueueStep, OtherThreads, IsTable
<1>4. CasGiven(t)
  BY DEF CasGiven
<1>5. ASSUME NEW i \in Chunks, item'[i] = item[i], \A q \in Queues : i \in At(q)' <=> i \in At(q)
      PROVE  Untouched(t, i)
  BY <1>5 DEF Untouched, SameIn, Unq, Req, Upload, Incs, InPull
<1>6. \A i \in Chunks : Untouched(t, i) \/ \E h : Touched(t, k, i, h)
  BY <1>5
<1> QED BY <1>3, <1>4, <1>6, StepInv

LEMMA Crawler == \E t \in Threads : t = "crawler" /\ t \notin Workers /\ t \notin Walkers
BY ItemsAssumption DEF Threads, Walkers

\* Only the list of one queue changes, without its items.
LEMMA CrawlersListInv ==
  ASSUME IInv, NEW q \in Queues, NEW list \in Seq(Chunks \cup {"crawler"}), NoDuplicates(list),
         RangeOf(list) \ {"crawler"} = RangeOf(queue[q]) \ {"crawler"},
         queue' = [queue EXCEPT ![q] = list], lru_lock[q] = None,
         UNCHANGED <<settings, item, hash, cas_id, item_lock, lru_lock, c, pull>>,
         crawlers' \in [asked : {Lrus, <<"warm", "cold">>, <<"cold">>, <<>>}, running : SUBSET Queues],
         \A n \in DOMAIN crawlers'.asked : crawlers'.asked[n] \notin crawlers'.running,
         "crawler" \in RangeOf(list) <=> q \in crawlers'.running,
         \A r \in Queues \ {q} : r \in crawlers.running <=> r \in crawlers'.running
  PROVE  IInv'
<1>1. PICK t \in Threads : t = "crawler" /\ t \notin Workers /\ t \notin Walkers
  BY Crawler
<1>2. PICK k \in Keys : TRUE
  BY ItemsAssumption
<1>3. TypesOK /\ CrawlersOK /\ TableOK /\ \A r \in Queues : NoDuplicates(queue[r])
  BY DEF IInv
<1>4. queue'[q] = list /\ \A r \in Queues \ {q} : queue'[r] = queue[r]
  BY <1>3 DEF TypesOK
<1>5. QueueStep(t)
  BY <1>3, <1>4 DEF QueueStep, TypesOK
<1>6. At(q)' = RangeOf(list) /\ \A r \in Queues \ {q} : At(r)' = At(r)
  BY <1>4 DEF At
<1>7. \A i \in Chunks : \A r \in Queues : i \in At(r)' <=> i \in At(r)
  <2> SUFFICES ASSUME NEW i \in Chunks, NEW r \in Queues PROVE i \in At(r)' <=> i \in At(r)
    OBVIOUS
  <2>1. i # "crawler"
    BY ItemsAssumption
  <2>2. CASE r = q
    <3>1. i \in At(q)' <=> i \in At(q)
      BY <1>6, <2>1 DEF At
    <3> QED BY <2>2, <3>1
  <2>3. CASE r # q
    <3>1. At(r)' = At(r)
      BY <1>6, <2>3
    <3> QED BY <3>1
  <2> QED BY <2>2, <2>3
<1>8. CrawlersOK'
  <2>1. \A r \in Queues : "crawler" \in At(r) <=> r \in crawlers.running
    BY <1>3 DEF CrawlersOK
  <2>2. \A r \in Queues : "crawler" \in At(r)' <=> r \in crawlers'.running
    BY <1>6, <2>1
  <2> QED BY <2>2 DEF CrawlersOK, Lrus
<1>9. Rehashed(k)
  BY <1>3 DEF Rehashed, TableOK
<1>10. item' = [i \in Chunks |-> item'[i]]
  BY <1>3 DEF TypesOK
<1> QED BY <1>1, <1>5, <1>7, <1>8, <1>9, <1>10, CrawlerInv

LEMMA CrawlStartInv == ASSUME IInv, lru_crawler_start PROVE IInv'
<1>1. /\ UNCHANGED <<settings, item, hash, queue, cas_id, item_lock, lru_lock, c, pull>>
      /\ crawlers.running = {} /\ crawlers' = [crawlers EXCEPT !.asked = Lrus]
  BY DEF lru_crawler_start
<1>2. PICK t \in Threads : t = "crawler" /\ t \notin Workers /\ t \notin Walkers
  BY Crawler
<1>3. PICK k \in Keys : TRUE
  BY ItemsAssumption
<1>4. TypesOK /\ CrawlersOK /\ TableOK
  BY DEF IInv
<1>5. QueueStep(t) /\ CrawlersStay /\ \A j, r : j \in At(r)' <=> j \in At(r)
  BY <1>1, SameQueues
<1>6. CrawlersOK'
  <2>1. crawlers' = [asked |-> Lrus, running |-> {}]
    BY <1>1, <1>4 DEF CrawlersOK
  <2>2. \A q \in Queues : "crawler" \in At(q)' <=> q \in crawlers'.running
    BY <1>1, <1>4, <1>5, <2>1 DEF CrawlersOK
  <2> QED BY <1>1, <2>1, <2>2 DEF CrawlersOK, Lrus
<1>7. Rehashed(k)
  BY <1>1, <1>4 DEF Rehashed, TableOK
<1>8. item' = [i \in Chunks |-> item'[i]]
  BY <1>1, <1>4 DEF TypesOK
<1> QED BY <1>1, <1>2, <1>5, <1>6, <1>7, <1>8, CrawlerInv

LEMMA CrawlJoinInv == ASSUME IInv, NEW q \in Queues, do_lru_crawler_start(q) PROVE IInv'
<1>1. /\ UNCHANGED <<settings, item, hash, cas_id, item_lock, lru_lock, c, pull>>
      /\ crawlers.asked # <<>> /\ q = Head(crawlers.asked) /\ lru_lock[q] = None
      /\ crawlers' = [asked |-> Tail(crawlers.asked),
                      running |-> crawlers.running \cup (IF queue[q] = <<>> THEN {} ELSE {q})]
      /\ queue' = IF queue[q] = <<>> THEN queue ELSE [queue EXCEPT ![q] = Append(@, "crawler")]
  BY DEF do_lru_crawler_start
<1>2. TypesOK /\ CrawlersOK /\ NoDuplicates(queue[q]) /\ queue[q] \in Seq(Chunks \cup {"crawler"})
  BY DEF IInv, TypesOK
<1>3. PICK asked \in {<<"hot", "warm", "cold">>, <<"warm", "cold">>, <<"cold">>} : asked = crawlers.asked
  BY <1>1, <1>2 DEF CrawlersOK, Lrus
<1>4. /\ Tail(asked) \in {<<"warm", "cold">>, <<"cold">>, <<>>}
      /\ \A n \in DOMAIN Tail(asked) : Tail(asked)[n] # Head(asked)
      /\ \A n \in DOMAIN Tail(asked) : n + 1 \in DOMAIN asked /\ Tail(asked)[n] = asked[n + 1]
      /\ 1 \in DOMAIN asked /\ Head(asked) = asked[1]
  <2>1. CASE asked = <<"hot", "warm", "cold">>
    <3>1. Tail(asked) = <<"warm", "cold">>
      BY <2>1
    <3> QED BY <2>1, <3>1
  <2>2. CASE asked = <<"warm", "cold">>
    <3>1. Tail(asked) = <<"cold">>
      BY <2>2
    <3> QED BY <2>2, <3>1
  <2>3. CASE asked = <<"cold">>
    <3>1. Tail(asked) = <<>>
      BY <2>3
    <3> QED BY <2>3, <3>1
  <2> QED BY <2>1, <2>2, <2>3
<1>5. \A n \in DOMAIN asked : asked[n] \notin crawlers.running
  BY <1>2, <1>3 DEF CrawlersOK
<1>6. q \notin crawlers.running /\ "crawler" \notin RangeOf(queue[q])
  BY <1>1, <1>2, <1>3, <1>4, <1>5 DEF CrawlersOK, At
<1>7. /\ crawlers' \in [asked : {Lrus, <<"warm", "cold">>, <<"cold">>, <<>>}, running : SUBSET Queues]
      /\ \A n \in DOMAIN crawlers'.asked : crawlers'.asked[n] \notin crawlers'.running
  <2>1. PICK rest \in {<<"warm", "cold">>, <<"cold">>, <<>>} : rest = Tail(asked)
    BY <1>4
  <2>2. PICK running \in SUBSET Queues :
          running = crawlers.running \cup (IF queue[q] = <<>> THEN {} ELSE {q})
    BY <1>2 DEF CrawlersOK
  <2>3. crawlers' = [asked |-> rest, running |-> running]
    BY <1>1, <1>3, <2>1, <2>2
  <2>4. \A n \in DOMAIN rest : rest[n] \notin running
    BY <1>1, <1>3, <1>4, <1>5, <2>1, <2>2
  <2> QED BY <2>3, <2>4
<1>8. PICK list \in Seq(Chunks \cup {"crawler"}) :
        list = IF queue[q] = <<>> THEN queue[q] ELSE Append(queue[q], "crawler")
  <2>1. Append(queue[q], "crawler") \in Seq(Chunks \cup {"crawler"})
    BY <1>2, AppendProperties
  <2> QED BY <1>2, <2>1
<1>9. queue' = [queue EXCEPT ![q] = list]
  BY <1>1, <1>2, <1>8 DEF TypesOK
<1>10. NoDuplicates(list) /\ RangeOf(list) \ {"crawler"} = RangeOf(queue[q]) \ {"crawler"}
       /\ ("crawler" \in RangeOf(list) <=> queue[q] # <<>>)
  <2>1. CASE queue[q] = <<>>
    <3>1. list = queue[q]
      BY <1>8, <2>1
    <3> QED BY <1>2, <1>6, <2>1, <3>1
  <2>2. CASE queue[q] # <<>>
    <3>1. list = Append(queue[q], "crawler")
      BY <1>8, <2>2
    <3>2. NoDuplicates(list) /\ RangeOf(list) = RangeOf(queue[q]) \cup {"crawler"}
      BY <1>2, <1>6, <3>1, AppendFacts
    <3> QED BY <2>2, <3>2
  <2> QED BY <2>1, <2>2
<1>11. "crawler" \in RangeOf(list) <=> q \in crawlers'.running
  BY <1>1, <1>6, <1>10
<1>12. \A r \in Queues \ {q} : r \in crawlers.running <=> r \in crawlers'.running
  BY <1>1
<1> QED BY <1>1, <1>7, <1>8, <1>9, <1>10, <1>11, <1>12, CrawlersListInv

LEMMA CrawlDoneInv == ASSUME IInv, NEW q \in Queues, CrawlDone(q) PROVE IInv'
<1>1. /\ UNCHANGED <<settings, item, hash, cas_id, item_lock, lru_lock, c, pull>>
      /\ crawlers.asked = <<>> /\ q \in crawlers.running /\ lru_lock[q] = None
      /\ Before(q, "crawler") = None
      /\ queue' = [queue EXCEPT ![q] = Tail(queue[q])]
      /\ crawlers' = [crawlers EXCEPT !.running = @ \ {q}]
  BY DEF CrawlDone, Crawling
<1>2. TypesOK /\ CrawlersOK /\ NoDuplicates(queue[q]) /\ queue[q] \in Seq(Chunks \cup {"crawler"})
  BY DEF IInv, TypesOK
<1>3. Len(queue[q]) \in Nat /\ DOMAIN queue[q] = 1..Len(queue[q])
  BY <1>2, LenProperties
<1>4. "crawler" \in RangeOf(queue[q])
  BY <1>1, <1>2 DEF CrawlersOK, At
<1>5. PICK n : n = PlaceOf(queue[q], "crawler")
  OBVIOUS
<1>6. n \in 1..Len(queue[q]) /\ queue[q][n] = "crawler"
  BY <1>3, <1>4, <1>5 DEF RangeOf, PlaceOf
<1>7. n = 1
  <2> SUFFICES ASSUME n # 1 PROVE FALSE
    OBVIOUS
  <2>1. n - 1 \in 1..Len(queue[q])
    BY <1>3, <1>6
  <2>2. queue[q][n - 1] \in Chunks \cup {"crawler"}
    BY <1>2, <2>1, ElementOfSeq
  <2>3. queue[q][n - 1] = None
    BY <1>1, <1>5 DEF Before
  <2> QED BY <2>2, <2>3, ItemsAssumption DEF Threads
<1>8. queue[q] # <<>>
  BY <1>3, <1>6
<1>9. /\ Tail(queue[q]) \in Seq(Chunks \cup {"crawler"}) /\ NoDuplicates(Tail(queue[q]))
      /\ RangeOf(Tail(queue[q])) = RangeOf(queue[q]) \ {"crawler"}
  <2>1. queue[q][1] = "crawler"
    BY <1>6, <1>7
  <2> QED BY <1>2, <1>8, <2>1, TailFacts
<1>10. PICK list \in Seq(Chunks \cup {"crawler"}) : list = Tail(queue[q])
  BY <1>9
<1>11. /\ NoDuplicates(list) /\ RangeOf(list) \ {"crawler"} = RangeOf(queue[q]) \ {"crawler"}
       /\ "crawler" \notin RangeOf(list) /\ queue' = [queue EXCEPT ![q] = list]
  BY <1>1, <1>9, <1>10
<1>12. crawlers' = [asked |-> <<>>, running |-> crawlers.running \ {q}]
  BY <1>1, <1>2 DEF CrawlersOK
<1>13. /\ crawlers' \in [asked : {Lrus, <<"warm", "cold">>, <<"cold">>, <<>>}, running : SUBSET Queues]
       /\ \A m \in DOMAIN crawlers'.asked : crawlers'.asked[m] \notin crawlers'.running
  BY <1>2, <1>12 DEF CrawlersOK
<1>14. /\ "crawler" \in RangeOf(list) <=> q \in crawlers'.running
       /\ \A r \in Queues \ {q} : r \in crawlers.running <=> r \in crawlers'.running
  BY <1>11, <1>12
<1> QED BY <1>1, <1>10, <1>11, <1>13, <1>14, CrawlersListInv

LEMMA CrawlSwap ==
  ASSUME IInv, NEW q \in Queues, Crawling(q), NEW s, s = Before(q, "crawler"), s # None
  PROVE  /\ s \in Chunks /\ s \in At(q) /\ "crawler" \in At(q)
         /\ crawler_crawl_q(q) \in Seq(Chunks \cup {"crawler"}) /\ NoDuplicates(crawler_crawl_q(q))
         /\ RangeOf(crawler_crawl_q(q)) = RangeOf(queue[q])
<1>1. queue[q] \in Seq(Chunks \cup {"crawler"}) /\ NoDuplicates(queue[q])
  BY DEF IInv, TypesOK
<1>2. "crawler" \in At(q)
  BY DEF IInv, CrawlersOK, Crawling
<1>3. s \in At(q) /\ s # "crawler"
  BY <1>2, BeforeFacts
<1>4. s \in Chunks
  <2>1. queue[q] \in [1..Len(queue[q]) -> Chunks \cup {"crawler"}]
    BY <1>1, LenProperties
  <2> QED BY <1>3, <2>1 DEF At, RangeOf
<1>5. PICK list : list = queue[q]
  OBVIOUS
<1>6. PICK more : more = crawler_crawl_q(q)
  OBVIOUS
<1>7. PICK a : a = "crawler"
  OBVIOUS
<1>8. more = [n \in DOMAIN list |-> CASE list[n] = a -> s [] list[n] = s -> a [] OTHER -> list[n]]
  BY <1>5, <1>6, <1>7 DEF crawler_crawl_q
<1>9. /\ list \in Seq(Chunks \cup {"crawler"}) /\ NoDuplicates(list)
      /\ a \in RangeOf(list) /\ s \in RangeOf(list) /\ a # s
  BY <1>1, <1>2, <1>3, <1>5, <1>7 DEF At
<1>10. more \in Seq(Chunks \cup {"crawler"}) /\ NoDuplicates(more) /\ RangeOf(more) = RangeOf(list)
  BY <1>8, <1>9, SwapFacts
<1> QED BY <1>2, <1>3, <1>4, <1>5, <1>6, <1>10

LEMMA CrawlPassInv == ASSUME IInv, NEW q \in Queues, CrawlPass(q) PROVE IInv'
<1>1. PICK s : s = Before(q, "crawler") /\ s # None
  BY DEF CrawlPass
<1>2. /\ UNCHANGED <<settings, item, hash, cas_id, item_lock, lru_lock, c, pull, crawlers>>
      /\ Crawling(q) /\ lru_lock[q] = None
      /\ queue' = [queue EXCEPT ![q] = crawler_crawl_q(q)]
  BY DEF CrawlPass, Crawling
<1>3. PICK list \in Seq(Chunks \cup {"crawler"}) :
        /\ list = crawler_crawl_q(q) /\ NoDuplicates(list) /\ RangeOf(list) = RangeOf(queue[q])
        /\ "crawler" \in At(q)
  BY <1>1, <1>2, CrawlSwap
<1>4. CrawlersOK
  BY DEF IInv
<1>5. /\ crawlers' \in [asked : {Lrus, <<"warm", "cold">>, <<"cold">>, <<>>}, running : SUBSET Queues]
      /\ \A m \in DOMAIN crawlers'.asked : crawlers'.asked[m] \notin crawlers'.running
      /\ "crawler" \in RangeOf(list) <=> q \in crawlers'.running
      /\ \A r \in Queues \ {q} : r \in crawlers.running <=> r \in crawlers'.running
  BY <1>2, <1>3, <1>4 DEF CrawlersOK, Crawling, At
<1>6. queue' = [queue EXCEPT ![q] = list] /\ RangeOf(list) \ {"crawler"} = RangeOf(queue[q]) \ {"crawler"}
  BY <1>2, <1>3
<1> QED BY <1>2, <1>3, <1>5, <1>6, CrawlersListInv

LEMMA CrawlReapInv == ASSUME IInv, NEW q \in Queues, CrawlReap(q) PROVE IInv'
<1>1. PICK s : s = Before(q, "crawler") /\ s # None
  BY DEF CrawlReap
<1>2. /\ UNCHANGED <<settings, cas_id, item_lock, lru_lock, c, pull, crawlers>>
      /\ Crawling(q) /\ lru_lock[q] = None /\ item_lock[item[s].key] = None
      /\ hash' = [hash EXCEPT ![item[s].key] = None]
      /\ queue' = do_item_unlink_q([queue EXCEPT ![q] = crawler_crawl_q(q)], q, s)
      /\ item' = do_item_remove(Unlinked(refcount_incr(item, s), s), s)
  BY <1>1 DEF CrawlReap, Crawling, Exclusive
<1>3. PICK list \in Seq(Chunks \cup {"crawler"}) :
        /\ list = crawler_crawl_q(q) /\ NoDuplicates(list) /\ RangeOf(list) = RangeOf(queue[q])
        /\ s \in Chunks /\ s \in At(q)
  BY <1>1, <1>2, CrawlSwap
<1>4. s \in Chunks
  BY <1>3
<1>5. PICK k \in Keys : k = item[s].key /\ item_lock[k] = None
  BY <1>2, <1>3, InQueue
<1>6. /\ item[s] \in Headers /\ item[s].lru = q /\ item[s].refcount \in Nat /\ item[s].refcount >= 1
      /\ item[s].linked /\ hash[k] = s
      /\ \A r \in Queues : s \in At(r) <=> r = q
      /\ item[s].cas <= cas_id /\ item[s].ver <= cas_id
  BY <1>2, <1>3, <1>5, InQueue
<1>7. PICK t \in Threads : t = "crawler" /\ t \notin Workers /\ t \notin Walkers
  BY Crawler
<1>8. /\ item \in [Chunks -> Headers] /\ hash \in [Keys -> Chunks \cup {None}]
      /\ queue \in [Queues -> Seq(Chunks \cup {"crawler"})] /\ \A r \in Queues : NoDuplicates(queue[r])
  BY DEF IInv, TypesOK
\* The item, referenced, out of the table and dropped twice.
<1>9. PICK n \in Nat : n = item[s].refcount + 1
  BY <1>6
<1>10. PICK I : I = [item EXCEPT ![s].refcount = n, ![s].linked = FALSE]
  OBVIOUS
<1>11. /\ I \in [Chunks -> Headers]
       /\ I[s].refcount = n /\ I[s].key = k /\ I[s].lru = q /\ ~I[s].linked /\ I[s].val = item[s].val
       /\ I[s].cas = item[s].cas /\ I[s].ver = item[s].ver
       /\ \A j \in Chunks \ {s} : I[j] = item[j]
  BY <1>4, <1>5, <1>6, <1>8, <1>10 DEF Headers
<1>12. item' = do_item_remove(do_item_remove(I, s), s)
  <2>1. [refcount_incr(item, s) EXCEPT ![s].linked = FALSE] = I
    BY <1>4, <1>8, <1>9, <1>10 DEF refcount_incr, Headers
  <2> QED BY <1>2, <2>1 DEF Unlinked
<1>13. PICK h : h = Less(I[s], 2)
  OBVIOUS
<1>14. I[s] \in Headers /\ I[s].refcount >= 2 /\ I[s].refcount - 2 = item[s].refcount - 1
  <2>1. I[s] \in Headers
    BY <1>4, <1>11
  <2> QED BY <1>6, <1>9, <1>11, <2>1
<1>15. /\ item' \in [Chunks -> Headers] /\ item'[s] = Settled(h)
       /\ \A j \in Chunks \ {s} : item'[j] = item[j]
  <2>1. /\ do_item_remove(do_item_remove(I, s), s) \in [Chunks -> Headers]
        /\ do_item_remove(do_item_remove(I, s), s)[s] = Settled(Less(I[s], 2))
        /\ \A j \in Chunks \ {s} : do_item_remove(do_item_remove(I, s), s)[j] = I[j]
    BY <1>4, <1>11, <1>14, RemoveTwice
  <2> QED BY <1>11, <1>12, <1>13, <2>1
<1>16. /\ h \in Headers /\ h.refcount = item[s].refcount - 1 /\ h.key = k /\ h.lru = q /\ ~h.linked
       /\ h.val = item[s].val /\ h.cas = item[s].cas /\ h.ver = item[s].ver
  <2>1. /\ h \in Headers /\ h.refcount = I[s].refcount - 2
        /\ h.key = I[s].key /\ h.lru = I[s].lru /\ h.linked = I[s].linked
        /\ h.val = I[s].val /\ h.cas = I[s].cas /\ h.ver = I[s].ver
    BY <1>13, <1>14, LessTyped
  <2> QED BY <1>11, <1>14, <2>1
\* Its queue.
<1>17. /\ Without(list, s) \in Seq(Chunks \cup {"crawler"}) /\ NoDuplicates(Without(list, s))
       /\ RangeOf(Without(list, s)) = RangeOf(queue[q]) \ {s}
  <2>1. s \in RangeOf(list)
    BY <1>3 DEF At
  <2> QED BY <1>3, <2>1, WithoutFacts
<1>18. PICK rest \in Seq(Chunks \cup {"crawler"}) : rest = Without(list, s)
  BY <1>17
<1>19. queue' = [queue EXCEPT ![q] = rest]
  <2>1. PICK Q : Q = [queue EXCEPT ![q] = list]
    OBVIOUS
  <2>2. Q[q] = list /\ [Q EXCEPT ![q] = rest] = [queue EXCEPT ![q] = rest]
    BY <1>8, <2>1
  <2>3. queue' = [Q EXCEPT ![q] = Without(Q[q], s)]
    BY <1>2, <1>3, <2>1 DEF do_item_unlink_q
  <2> QED BY <1>18, <2>2, <2>3
<1>20. queue'[q] = rest /\ \A r \in Queues \ {q} : queue'[r] = queue[r]
  BY <1>8, <1>19
<1>21. QueueStep(t)
  BY <1>2, <1>8, <1>17, <1>18, <1>19, <1>20 DEF QueueStep
<1>22. At(q)' = At(q) \ {s} /\ \A r \in Queues \ {q} : At(r)' = At(r)
  BY <1>17, <1>18, <1>20 DEF At
<1>23. \A r \in Queues : s \notin At(r)'
  BY <1>6, <1>22
<1>24. \A j \in Chunks \ {s} : \A r \in Queues : j \in At(r)' <=> j \in At(r)
  BY <1>22
<1>25. CrawlersOK'
  <2>1. s # "crawler" /\ CrawlersOK
    BY <1>4, ItemsAssumption DEF IInv
  <2>2. \A r \in Queues : "crawler" \in At(r)' <=> "crawler" \in At(r)
    BY <1>22, <2>1
  <2> QED BY <1>2, <2>1, <2>2 DEF CrawlersOK, Lrus
<1>26. Touched(t, k, s, h)
  <2>1. h.refcount = (item[s].refcount - 1) + Hold(h.linked)
    BY <1>6, <1>16 DEF Hold
  <2>2. h.cas <= cas_id' /\ h.ver <= cas_id' /\ h.lru \in Queues
    BY <1>2, <1>6, <1>16
  <2>3. \A r \in Queues : s \in At(r)' <=> r = h.lru /\ h.linked
    BY <1>16, <1>23
  <2> QED BY <1>4, <1>5, <1>6, <1>7, <1>15, <1>16, <2>1, <2>2, <2>3, CrawlerTouched
<1>27. hash' = [hash EXCEPT ![k] = None] /\ hash'[k] = None
  BY <1>2, <1>5, <1>8
<1>28. Rehashed(k)
  <2>1. ~item'[s].linked
    BY <1>15, <1>16 DEF Settled, Slabbed
  <2> QED BY <1>6, <1>27, <2>1 DEF Rehashed
<1>29. item_lock[k] = None /\ \E j \in Chunks \cup {None} : hash' = [hash EXCEPT ![k] = j]
  BY <1>5, <1>27
<1>30. \A j \in Chunks : \/ item'[j] = item[j] /\ \A r \in Queues : j \in At(r)' <=> j \in At(r)
                         \/ \E g : Touched(t, k, j, g)
  BY <1>15, <1>24, <1>26
<1>31. item' = [j \in Chunks |-> item'[j]]
  BY <1>15
<1> QED BY <1>2, <1>7, <1>21, <1>25, <1>28, <1>29, <1>30, <1>31, CrawlerInv

-----------------------------------------------------------------------------
(* Time. *)

LEMMA AgeInv == ASSUME IInv, NEW a \in Chunks, Age(a) PROVE IInv'
<1>1. /\ UNCHANGED <<settings, hash, queue, cas_id, item_lock, lru_lock, c, pull, crawlers>>
      /\ item[a].refcount > 0 /\ item' = [item EXCEPT ![a].expired = TRUE]
  BY DEF Age
<1>2. item \in [Chunks -> Headers] /\ item[a] \in Headers
  BY DEF IInv, TypesOK
<1>3. PICK h : h = [item[a] EXCEPT !.expired = TRUE]
  OBVIOUS
<1>4. /\ h \in Headers /\ h.refcount = item[a].refcount /\ h.key = item[a].key /\ h.lru = item[a].lru
      /\ h.linked = item[a].linked /\ h.val = item[a].val /\ h.cas = item[a].cas /\ h.ver = item[a].ver
  BY <1>2, <1>3 DEF Headers
<1>5. item' = [item EXCEPT ![a] = h]
  BY <1>1, <1>2, <1>3
<1>6. item' \in [Chunks -> Headers]
  BY <1>2, <1>4, <1>5
<1>7. \A i \in Chunks : /\ item'[i].refcount = item[i].refcount /\ item'[i].key = item[i].key
                        /\ item'[i].lru = item[i].lru /\ item'[i].linked = item[i].linked
                        /\ item'[i].val = item[i].val /\ item'[i].cas = item[i].cas
                        /\ item'[i].ver = item[i].ver
                        /\ item[i] # Slabbed \/ item'[i] = Slabbed
  <2> SUFFICES ASSUME NEW i \in Chunks
               PROVE  /\ item'[i].refcount = item[i].refcount /\ item'[i].key = item[i].key
                      /\ item'[i].lru = item[i].lru /\ item'[i].linked = item[i].linked
                      /\ item'[i].val = item[i].val /\ item'[i].cas = item[i].cas
                      /\ item'[i].ver = item[i].ver
                      /\ item[i] # Slabbed \/ item'[i] = Slabbed
    OBVIOUS
  <2>1. CASE i = a
    <3>1. item'[a] = h
      BY <1>2, <1>5
    <3>2. item[a] # Slabbed
      BY <1>1 DEF Slabbed
    <3> QED BY <1>4, <2>1, <3>1, <3>2
  <2>2. CASE i # a
    BY <1>2, <1>5, <2>2
  <2> QED BY <2>1, <2>2
<1>8. \A w \in Workers : WorkerOK(w)'
  <2> SUFFICES ASSUME NEW w \in Workers PROVE WorkerOK(w)'
    OBVIOUS
  <2>1. WorkerOK(w)
    BY DEF IInv
  <2>2. c' = c /\ pull' = pull /\ hash' = hash /\ item_lock' = item_lock
    BY <1>1
  <2>3. c[w].old \in Chunks \cup {None}
    BY <2>1 DEF WorkerOK, ConnectionOK
  <2>4. c[w].old # None => item'[c[w].old].val = item[c[w].old].val
    BY <1>7, <2>3
  <2>5. Commands(w)' <=> Commands(w)
    BY <2>2 DEF Commands
  <2>6. \A i \in Chunks : i \in {c[w].it, c[w].old, c[w].new} => item'[i].key = c[w].key
    BY <1>7, <2>1 DEF WorkerOK
  <2> QED BY <2>1, <2>2, <2>4, <2>5, <2>6 DEF WorkerOK
<1>9. \A t \in Walkers : WalkerOK(t)'
  <2> SUFFICES ASSUME NEW t \in Walkers PROVE WalkerOK(t)'
    OBVIOUS
  <2>1. WalkerOK(t)
    BY DEF IInv
  <2>2. c' = c /\ pull' = pull /\ item_lock' = item_lock /\ lru_lock' = lru_lock /\ queue' = queue
    BY <1>1
  <2>3. Commands(t)' <=> Commands(t)
    BY <2>2 DEF Commands
  <2>4. \A i \in Chunks : InHandOf(pull[t], i) =>
          /\ item'[i].key \in Keys /\ item_lock[item'[i].key] = t
          /\ t \in Workers /\ Commands(t) => item'[i].key # c[t].key
    BY <1>7, <2>1 DEF WalkerOK
  <2> QED BY <2>1, <2>2, <2>3, <2>4 DEF WalkerOK, At, InHandOf
<1>10. TableOK'
  <2>1. \A i \in Chunks : Tabled(i)'
    BY <1>1, <1>7 DEF IInv, TableOK, Tabled
  <2>2. \A k \in Keys : hash[k] # None => hash[k] \in Chunks /\ item[hash[k]].linked /\ item[hash[k]].key = k
    BY DEF IInv, TypesOK, TableOK
  <2>3. \A k \in Keys : hash'[k] # None => item'[hash'[k]].linked /\ item'[hash'[k]].key = k
    BY <1>1, <1>7, <2>2
  <2> QED BY <2>1, <2>3 DEF TableOK
<1>11. \A i \in Chunks : (Between(i)' <=> Between(i)) /\ (Away(i)' <=> Away(i))
  BY <1>1 DEF Between, Away, Unqueues, Requeues, Moves, InHandOf
<1>12. \A q : At(q)' = At(q)
  BY <1>1 DEF At
<1>13. ASSUME NEW i \in Chunks PROVE Placed(i)'
  <2>1. Placed(i)
    BY DEF IInv
  <2>2. /\ \A w \in Workers : /\ Unqueues(w, i)' <=> Unqueues(w, i)
                              /\ Requeues(w, i)' <=> Requeues(w, i)
                              /\ Fresh(w, i)' <=> Fresh(w, i)
        /\ \A t \in Walkers : Moves(t, i)' <=> Moves(t, i)
        /\ c' = c /\ pull' = pull
    BY <1>1 DEF Unqueues, Requeues, Fresh, Moves, InHandOf
  <2> QED BY <1>7, <1>11, <1>12, <2>1, <2>2 DEF Placed, InHandOf
<1>14. ASSUME NEW i \in Chunks PROVE Counted(i)'
  <2>1. Hands(i)' = Hands(i) /\ Pulled(i)' = Pulled(i)
    BY <1>1 DEF Hands, Pulled, Its, Olds, News, Pulls, InHandOf
  <2>2. Linked(i)' = Linked(i)
    BY <1>7, <1>11 DEF Linked
  <2>3. Refs(i)' = Refs(i)
    BY <2>1, <2>2 DEF Refs
  <2>4. \A w \in Workers : Incring(w, i)' <=> Incring(w, i)
    BY <1>1 DEF Incring, Commands
  <2>5. Counted(i)
    BY DEF IInv
  <2> QED BY <1>7, <2>3, <2>4, <2>5 DEF Counted
<1>15. \A i \in Chunks : CasOf(i)'
  BY <1>1, <1>7 DEF IInv, CasOf
<1>16. TypesOK'
  <2>1. TypesOK
    BY DEF IInv
  <2> QED BY <1>1, <1>6, <2>1 DEF TypesOK, IsTable, IsConnection
<1>17. CrawlersOK'
  BY <1>1, <1>12 DEF IInv, CrawlersOK, Lrus
<1>18. cas_id' + Cardinality(Pendings') <= LastCas'
  <2>1. cas_id + Cardinality(Pendings) <= LastCas
    BY DEF IInv
  <2>2. Pendings' = Pendings
    BY <1>1 DEF Pendings, Pending
  <2> QED BY <1>1, <2>1, <2>2 DEF LastCas
<1>19. \A q \in Queues : NoDuplicates(queue'[q])
  BY <1>1 DEF IInv
<1> QED BY <1>8, <1>9, <1>10, <1>13, <1>14, <1>15, <1>16, <1>17, <1>18, <1>19 DEF IInv
-----------------------------------------------------------------------------
(* The invariant holds, and stays. *)

LEMMA InitInv == Init => IInv
<1> SUFFICES ASSUME Init PROVE IInv
  OBVIOUS
<1>1. /\ settings \in Settings /\ item = [i \in Chunks |-> Slabbed] /\ hash = [k \in Keys |-> None]
      /\ queue = [q \in Queues |-> <<>>] /\ cas_id = 0
      /\ item_lock = [k \in Keys |-> None] /\ lru_lock = [q \in Queues |-> None]
      /\ c = [w \in Workers |-> Connection] /\ pull = [t \in Walkers |-> None]
      /\ crawlers = [asked |-> <<>>, running |-> {}]
  BY DEF Init, Walkers
<1>2. Slabbed \in Headers
  BY ItemsAssumption DEF Slabbed, Headers
<1>3. TypesOK
  <2>1. \A w \in Workers : IsConnection(c[w])
    BY <1>1 DEF IsConnection, Connection, Fields
  <2>2. IsTable(c)
    BY <1>1 DEF IsTable
  <2>3. queue \in [Queues -> Seq(Chunks \cup {"crawler"})]
    <3>1. <<>> \in Seq(Chunks \cup {"crawler"})
      OBVIOUS
    <3> QED BY <1>1, <3>1
  <2> QED BY <1>1, <1>2, <2>1, <2>2, <2>3 DEF TypesOK
<1>4. ASSUME NEW w \in Workers
      PROVE  /\ c[w].pc = "new_cmd" /\ c[w].key = None /\ c[w].todo = <<>>
             /\ c[w].it = None /\ c[w].old = None /\ c[w].new = None /\ c[w].cmd = "none"
  BY <1>1 DEF Connection
<1>5. \A q \in Queues : queue[q] = <<>> /\ At(q) = {}
  BY <1>1 DEF At, RangeOf
<1>6. \A w \in Workers : WorkerOK(w)
  <2> SUFFICES ASSUME NEW w \in Workers PROVE WorkerOK(w)
    OBVIOUS
  <2>1. ConnectionOK(c[w])
    <3>1. <<>> \in Seq(PullRequest)
      OBVIOUS
    <3> QED BY <1>4, <3>1 DEF ConnectionOK, Pcs
  <2>2. w \in Walkers /\ pull[w] = None
    BY <1>1 DEF Walkers
  <2>3. \A i \in Chunks : i # None
    BY ItemsAssumption
  <2> QED BY <1>4, <2>1, <2>2, <2>3 DEF WorkerOK, Commands, Locked
<1>7. \A t \in Walkers : WalkerOK(t)
  BY <1>1 DEF WalkerOK, InHandOf
<1>8. TableOK
  BY <1>1, ItemsAssumption DEF TableOK, Tabled, Slabbed
<1>9. ASSUME NEW i \in Chunks PROVE Placed(i) /\ CasOf(i) /\ Counted(i)
  <2>1. i # None /\ item[i] = Slabbed /\ ~item[i].linked /\ item[i].refcount = 0
    BY <1>1, ItemsAssumption DEF Slabbed
  <2>2. \A w \in Workers : ~Unqueues(w, i) /\ ~Requeues(w, i) /\ ~Fresh(w, i) /\ ~Incring(w, i)
    BY <1>4, <2>1 DEF Unqueues, Requeues, Fresh, Incring
  <2>3. \A t \in Walkers : ~InHandOf(pull[t], i)
    BY <1>1 DEF InHandOf
  <2>4. Its(i) = {} /\ Olds(i) = {} /\ News(i) = {} /\ Pulls(i) = {}
    BY <1>4, <2>1, <2>3 DEF Its, Olds, News, Pulls
  <2>5. ~Between(i)
    BY <2>2 DEF Between
  <2>6. Placed(i)
    BY <1>5, <2>1, <2>2, <2>3, <2>5 DEF Placed, Moves
  <2>7. Refs(i) = 0
    <3>1. Cardinality({}) = 0
      BY FS_EmptySet
    <3>2. Linked(i) = 0
      BY <2>1, <2>5 DEF Linked
    <3> QED BY <2>4, <3>1, <3>2 DEF Refs, Hands, Pulled
  <2>8. Counted(i)
    BY <2>1, <2>2, <2>7, ItemsAssumption DEF Counted
  <2>9. CasOf(i)
    BY <1>1, <2>1 DEF CasOf, Slabbed
  <2> QED BY <2>6, <2>8, <2>9
<1>10. \A q \in Queues : NoDuplicates(queue[q])
  BY <1>5 DEF NoDuplicates
<1>11. CrawlersOK
  BY <1>1, <1>5 DEF CrawlersOK
<1>12. cas_id + Cardinality(Pendings) <= LastCas
  <2>1. Pendings = {}
    BY <1>4 DEF Pendings, Pending
  <2>2. Cardinality({}) = 0
    BY FS_EmptySet
  <2>3. Cardinality(Keys) \in Nat /\ Cardinality(Keys) # 0
    BY ItemsAssumption, FS_CardinalityType, FS_EmptySet
  <2> QED BY <1>1, <2>1, <2>2, <2>3, ItemsAssumption DEF LastCas
<1> QED BY <1>3, <1>6, <1>7, <1>8, <1>9, <1>10, <1>11, <1>12 DEF IInv

LEMMA CommandInv == ASSUME IInv, NEW w \in Workers, Command(w) PROVE IInv'
<1>1. CASE Abandon(w)
  BY <1>1, AbandonInv
<1>2. ASSUME NEW k \in Keys, Get(w, k) \/ Delete(w, k) \/ Update(w, k) \/ add_delta(w, k) PROVE IInv'
  BY <1>2, GetInv, DeleteInv, UpdateInv, AddDeltaInv
<1> QED BY <1>1, <1>2 DEF Command

LEMMA RelinkInv == ASSUME IInv, NEW w \in Workers, Relink(w) \/ RelinkDone(w) PROVE IInv'
<1>1. CASE Relink(w)
  <2>1. Running(w, "got") \/ Running(w, "refresh")
    BY <1>1 DEF Relink
  <2> QED BY <1>1, <2>1, RelinkGot, RelinkRefresh
<1>2. CASE RelinkDone(w)
  <2>1. Running(w, "relink_got") \/ Running(w, "relink_refresh")
    BY <1>2 DEF RelinkDone
  <2> QED BY <1>2, <2>1, RelinkDoneGot, RelinkDoneRefresh
<1> QED BY <1>1, <1>2

LEMMA ServeInv == ASSUME IInv, NEW w \in Workers, Serve(w) PROVE IInv'
<1>1. CASE Reap(w) \/ Format(w) \/ UnlinkDone(w) \/ item_remove(w) \/ Replied(w)
  BY <1>1, ReapInv, FormatInv, UnlinkDoneInv, ItemRemoveInv, RepliedInv
<1>2. CASE Relink(w) \/ RelinkDone(w)
  BY <1>2, RelinkInv
<1>3. CASE item_unlink(w)
  BY <1>3, ItemUnlinkLinked, ItemUnlinkGone
<1>4. CASE AllocPull(w) \/ slabs_alloc(w) \/ slabs_alloc_fails(w) \/ OutOfMemory(w) \/ UnlinkStale(w)
  BY <1>4, AllocPullInv, AllocInv, AllocFailsInv, OutOfMemoryInv, UnlinkStaleInv
<1>5. CASE store_link(w)
  BY <1>5, StoreLinkOld, StoreLinkNew
<1>6. CASE store_item(w) \/ store_refused(w) \/ store_append(w)
  BY <1>6, StoreItemInv, RefusedInv, AppendInv
<1>7. CASE delta_empty(w) \/ delta_in_place(w) \/ delta_replace(w)
  BY <1>7, DeltaEmptyInv, DeltaInPlaceInv, DeltaReplaceInv
<1>8. CASE Swap(w) \/ do_item_link(w) \/ Release(w)
  BY <1>8, SwapInv, LinkInv, ReleaseInv
<1> QED BY <1>1, <1>2, <1>3, <1>4, <1>5, <1>6, <1>7, <1>8 DEF Serve

LEMMA UnchangedInv == ASSUME IInv, UNCHANGED vars PROVE IInv'
<1> USE DEF vars
<1>1. TypesOK' /\ TableOK' /\ CrawlersOK' /\ (\A q \in Queues : NoDuplicates(queue[q]))'
  BY DEF IInv, TypesOK, TableOK, Tabled, CrawlersOK, At, IsTable, IsConnection, Headers, Lrus
<1>2. \A w \in Workers : WorkerOK(w)'
  BY DEF IInv, WorkerOK, ConnectionOK, Commands
<1>3. \A t \in Walkers : WalkerOK(t)'
  BY DEF IInv, WalkerOK, InHandOf, Commands, At
<1>4. \A i \in Chunks : Between(i)' <=> Between(i)
  BY DEF Between, Unqueues
<1>5. \A i \in Chunks : Placed(i)' /\ CasOf(i)'
  <2>1. \A i \in Chunks : Away(i)' <=> Away(i)
    BY DEF Away, Requeues, Moves, InHandOf
  <2> QED BY <1>4, <2>1 DEF IInv, Placed, At, Unqueues, Requeues, Fresh, Moves, InHandOf, CasOf
<1>6. \A i \in Chunks : Counted(i)'
  <2>1. \A i \in Chunks : Refs(i)' = Refs(i)
    <3>1. \A i \in Chunks : Linked(i)' = Linked(i)
      BY <1>4 DEF Linked
    <3> QED BY <3>1 DEF Refs, Hands, Pulled, Its, Olds, News, Pulls, InHandOf
  <2> QED BY <2>1 DEF IInv, Counted, Incring, Commands
<1>7. (cas_id + Cardinality(Pendings) <= LastCas)'
  BY DEF IInv, Pendings, Pending, LastCas
<1> QED BY <1>1, <1>2, <1>3, <1>5, <1>6, <1>7 DEF IInv

LEMMA NextInv == IInv /\ [Next]_vars => IInv'
<1> SUFFICES ASSUME IInv, [Next]_vars PROVE IInv'
  OBVIOUS
<1>1. ASSUME NEW w \in Workers, Command(w) \/ Serve(w) PROVE IInv'
  BY <1>1, CommandInv, ServeInv
<1>2. ASSUME NEW t \in DOMAIN pull, lru_pull_tail(t) PROVE IInv'
  <2>1. t \in Walkers
    BY <1>2 DEF IInv, TypesOK
  <2> QED BY <1>2, <2>1, PullSkipInv, PullReapInv, PullActiveInv, PullTakeInv, PullFinishInv DEF lru_pull_tail
<1>3. CASE lru_maintainer_juggle
  BY <1>3, JuggleInv
<1>4. CASE lru_crawler_start
  BY <1>4, CrawlStartInv
<1>5. ASSUME NEW q \in Queues, Crawl(q) PROVE IInv'
  BY <1>5, CrawlJoinInv, CrawlPassInv, CrawlReapInv, CrawlDoneInv DEF Crawl
<1>6. ASSUME NEW i \in Chunks, Age(i) PROVE IInv'
  BY <1>6, AgeInv
<1>7. CASE UNCHANGED vars
  BY <1>7, UnchangedInv
<1> QED BY <1>1, <1>2, <1>3, <1>4, <1>5, <1>6, <1>7 DEF Next
-----------------------------------------------------------------------------
(* What the invariant says. *)

\* A worker that pulls has nothing new, so an item is three times in the hands of each worker
\* at most, and once in those of the maintainer.
LEMMA RefsBound ==
  ASSUME IInv, NEW i \in Chunks
  PROVE  Refs(i) <= 3 * Cardinality(Workers) + 2
<1>1. IsFiniteSet(Workers) /\ IsFiniteSet(Walkers) /\ Cardinality(Workers) \in Nat
  BY ItemsAssumption, FS_AddElement, FS_CardinalityType DEF Walkers
<1>2. ASSUME NEW S \in SUBSET Workers PROVE Cardinality(S) \in Nat /\ Cardinality(S) <= Cardinality(Workers)
  BY <1>1, FS_Subset, FS_CardinalityType
<1>3. Cardinality(Its(i)) <= Cardinality(Workers) /\ Cardinality(Olds(i)) <= Cardinality(Workers)
  <2>1. Its(i) \in SUBSET Workers /\ Olds(i) \in SUBSET Workers
    BY DEF Its, Olds
  <2> QED BY <1>2, <2>1
<1> DEFINE P == Pulls(i) \ {"maintainer"}
           N == News(i)
<1>4. Cardinality(N) + Cardinality(P) <= Cardinality(Workers)
  <2>1. N \in SUBSET Workers /\ P \in SUBSET Workers
    BY DEF News, Pulls, Walkers
  <2>2. N \cap P = {}
    <3> SUFFICES ASSUME NEW w \in Workers, c[w].new = i, InHandOf(pull[w], i) PROVE FALSE
      BY DEF News, Pulls, Walkers
    <3>1. WorkerOK(w) /\ pull[w] # None /\ i # None
      BY ItemsAssumption DEF IInv, InHandOf
    <3>2. c[w].pc = "alloc" /\ ConnectionOK(c[w])
      BY <3>1 DEF WorkerOK
    <3> QED BY <3>1, <3>2 DEF ConnectionOK
  <2> HIDE DEF N, P
  <2>3. IsFiniteSet(N) /\ IsFiniteSet(P) /\ N \cup P \in SUBSET Workers
    BY <1>1, <2>1, FS_Subset
  <2>4. Cardinality(N \cup P) = Cardinality(N) + Cardinality(P) - Cardinality(N \cap P)
    BY <2>3, FS_Union
  <2>5. Cardinality(N \cap P) = 0
    BY <2>2, FS_EmptySet
  <2> QED BY <1>1, <1>2, <2>1, <2>3, <2>4, <2>5
<1>5. Cardinality(Pulls(i)) <= Cardinality(P) + 1
  <2>1. IsFiniteSet(Pulls(i)) /\ Pulls(i) \in SUBSET Walkers
    BY <1>1, FS_Subset DEF Pulls
  <2>2. CASE "maintainer" \in Pulls(i)
    <3>1. Cardinality(P) = Cardinality(Pulls(i)) - 1 /\ Cardinality(Pulls(i)) \in Nat
      BY <2>1, <2>2, FS_RemoveElement, FS_CardinalityType
    <3> QED BY <3>1
  <2>3. CASE "maintainer" \notin Pulls(i)
    <3>1. P = Pulls(i) /\ Cardinality(Pulls(i)) \in Nat
      BY <2>1, <2>3, FS_CardinalityType
    <3> QED BY <3>1
  <2> QED BY <2>2, <2>3
<1>6. /\ Cardinality(Its(i)) \in Nat /\ Cardinality(Olds(i)) \in Nat /\ Cardinality(N) \in Nat
      /\ Cardinality(P) \in Nat /\ Cardinality(Pulls(i)) \in Nat
  BY <1>1, <1>2, FS_Subset, FS_CardinalityType DEF Its, Olds, News, Pulls, Walkers
<1>7. Linked(i) \in {0, 1}
  BY CountTypes
<1>8. Refs(i) = Cardinality(Its(i)) + Cardinality(Olds(i)) + Cardinality(N) + Cardinality(Pulls(i)) + Linked(i)
  BY <1>6, <1>7 DEF Refs, Hands, Pulled
<1> HIDE DEF N, P
<1> QED BY <1>1, <1>3, <1>4, <1>5, <1>6, <1>7, <1>8

LEMMA TypeOKHolds == IInv => TypeOK
<1> SUFFICES ASSUME IInv PROVE TypeOK
  OBVIOUS
<1>1. Cardinality(Workers) \in Nat /\ Cardinality(Keys) \in Nat /\ MaxRefs \in Nat /\ MaxCas \in Nat
  BY ItemsAssumption, FS_CardinalityType
<1>2. cas_id \in Nat /\ cas_id <= LastCas /\ LastCas \in Int
  <2>1. IsFiniteSet(Pendings)
    BY ItemsAssumption, FS_Subset DEF Pendings
  <2>2. Cardinality(Pendings) \in Nat
    BY <2>1, FS_CardinalityType
  <2>3. cas_id + Cardinality(Pendings) <= LastCas /\ cas_id \in Nat
    BY DEF IInv, TypesOK
  <2> QED BY <1>1, <2>2, <2>3 DEF LastCas
<1>3. ASSUME NEW i \in Chunks PROVE item[i] \in Header
  <2>1. item[i] \in Headers /\ CasOf(i) /\ Counted(i)
    BY DEF IInv, TypesOK
  <2>2. item[i].cas \in 0..LastCas /\ item[i].ver \in 0..LastCas
    BY <1>2, <2>1 DEF Headers, CasOf
  <2>3. item[i].refcount \in 0..(MaxRefs + 3 * Cardinality(Workers) + 2)
    <3>1. Refs(i) \in Nat
      BY CountTypes DEF Refs
    <3>2. item[i].refcount \in Nat /\ item[i].refcount - Refs(i) <= MaxRefs
      BY <2>1 DEF Headers, Counted
    <3>3. Refs(i) <= 3 * Cardinality(Workers) + 2
      BY RefsBound
    <3>4. 3 * Cardinality(Workers) \in Nat
      BY <1>1
    <3> HIDE DEF Refs
    <3> QED BY <1>1, <3>1, <3>2, <3>3, <3>4
  <2> QED BY <2>1, <2>2, <2>3 DEF Headers, Header
<1>4. item \in [Chunks -> Header]
  BY <1>3 DEF IInv, TypesOK
<1> QED BY <1>2, <1>4 DEF IInv, TypesOK, TypeOK

\* An item is in a queue as often as the queue's list says.
LEMMA PlacesFacts ==
  ASSUME IInv, NEW q \in Queues, NEW x
  PROVE  Places(q, x) = IF x \in At(q) THEN 1 ELSE 0
<1>1. NoDuplicates(queue[q])
  BY DEF IInv
<1> DEFINE S == {n \in DOMAIN queue[q] : queue[q][n] = x}
<1>2. CASE x \in At(q)
  <2>1. PICK n \in DOMAIN queue[q] : queue[q][n] = x
    BY <1>2 DEF At, RangeOf
  <2>2. S = {n}
    BY <1>1, <2>1 DEF NoDuplicates
  <2>3. Cardinality({n}) = 1
    BY FS_Singleton
  <2> QED BY <1>2, <2>2, <2>3 DEF Places
<1>3. CASE x \notin At(q)
  <2>1. S = {}
    BY <1>3 DEF At, RangeOf
  <2> QED BY <1>3, <2>1, FS_EmptySet DEF Places
<1> QED BY <1>2, <1>3

LEMMA RefsCountedInv == IInv => RefsCounted
<1> SUFFICES ASSUME IInv PROVE RefsCounted
  OBVIOUS
<1>1. ASSUME NEW i \in Chunks PROVE InHand(i) = Hands(i) + Pulled(i)
  <2>1. {t \in DOMAIN pull : pull[t] # None /\ pull[t].it = i} = Pulls(i)
    BY DEF IInv, TypesOK, Pulls, InHandOf
  <2> QED BY <2>1 DEF InHand, Hands, Pulled, Its, Olds, News
<1>2. ASSUME NEW i \in Chunks
      PROVE  (item[i].linked \/ Queued(i)) <=> (Between(i) \/ item[i].linked)
  <2>1. Placed(i) /\ Tabled(i) /\ Counted(i)
    BY DEF IInv, TableOK
  <2>2. Queued(i) <=> \E q \in Queues : i \in At(q)
    <3>1. \A q \in Queues : Places(q, i) > 0 <=> i \in At(q)
      BY PlacesFacts
    <3> QED BY <3>1 DEF Queued
  <2>3. ASSUME Between(i) PROVE item[i].lru \in Queues
    <3>1. Hands(i) \in Nat /\ Pulled(i) \in Nat /\ Linked(i) = 1
      BY <2>3, CountTypes DEF Linked
    <3>2. item[i].refcount >= 1
      <4>1. item[i].refcount \in Nat
        BY DEF IInv, TypesOK, Headers
      <4>2. item[i].refcount >= Hands(i) + Pulled(i) + Linked(i)
        BY <2>1 DEF Counted, Refs
      <4> QED BY <3>1, <4>1, <4>2
    <3>3. item[i] # Slabbed
      BY <3>2 DEF Slabbed
    <3> QED BY <2>1, <3>3 DEF Tabled
  <2>4. \A q \in Queues : i \in At(q) => Between(i) \/ item[i].linked
    BY <2>1 DEF Placed
  <2>5. \A q \in Queues : Between(i) /\ q = item[i].lru => i \in At(q)
    BY <2>1 DEF Placed
  <2> QED BY <2>2, <2>3, <2>4, <2>5
<1>3. ASSUME NEW i \in Chunks
      PROVE  LET refs == InHand(i) + (IF item[i].linked \/ Queued(i) THEN 1 ELSE 0) IN
             \/ item[i].refcount = refs
             \/ item[i].refcount > refs /\ item[i].val = Empty
  <2>1. (IF item[i].linked \/ Queued(i) THEN 1 ELSE 0) = Linked(i)
    BY <1>2 DEF Linked
  <2>2. InHand(i) + Linked(i) = Refs(i)
    <3>1. Hands(i) \in Nat /\ Pulled(i) \in Nat /\ Linked(i) \in Nat
      BY CountTypes
    <3> QED BY <1>1, <3>1 DEF Refs
  <2>3. Refs(i) \in Nat
    BY CountTypes DEF Refs
  <2>4. item[i].refcount \in Nat
    BY DEF IInv, TypesOK, Headers
  <2>5. item[i].refcount >= Refs(i) /\ (item[i].refcount > Refs(i) => item[i].val = Empty)
    BY DEF IInv, Counted
  <2>6. item[i].refcount = Refs(i) \/ (item[i].refcount > Refs(i) /\ item[i].val = Empty)
    BY <2>3, <2>4, <2>5
  <2> QED BY <2>1, <2>2, <2>6
<1> QED BY <1>3, TypeOKHolds DEF RefsCounted

LEMMA TableMatchesQueuesInv == IInv => TableMatchesQueues
<1> SUFFICES ASSUME IInv PROVE TableMatchesQueues
  OBVIOUS
<1>1. ASSUME NEW i \in Chunks, item[i] # Slabbed, item_lock[item[i].key] = None
      PROVE  /\ item[i].linked <=> hash[item[i].key] = i
             /\ \A q \in Queues : Places(q, i) = IF item[i].linked /\ q = item[i].lru THEN 1 ELSE 0
  <2>1. Placed(i) /\ Tabled(i) /\ item[i].key \in Keys /\ i # None
    BY <1>1, ItemsAssumption DEF IInv, TableOK, Tabled
  <2>2. item[i].linked <=> hash[item[i].key] = i
    BY <2>1 DEF IInv, TableOK, Tabled
  <2>3. PICK t \in Threads : t \notin Workers /\ t \notin Walkers
    BY ItemsAssumption DEF Threads, Walkers
  <2>4. Only(t, i)
    BY <1>1, <2>1, LockOnly
  <2>5. ~Between(i) /\ ~Away(i)
    BY <2>3, <2>4 DEF Only, Between, Away, Moves
  <2>6. \A q \in Queues : i \in At(q) <=> q = item[i].lru /\ item[i].linked
    BY <2>1, <2>5 DEF Placed
  <2> QED BY <2>2, <2>6, PlacesFacts
<1>2. \A q \in Queues : Places(q, "crawler") = IF q \in crawlers.running THEN 1 ELSE 0
  BY PlacesFacts DEF IInv, CrawlersOK
<1> QED BY <1>1, <1>2 DEF TableMatchesQueues

-----------------------------------------------------------------------------
\* Every reference count is right, in every reachable state, however many workers, keys and
\* chunks there are: nobody frees an item that a command, a reply, a walker, the table or a
\* queue still has, and nothing stays behind but the items without digits that an incr leaked.
THEOREM RefsCountedHolds == Spec => []RefsCounted
<1>1. Spec => []IInv
  BY InitInv, NextInv, PTL DEF Spec
<1>2. IInv => RefsCounted
  BY RefsCountedInv
<1> QED BY <1>1, <1>2, PTL

\* The hash table and the LRU queues agree about every key that no command is at work on, and
\* a crawler is where it runs, although table and queues change under different locks.
THEOREM TableMatchesQueuesHolds == Spec => []TableMatchesQueues
<1>1. Spec => []IInv
  BY InitInv, NextInv, PTL DEF Spec
<1>2. IInv => TableMatchesQueues
  BY TableMatchesQueuesInv
<1> QED BY <1>1, <1>2, PTL
=============================================================================
