------------------------------- MODULE Assoc_proofs -------------------------------
(***************************************************************************)
(* What is proved of Assoc for any threads, keys, hash function, sizes of  *)
(* the table and number of item locks.                                     *)
(***************************************************************************)
EXTENDS Assoc, FiniteSetTheorems, TLAPS

-----------------------------------------------------------------------------
(***************************************************************************)
(* Powers of two, by sets of so many subsets: the provers know nothing of  *)
(* exponents, and the library's induction is out of their reach.           *)
(***************************************************************************)
LEMMA PowerOfTwo ==
  ASSUME NEW n \in Nat
  PROVE  2^n \in Nat /\ 2^n > 0
<1> DEFINE S == 1..n
<1>1. IsFiniteSet(S) /\ Cardinality(S) = n
  BY FS_Interval
<1> HIDE DEF S
<1>2. IsFiniteSet(SUBSET S) /\ Cardinality(SUBSET S) = 2^n
  BY <1>1, FS_SUBSET
<1>3. Cardinality(SUBSET S) \in Nat /\ (Cardinality(SUBSET S) = 0 <=> SUBSET S = {})
  BY <1>2, FS_CardinalityType, FS_EmptySet
<1>4. SUBSET S # {}
  OBVIOUS
<1> QED
  BY <1>2, <1>3, <1>4

\* The subsets of the union of two sets without common elements are pairs of their subsets.
LEMMA PowerOfSum ==
  ASSUME NEW m \in Nat, NEW d \in Nat
  PROVE  2^(m + d) = 2^m * 2^d
<1> DEFINE A == 1..m
           B == (m + 1)..(m + d)
           C == 1..(m + d)
           f == [p \in (SUBSET A) \X (SUBSET B) |-> p[1] \cup p[2]]
<1>1. /\ IsFiniteSet(A) /\ Cardinality(A) = m
      /\ IsFiniteSet(B) /\ Cardinality(B) = d
      /\ IsFiniteSet(C) /\ Cardinality(C) = m + d
  <2>1. \A a, b \in Int : IsFiniteSet(a..b) /\ Cardinality(a..b) = IF a > b THEN 0 ELSE b - a + 1
    BY FS_Interval
  <2>2. IsFiniteSet(A) /\ Cardinality(A) = IF 1 > m THEN 0 ELSE m - 1 + 1
    BY <2>1
  <2>3. IsFiniteSet(B) /\ Cardinality(B) = IF m + 1 > m + d THEN 0 ELSE (m + d) - (m + 1) + 1
    BY <2>1
  <2>4. IsFiniteSet(C) /\ Cardinality(C) = IF 1 > m + d THEN 0 ELSE (m + d) - 1 + 1
    BY <2>1
  <2> HIDE DEF A, B, C
  <2> QED
    BY <2>2, <2>3, <2>4
<1>2. A \cup B = C /\ A \cap B = {}
  OBVIOUS
<1> HIDE DEF A, B, C
<1>3. /\ IsFiniteSet(SUBSET A) /\ Cardinality(SUBSET A) = 2^m
      /\ IsFiniteSet(SUBSET B) /\ Cardinality(SUBSET B) = 2^d
      /\ Cardinality(SUBSET C) = 2^(m + d)
  BY <1>1, FS_SUBSET
<1>4. /\ IsFiniteSet((SUBSET A) \X (SUBSET B))
      /\ Cardinality((SUBSET A) \X (SUBSET B)) = 2^m * 2^d
  BY <1>3, FS_Product
<1>5. f \in Bijection((SUBSET A) \X (SUBSET B), SUBSET C)
  <2>1. f \in [(SUBSET A) \X (SUBSET B) -> SUBSET C]
    BY <1>2
  <2>2. ASSUME NEW p \in (SUBSET A) \X (SUBSET B), NEW q \in (SUBSET A) \X (SUBSET B), f[p] = f[q]
        PROVE  p = q
    <3>1. p[1] \cup p[2] = q[1] \cup q[2]
      BY <2>2
    <3>2. p[1] = q[1] /\ p[2] = q[2]
      BY <1>2, <3>1
    <3> QED
      BY <3>2
  <2>3. ASSUME NEW c \in SUBSET C
        PROVE  \E p \in (SUBSET A) \X (SUBSET B) : f[p] = c
    <3> DEFINE p == <<c \cap A, c \cap B>>
    <3>1. p \in (SUBSET A) \X (SUBSET B) /\ f[p] = (c \cap A) \cup (c \cap B)
      OBVIOUS
    <3>2. (c \cap A) \cup (c \cap B) = c
      BY <1>2
    <3> QED
      BY <3>1, <3>2
  <2> HIDE DEF f
  <2> QED
    BY <2>1, <2>2, <2>3 DEF Bijection, Injection, Surjection, IsInjective
<1> HIDE DEF f
<1>6. Cardinality(SUBSET C) = Cardinality((SUBSET A) \X (SUBSET B))
  BY <1>4, <1>5, FS_Bijection DEF ExistsBijection
<1> QED
  BY <1>3, <1>4, <1>6

LEMMA Division ==
  ASSUME NEW h \in Nat, NEW m \in Nat, m > 0
  PROVE  h = m * (h \div m) + (h % m) /\ h \div m \in Nat /\ h % m \in 0..(m - 1)
<1>1. h = m * (h \div m) + (h % m)
  OBVIOUS
<1>2. h \div m \in Nat
  OBVIOUS
<1>3. h % m \in 0..(m - 1)
  OBVIOUS
<1> QED
  BY <1>1, <1>2, <1>3

\* A remainder does not change when a multiple of the divisor has been taken away before.
LEMMA ModOfMod ==
  ASSUME NEW h \in Nat, NEW m \in Nat, m > 0, NEW d \in Nat, d > 0
  PROVE  (h % (m * d)) % m = h % m
<1> DEFINE n == m * d
           x == h % n
           e == h \div n
<1>1. n \in Nat /\ n > 0
  OBVIOUS
<1> HIDE DEF n
<1>2. h = n * e + x /\ e \in Nat /\ x \in Nat
  BY <1>1
<1> HIDE DEF x, e
<1> DEFINE a == x \div m
           b == h \div m
<1>3. x = m * a + (x % m) /\ a \in Nat /\ x % m \in 0..(m - 1)
  BY <1>2, Division
<1>4. h = m * b + (h % m) /\ b \in Nat /\ h % m \in 0..(m - 1)
  BY Division
<1> HIDE DEF a, b
<1> DEFINE r == x % m
           s == h % m
<1>5. r \in 0..(m - 1) /\ s \in 0..(m - 1)
  BY <1>3, <1>4
<1> HIDE DEF r, s
<1>6. m * (d * e + a) + r = m * b + s
  <2>1. n * e = m * (d * e)
    BY <1>2 DEF n
  <2>2. m * (d * e + a) = m * (d * e) + m * a
    BY <1>2, <1>3
  <2>3. h = n * e + x /\ x = m * a + r /\ h = m * b + s
    BY <1>2, <1>3, <1>4 DEF r, s
  <2> DEFINE t == m * (d * e)
             u == m * a
             v == m * b
  <2>4. t \in Int /\ u \in Int /\ v \in Int
    BY <1>2, <1>3, <1>4
  <2>5. h = t + x /\ x = u + r /\ h = v + s
    BY <2>1, <2>3
  <2> HIDE DEF t, u, v
  <2>6. (t + u) + r = v + s
    BY <1>5, <2>4, <2>5
  <2> QED
    BY <2>2, <2>6 DEF t, u, v
<1> DEFINE p == d * e + a
<1>7. p \in Nat
  BY <1>2, <1>3
<1> HIDE DEF p
<1>8. m * p + r = m * b + s
  BY <1>6 DEF p
<1>9. p = b
  <2>1. CASE p > b
    <3>1. m * p >= m * (b + 1)
      BY <1>4, <1>7, <2>1
    <3>2. m * (b + 1) = m * b + m
      BY <1>4
    <3> QED
      BY <1>4, <1>5, <1>7, <1>8, <3>1, <3>2
  <2>2. CASE b > p
    <3>1. m * b >= m * (p + 1)
      BY <1>4, <1>7, <2>2
    <3>2. m * (p + 1) = m * p + m
      BY <1>7
    <3> QED
      BY <1>4, <1>5, <1>7, <1>8, <3>1, <3>2
  <2> QED
    BY <1>4, <1>7, <2>1, <2>2
<1>10. r = s
  <2> DEFINE v == m * b
  <2>1. v \in Int /\ v + r = v + s
    BY <1>4, <1>8, <1>9
  <2> HIDE DEF v
  <2> QED
    BY <1>5, <2>1
<1> QED
  BY <1>10 DEF r, s, x, n

-----------------------------------------------------------------------------
(***************************************************************************)
(* Buckets and their locks.                                                *)
(***************************************************************************)
LEMMA Sizes ==
  ASSUME NEW n \in Nat
  PROVE  hashsize(n) \in Nat /\ hashsize(n) > 0 /\ 0 \in Buckets(n)
         /\ \A b : b \in Buckets(n) <=> b \in Nat /\ b < hashsize(n)
BY PowerOfTwo DEF hashsize, Buckets

LEMMA BucketOfKey ==
  ASSUME NEW k \in Keys, NEW n \in Nat
  PROVE  Bucket(k, n) \in Buckets(n)
<1> DEFINE s == hashsize(n)
<1>1. s \in Nat /\ s > 0 /\ hash[k] \in Nat
  BY Sizes, KeysAssumption
<1> HIDE DEF s
<1>2. hash[k] % s \in 0..(s - 1)
  BY <1>1
<1> QED
  BY <1>2 DEF s, Bucket, Buckets

LEMMA LockOfHash ==
  ASSUME NEW h \in Nat
  PROVE  LockOf(h) \in Buckets(ItemLockHashpower)
<1> DEFINE s == hashsize(ItemLockHashpower)
<1>1. s \in Nat /\ s > 0
  BY Sizes, HashpowerAssumption
<1> HIDE DEF s
<1>2. h % s \in 0..(s - 1)
  BY <1>1
<1> QED
  BY <1>2 DEF s, LockOf, Buckets

\* All keys of a bucket have the lock of the bucket, as there are fewer locks than buckets.
LEMMA LockOfBucket ==
  ASSUME NEW k \in Keys, NEW n \in Nat, n >= ItemLockHashpower
  PROVE  LockOf(Bucket(k, n)) = LockOf(hash[k])
<1> DEFINE d == n - ItemLockHashpower
<1>1. hash[k] \in Nat /\ ItemLockHashpower \in Nat /\ d \in Nat /\ ItemLockHashpower + d = n
  BY KeysAssumption, HashpowerAssumption
<1> HIDE DEF d
<1>2. hashsize(n) = hashsize(ItemLockHashpower) * hashsize(d)
  BY <1>1, PowerOfSum DEF hashsize
<1>3. /\ hashsize(ItemLockHashpower) \in Nat /\ hashsize(ItemLockHashpower) > 0
      /\ hashsize(d) \in Nat /\ hashsize(d) > 0
  BY <1>1, Sizes
<1> DEFINE s == hashsize(ItemLockHashpower)
           q == hashsize(d)
<1>4. \A h, a, b \in Nat : a > 0 /\ b > 0 => (h % (a * b)) % a = h % a
  BY ModOfMod
<1>5. s \in Nat /\ s > 0 /\ q \in Nat /\ q > 0
  BY <1>3
<1>6. Bucket(k, n) = hash[k] % (s * q) /\ LockOf(Bucket(k, n)) = Bucket(k, n) % s
      /\ LockOf(hash[k]) = hash[k] % s
  BY <1>2 DEF LockOf, Bucket
<1> HIDE DEF s, q
<1>7. (hash[k] % (s * q)) % s = hash[k] % s
  BY <1>1, <1>4, <1>5
<1> QED
  BY <1>6, <1>7

-----------------------------------------------------------------------------
(***************************************************************************)
(* The inductive invariant.                                                *)
(***************************************************************************)
\* The table is never smaller than it was, a bucket is moved under its lock, and all of them
\* are before the next expansion.
Growing ==
  /\ hashpower >= InitHashpower
  /\ expanding => expand_bucket \in Buckets(hashpower - 1)
  /\ mpc = "migrate" => expanding /\ item_lock[LockOf(expand_bucket)] = "assoc"
  /\ mpc \in {"reset", "waiting", "pausing", "notify", "registering", "expand"} => ~expanding

\* Every key is in its bucket: in the old table those not moved yet, in the primary table those
\* that have been; of the bucket that is being moved each key is in one of them.
InOld(k)     == expanding /\ k \in old_hashtable[Bucket(k, hashpower - 1)]
InPrimary(k) == k \in primary_hashtable[Bucket(k, hashpower)]
Placed ==
  /\ \A b \in Buckets(hashpower) : \A k \in primary_hashtable[b] : b = Bucket(k, hashpower)
  /\ expanding =>
       \A b \in Buckets(hashpower - 1) : \A k \in old_hashtable[b] : b = Bucket(k, hashpower - 1)
  /\ \A k \in Keys : InOld(k) => NotMoved(k) /\ ~InPrimary(k)
  /\ \A k \in Keys : InPrimary(k) /\ expanding =>
       ~NotMoved(k) \/ (mpc = "migrate" /\ Bucket(k, hashpower - 1) = expand_bucket)

\* A thread in a request has the lock of its key, and nobody else has a lock.
Working(t) == pc[t] \in {"read", "choose", "act", "count", "unlock"}
Locking ==
  /\ \A t \in Threads : IF Working(t) THEN key[t] \in Keys /\ item_lock[LockOf(hash[key[t]])] = t
                                      ELSE key[t] = NoKey
  /\ \A l \in Buckets(ItemLockHashpower) :
       /\ item_lock[l] \in Threads =>
            Working(item_lock[l]) /\ LockOf(hash[key[item_lock[l]]]) = l
       /\ item_lock[l] = "assoc" => mpc = "migrate" /\ l = LockOf(expand_bucket)

\* What a thread in a call knows is true until it is done: it looks for its key where the key is
\* or would be, it inserts what is not there and deletes what is.
Finds(t) ==
  /\ pc[t] \in {"read", "choose", "act"} =>
       /\ fn[t] = "delete" => key[t] \in Linked
       /\ fn[t] = "insert" => key[t] \notin Linked
  /\ pc[t] = "count" => key[t] \in Linked
  /\ pc[t] = "choose" => IF saw[t] THEN expanding \/ ~NotMoved(key[t]) ELSE ~expanding
  /\ pc[t] = "act" => (where[t] = "old" <=> expanding /\ NotMoved(key[t]))
Calls == \A t \in Threads : Finds(t)

\* What the maintenance thread has locked, what a background thread has, and who still has to
\* register.
Pausing ==
  /\ \A i \in 1..4 :
       \/ mpc = "pausing" /\ i < mstep
       \/ mpc \in {"notify", "registering", "expand"}
       \/ mpc = "resuming" /\ i >= mstep
       => pause_lock[PauseOrder[i]] = "assoc"
  /\ \A b \in Background : pc[b] # "event" => pause_lock[b] = b
Registering ==
  /\ \A w \in Workers : pipe[w] = 0 \/ (pipe[w] = 1 /\ mpc = "registering")
  /\ init_count = Cardinality({w \in Workers : pipe[w] = 0})
  /\ mpc \in {"registering", "expand"} => \A w \in Workers : pipe[w] = 0 => pc[w] = "hang"

IInv ==
  /\ FieldsOK /\ hash_items \in Int /\ ItemsCounted
  /\ Growing /\ Placed /\ Locking /\ Calls /\ Pausing /\ Registering

-----------------------------------------------------------------------------
(***************************************************************************)
(* What the invariant tells.                                               *)
(***************************************************************************)
LEMMA ThreadFacts ==
  /\ IsFiniteSet(Threads)
  /\ "none" \notin Threads /\ "assoc" \notin Threads
  /\ Workers \cap Background = {}
<1>1. IsFiniteSet(Background)
  <2>1. IsFiniteSet({}) /\ \A S, x : IsFiniteSet(S) => IsFiniteSet(S \cup {x})
    BY FS_EmptySet, FS_AddElement
  <2>2. IsFiniteSet((({} \cup {"rebalancer"}) \cup {"crawler"}) \cup {"maintainer"})
    BY <2>1
  <2>3. BackgroundThreads = (({} \cup {"rebalancer"}) \cup {"crawler"}) \cup {"maintainer"}
    BY DEF BackgroundThreads
  <2> QED
    BY <2>2, <2>3, ThreadsAssumption, FS_Subset
<1> QED
  BY <1>1, ThreadsAssumption, FS_Union DEF Threads, BackgroundThreads

LEMMA Powers ==
  ASSUME FieldsOK, Growing
  PROVE  hashpower \in Nat /\ hashpower - 1 \in Nat /\ hashpower - 1 >= ItemLockHashpower
BY HashpowerAssumption DEF FieldsOK, Growing

\* The keys in a pair of tables that have them where they belong.
LEMMA KeysOfTables ==
  ASSUME NEW n \in Nat, n - 1 \in Nat, NEW primary \in [Buckets(n) -> SUBSET Keys], NEW old, NEW both,
         \A b \in Buckets(n) : \A k \in primary[b] : b = Bucket(k, n),
         IF both THEN /\ old \in [Buckets(n - 1) -> SUBSET Keys]
                      /\ \A b \in Buckets(n - 1) : \A k \in old[b] : b = Bucket(k, n - 1)
                 ELSE old = <<>>
  PROVE  UNION ({primary[b] : b \in DOMAIN primary} \cup {old[b] : b \in DOMAIN old})
           = {k \in Keys : k \in primary[Bucket(k, n)] \/ (both /\ k \in old[Bucket(k, n - 1)])}
<1> DEFINE all == UNION ({primary[b] : b \in DOMAIN primary} \cup {old[b] : b \in DOMAIN old})
<1>1. \A k \in Keys : Bucket(k, n) \in Buckets(n) /\ Bucket(k, n - 1) \in Buckets(n - 1)
  BY BucketOfKey
<1>2. DOMAIN primary = Buckets(n) /\ \A b \in Buckets(n) : primary[b] \subseteq Keys
  OBVIOUS
<1>3. CASE both
  <2>1. DOMAIN old = Buckets(n - 1) /\ \A b \in Buckets(n - 1) : old[b] \subseteq Keys
    BY <1>3
  <2>2. ASSUME NEW k \in all
        PROVE  k \in Keys /\ (k \in primary[Bucket(k, n)] \/ k \in old[Bucket(k, n - 1)])
    <3>1. (\E b \in Buckets(n) : k \in primary[b]) \/ (\E b \in Buckets(n - 1) : k \in old[b])
      BY <1>2, <2>1, <2>2
    <3> QED
      BY <1>2, <1>3, <2>1, <3>1
  <2>3. ASSUME NEW k \in Keys, k \in primary[Bucket(k, n)] \/ k \in old[Bucket(k, n - 1)]
        PROVE  k \in all
    BY <1>1, <1>2, <2>1, <2>3
  <2> HIDE DEF all
  <2> QED
    BY <1>3, <2>2, <2>3 DEF all
<1>4. CASE ~both
  <2>1. DOMAIN old = {}
    BY <1>4
  <2>2. ASSUME NEW k \in all
        PROVE  k \in Keys /\ k \in primary[Bucket(k, n)]
    <3>1. \E b \in Buckets(n) : k \in primary[b]
      BY <1>2, <2>1, <2>2
    <3> QED
      BY <1>2, <3>1
  <2>3. ASSUME NEW k \in Keys, k \in primary[Bucket(k, n)]
        PROVE  k \in all
    BY <1>1, <1>2, <2>3
  <2> HIDE DEF all
  <2> QED
    BY <1>4, <2>2, <2>3 DEF all
<1> QED
  BY <1>3, <1>4

LEMMA LinkedKeys ==
  ASSUME FieldsOK, Growing, Placed
  PROVE  Linked = {k \in Keys : InPrimary(k) \/ InOld(k)}
<1>1. /\ primary_hashtable \in [Buckets(hashpower) -> SUBSET Keys]
      /\ \A b \in Buckets(hashpower) : \A k \in primary_hashtable[b] : b = Bucket(k, hashpower)
      /\ IF expanding THEN /\ old_hashtable \in [Buckets(hashpower - 1) -> SUBSET Keys]
                           /\ \A b \in Buckets(hashpower - 1) : \A k \in old_hashtable[b] : b = Bucket(k, hashpower - 1)
                      ELSE old_hashtable = <<>>
  BY DEF FieldsOK, Placed
<1>2. hashpower \in Nat /\ hashpower - 1 \in Nat
  BY Powers
<1>3. Linked = {k \in Keys : k \in primary_hashtable[Bucket(k, hashpower)]
                               \/ (expanding /\ k \in old_hashtable[Bucket(k, hashpower - 1)])}
  BY <1>1, <1>2, KeysOfTables, SMTT(30) DEF Linked
<1> QED
  BY <1>3 DEF InPrimary, InOld

\* The same after a step.
LEMMA LinkedKeysAfter ==
  ASSUME FieldsOK', Growing', Placed'
  PROVE  Linked' = {k \in Keys : InPrimary(k)' \/ InOld(k)'}
<1>1. /\ primary_hashtable' \in [Buckets(hashpower') -> SUBSET Keys]
      /\ \A b \in Buckets(hashpower') : \A k \in primary_hashtable'[b] : b = Bucket(k, hashpower')
      /\ IF expanding' THEN /\ old_hashtable' \in [Buckets(hashpower' - 1) -> SUBSET Keys]
                            /\ \A b \in Buckets(hashpower' - 1) :
                                 \A k \in old_hashtable'[b] : b = Bucket(k, hashpower' - 1)
                       ELSE old_hashtable' = <<>>
  BY DEF FieldsOK, Placed
<1>2. hashpower' \in Nat /\ hashpower' - 1 \in Nat
  <2>1. hashpower' \in Nat /\ hashpower' >= InitHashpower
    BY DEF FieldsOK, Growing
  <2>2. \A n \in Nat : n >= InitHashpower => n - 1 \in Nat
    BY HashpowerAssumption
  <2> QED
    BY <2>1, <2>2
<1>3. Linked' = {k \in Keys : k \in primary_hashtable'[Bucket(k, hashpower')]
                               \/ (expanding' /\ k \in old_hashtable'[Bucket(k, hashpower' - 1)])}
  BY <1>1, <1>2, KeysOfTables DEF Linked
<1> QED
  BY <1>3 DEF InPrimary, InOld

\* Threads at work have different locks, so keys in different buckets.
LEMMA KeysApart ==
  ASSUME FieldsOK, Locking, NEW t \in Threads, NEW u \in Threads, t # u, Working(t), Working(u)
  PROVE  key[t] # key[u] /\ LockOf(hash[key[t]]) # LockOf(hash[key[u]])
BY DEF Locking

LEMMA LockOfKey ==
  ASSUME NEW k \in Keys
  PROVE  hash[k] \in Nat /\ LockOf(hash[k]) \in Buckets(ItemLockHashpower)
BY KeysAssumption, LockOfHash

\* A thread finds its key where it looks for it.
LEMMA Looks ==
  ASSUME FieldsOK, Growing, Placed, Locking, Calls, NEW t \in Threads, pc[t] = "act"
  PROVE  /\ key[t] \in Keys
         /\ key[t] \in Linked <=> key[t] \in Chosen(t)
         /\ where[t] = "old" => expanding /\ NotMoved(key[t])
         /\ where[t] # "old" => ~expanding \/ ~NotMoved(key[t])
<1>1. key[t] \in Keys
  BY DEF Locking, Working
<1>2. where[t] = "old" <=> expanding /\ NotMoved(key[t])
  BY DEF Calls, Finds
<1>3. key[t] \in Linked <=> InPrimary(key[t]) \/ InOld(key[t])
  BY <1>1, LinkedKeys
<1>4. CASE where[t] = "old"
  <2>1. expanding /\ NotMoved(key[t])
    BY <1>2, <1>4
  <2>2. ~InPrimary(key[t])
    <3>1. SUFFICES ASSUME InPrimary(key[t]) PROVE FALSE
      OBVIOUS
    <3>2. mpc = "migrate" /\ Bucket(key[t], hashpower - 1) = expand_bucket
      BY <1>1, <2>1, <3>1 DEF Placed
    <3>3. LockOf(expand_bucket) = LockOf(hash[key[t]])
      BY <1>1, <3>2, Powers, LockOfBucket
    <3>4. item_lock[LockOf(hash[key[t]])] = "assoc"
      BY <3>2, <3>3 DEF Growing
    <3> QED
      BY <3>4, ThreadFacts DEF Locking, Working
  <2> QED
    BY <1>1, <1>2, <1>3, <1>4, <2>1, <2>2 DEF Chosen, OldBucket, InOld
<1>5. CASE where[t] # "old"
  <2>1. ~InOld(key[t])
    BY <1>1, <1>2, <1>5 DEF Placed, InOld
  <2> QED
    BY <1>1, <1>2, <1>3, <1>5, <2>1 DEF Chosen, PrimaryBucket, InPrimary
<1> QED
  BY <1>4, <1>5

-----------------------------------------------------------------------------
(***************************************************************************)
(* What steps of the same kind keep.                                       *)
(***************************************************************************)
\* Same tables, same place of every key.
LEMMA TableKept ==
  ASSUME IInv, UNCHANGED tableVars, mpc' = "migrate" <=> mpc = "migrate",
         mpc' \in {"reset", "waiting", "pausing", "notify", "registering", "expand"} => ~expanding,
         item_lock[LockOf(expand_bucket)] = "assoc" => item_lock'[LockOf(expand_bucket)] = "assoc"
  PROVE  Growing' /\ Placed' /\ Linked' = Linked
<1>1. Growing'
  BY DEF IInv, Growing, tableVars
<1>2. Placed'
  <2>1. \A k \in Keys : InOld(k)' = InOld(k) /\ InPrimary(k)' = InPrimary(k) /\ NotMoved(k)' = NotMoved(k)
    BY DEF tableVars, InOld, InPrimary, NotMoved
  <2>2. /\ \A b \in Buckets(hashpower) : \A k \in primary_hashtable[b] : b = Bucket(k, hashpower)
        /\ expanding => \A b \in Buckets(hashpower - 1) : \A k \in old_hashtable[b] : b = Bucket(k, hashpower - 1)
    BY DEF IInv, Placed
  <2>3. \A k \in Keys : InOld(k) => NotMoved(k) /\ ~InPrimary(k)
    BY DEF IInv, Placed
  <2>4. \A k \in Keys : InPrimary(k) /\ expanding =>
          ~NotMoved(k) \/ (mpc = "migrate" /\ Bucket(k, hashpower - 1) = expand_bucket)
    BY DEF IInv, Placed
  <2> QED
    BY <2>1, <2>2, <2>3, <2>4 DEF Placed, tableVars
<1>3. Linked' = Linked
  BY DEF Linked, tableVars
<1> QED
  BY <1>1, <1>2, <1>3

\* A step of a thread leaves alone what the other threads rely on.
LEMMA OthersKept ==
  ASSUME IInv, NEW t \in Threads, UNCHANGED <<hashpower, expanding, expand_bucket>>,
         \A u \in Threads \ {t} : /\ pc'[u] = pc[u] /\ fn'[u] = fn[u] /\ key'[u] = key[u]
                                  /\ saw'[u] = saw[u] /\ where'[u] = where[u]
                                  /\ Working(u) => (key[u] \in Linked' <=> key[u] \in Linked),
         Finds(t)'
  PROVE  Calls'
<1>1. ASSUME NEW u \in Threads, u # t PROVE Finds(u)'
  <2>1. Finds(u)
    BY DEF IInv, Calls
  <2>2. /\ pc'[u] = pc[u] /\ fn'[u] = fn[u] /\ key'[u] = key[u] /\ saw'[u] = saw[u] /\ where'[u] = where[u]
        /\ pc[u] \in {"read", "choose", "act", "count"} => (key[u] \in Linked' <=> key[u] \in Linked)
    BY <1>1 DEF Working
  <2>3. NotMoved(key[u])' = NotMoved(key[u])
    BY <2>2 DEF NotMoved
  <2> QED
    BY <2>1, <2>2, <2>3 DEF Finds
<1> QED
  BY <1>1 DEF Calls

\* A step that leaves tables and locks alone and takes no thread in or out of a request.
LEMMA Quiet ==
  ASSUME IInv, NEW t \in Threads,
         UNCHANGED <<tableVars, item_lock, key, maintVars>>,
         \A u \in Threads \ {t} : /\ pc'[u] = pc[u] /\ fn'[u] = fn[u]
                                  /\ saw'[u] = saw[u] /\ where'[u] = where[u],
         Working(t)' <=> Working(t), Finds(t)'
  PROVE  Growing' /\ Placed' /\ Locking' /\ Calls' /\ Linked' = Linked
<1>1. Growing' /\ Placed' /\ Linked' = Linked
  BY TableKept DEF IInv, Growing, maintVars
<1>2. Calls'
  BY <1>1, OthersKept DEF tableVars
<1>3. Locking'
  <2>1. \A u \in Threads : (Working(u)' <=> Working(u)) /\ key'[u] = key[u]
    BY DEF Working
  <2>2. \A l \in Buckets(ItemLockHashpower) : item_lock'[l] = item_lock[l]
    OBVIOUS
  <2>3. \A u \in Threads : IF Working(u) THEN key[u] \in Keys /\ item_lock[LockOf(hash[key[u]])] = u
                                         ELSE key[u] = NoKey
    BY DEF IInv, Locking
  <2>4. \A l \in Buckets(ItemLockHashpower) :
          /\ item_lock[l] \in Threads => Working(item_lock[l]) /\ LockOf(hash[key[item_lock[l]]]) = l
          /\ item_lock[l] = "assoc" => mpc = "migrate" /\ l = LockOf(expand_bucket)
    BY DEF IInv, Locking
  <2>5. UNCHANGED <<mpc, item_lock, key, expand_bucket>>
    BY DEF maintVars, tableVars
  <2> QED
    BY <2>1, <2>3, <2>4, <2>5 DEF Locking
<1> QED
  BY <1>1, <1>2, <1>3

\* Nobody but the thread changes its step, and the thread neither wakes, sleeps nor hangs.
LEMMA PausesKept ==
  ASSUME IInv, NEW t \in Threads, UNCHANGED <<pauseVars, maintVars>>,
         \A u \in Threads \ {t} : pc'[u] = pc[u],
         t \in Workers => pc[t] # "hang", t \in Background => pc[t] # "event"
  PROVE  Pausing' /\ Registering'
<1>1. Pausing'
  <2>1. \A i \in 1..4 : (\/ mpc = "pausing" /\ i < mstep
                         \/ mpc \in {"notify", "registering", "expand"}
                         \/ mpc = "resuming" /\ i >= mstep) => pause_lock[PauseOrder[i]] = "assoc"
    BY DEF IInv, Pausing
  <2>2. \A b \in Background : pc'[b] # "event" => pause_lock[b] = b
    BY DEF IInv, Pausing, Threads
  <2> QED
    BY <2>1, <2>2 DEF Pausing, pauseVars, maintVars
<1>2. Registering'
  <2>1. \A w \in Workers : pc[w] = "hang" => pc'[w] = "hang"
    BY DEF Threads
  <2> QED
    BY <2>1 DEF IInv, Registering, pauseVars, maintVars
<1> QED
  BY <1>1, <1>2

\* The count of the items is right when neither the items nor the threads that have yet to
\* count one change.
LEMMA CountKept ==
  ASSUME IInv, hash_items' = hash_items, Linked' = Linked,
         \A u \in Threads : pc'[u] = "count" <=> pc[u] = "count"
  PROVE  hash_items' \in Int /\ ItemsCounted'
<1>1. {u \in Threads : pc'[u] = "count"} = {u \in Threads : pc[u] = "count"}
  OBVIOUS
<1> QED
  BY <1>1 DEF IInv, ItemsCounted

-----------------------------------------------------------------------------
(***************************************************************************)
(* Steps of threads that change neither the tables nor the locks.          *)
(***************************************************************************)
LEMMA InvReadExpanding ==
  ASSUME IInv, NEW t \in Threads, ReadExpanding(t)
  PROVE  IInv'
<1>1. FieldsOK'
  BY DEF IInv, FieldsOK, ReadExpanding, tableVars, growVars, pauseVars, maintVars
<1>2. /\ pc \in [Threads -> {"event", "running", "read", "choose", "act", "count", "unlock", "hang", "crawlercmd"}]
      /\ saw \in [Threads -> BOOLEAN] /\ expanding \in BOOLEAN
  BY DEF IInv, FieldsOK
<1>3. /\ UNCHANGED <<tableVars, item_lock, key, maintVars, pauseVars, hash_items, fn, where>>
      /\ pc[t] = "read" /\ pc'[t] = "choose" /\ saw'[t] = expanding
      /\ \A u \in Threads \ {t} : pc'[u] = pc[u] /\ saw'[u] = saw[u]
  BY <1>2 DEF ReadExpanding
<1>4. Finds(t)'
  <2>1. Finds(t) /\ Linked' = Linked
    BY <1>3 DEF IInv, Calls, Linked, tableVars
  <2> QED
    BY <1>3, <2>1 DEF Finds, tableVars
<1>5. Growing' /\ Placed' /\ Locking' /\ Calls' /\ Linked' = Linked
  BY <1>3, <1>4, Quiet DEF Working
<1>6. Pausing' /\ Registering'
  BY <1>3, PausesKept
<1>7. hash_items' \in Int /\ ItemsCounted'
  BY <1>3, <1>5, CountKept
<1> QED
  BY <1>1, <1>5, <1>6, <1>7 DEF IInv

LEMMA InvChooseBucket ==
  ASSUME IInv, NEW t \in Threads, ChooseBucket(t)
  PROVE  IInv'
<1>1. FieldsOK'
  BY DEF IInv, FieldsOK, ChooseBucket, tableVars, growVars, pauseVars, maintVars
<1>2. /\ pc \in [Threads -> {"event", "running", "read", "choose", "act", "count", "unlock", "hang", "crawlercmd"}]
      /\ where \in [Threads -> {"old", "primary"}]
  BY DEF IInv, FieldsOK
<1>3. /\ UNCHANGED <<tableVars, item_lock, key, maintVars, pauseVars, hash_items, fn, saw>>
      /\ pc[t] = "choose" /\ pc'[t] = "act"
      /\ where'[t] = IF saw[t] /\ NotMoved(key[t]) THEN "old" ELSE "primary"
      /\ \A u \in Threads \ {t} : pc'[u] = pc[u] /\ where'[u] = where[u]
  BY <1>2 DEF ChooseBucket
<1>4. Finds(t)'
  <2>1. Finds(t) /\ Linked' = Linked /\ NotMoved(key[t])' = NotMoved(key[t])
    BY <1>3 DEF IInv, Calls, Linked, tableVars, NotMoved
  <2> QED
    BY <1>3, <2>1 DEF Finds, tableVars
<1>5. Growing' /\ Placed' /\ Locking' /\ Calls' /\ Linked' = Linked
  BY <1>3, <1>4, Quiet DEF Working
<1>6. Pausing' /\ Registering'
  BY <1>3, PausesKept
<1>7. hash_items' \in Int /\ ItemsCounted'
  BY <1>3, <1>5, CountKept
<1> QED
  BY <1>1, <1>5, <1>6, <1>7 DEF IInv

LEMMA Invassoc_find ==
  ASSUME IInv, NEW t \in Threads, assoc_find(t)
  PROVE  IInv'
<1> DEFINE found == key[t] \in Chosen(t)
<1>1. FieldsOK'
  <2>1. /\ answer' = [answer EXCEPT ![t] = IF found THEN "hit" ELSE "miss"]
        /\ (fn' = [fn EXCEPT ![t] = "delete"] /\ pc' = [pc EXCEPT ![t] = "read"])
             \/ (fn' = [fn EXCEPT ![t] = "insert"] /\ pc' = [pc EXCEPT ![t] = "read"])
             \/ (fn' = fn /\ pc' = [pc EXCEPT ![t] = "unlock"])
        /\ UNCHANGED <<tableVars, growVars, item_lock, pauseVars, maintVars, cmd, key, saw, where>>
    BY DEF assoc_find, Call
  <2> HIDE DEF found
  <2>2. pc' \in [Threads -> {"event", "running", "read", "choose", "act", "count", "unlock", "hang", "crawlercmd"}]
        /\ fn' \in [Threads -> {"none", "find", "insert", "delete"}]
        /\ answer' \in [Threads -> {"none", "hit", "miss"}]
    BY <2>1, SMTT(30) DEF IInv, FieldsOK
  <2>3. FieldsOK
    BY DEF IInv
  <2> QED
    BY <2>1, <2>2, <2>3 DEF FieldsOK, tableVars, growVars, pauseVars, maintVars
<1>2. /\ pc \in [Threads -> {"event", "running", "read", "choose", "act", "count", "unlock", "hang", "crawlercmd"}]
      /\ fn \in [Threads -> {"none", "find", "insert", "delete"}]
  BY DEF IInv, FieldsOK
<1>3. /\ UNCHANGED <<tableVars, item_lock, key, maintVars, pauseVars, hash_items, saw, where>>
      /\ pc[t] = "act"
      /\ \/ found /\ fn'[t] = "delete" /\ pc'[t] = "read"
         \/ ~found /\ fn'[t] = "insert" /\ pc'[t] = "read"
         \/ pc'[t] = "unlock"
      /\ \A u \in Threads \ {t} : pc'[u] = pc[u] /\ fn'[u] = fn[u]
  BY <1>2 DEF assoc_find, Call
<1>4. Finds(t)'
  <2>1. Linked' = Linked /\ (found <=> key[t] \in Linked)
    BY <1>3, Looks DEF IInv, Linked, tableVars
  <2> HIDE DEF found
  <2> QED
    BY <1>3, <2>1 DEF Finds
<1> HIDE DEF found
<1>5. Growing' /\ Placed' /\ Locking' /\ Calls' /\ Linked' = Linked
  BY <1>3, <1>4, Quiet DEF Working
<1>6. Pausing' /\ Registering'
  BY <1>3, PausesKept
<1>7. hash_items' \in Int /\ ItemsCounted'
  BY <1>3, <1>5, CountKept
<1> QED
  BY <1>1, <1>5, <1>6, <1>7 DEF IInv

\* A count changes by the thread that joins or leaves the threads counted.
LEMMA OneMore ==
  ASSUME NEW S, NEW T, NEW x, IsFiniteSet(T), x \in S, x \notin T, S = T \cup {x}
  PROVE  IsFiniteSet(S) /\ Cardinality(S) = Cardinality(T) + 1 /\ Cardinality(T) \in Nat
BY FS_AddElement, FS_CardinalityType

\* The item that was linked is counted.
LEMMA InvInsertCount ==
  ASSUME IInv, NEW t \in Threads, InsertCount(t)
  PROVE  IInv'
<1>1. hash_items' = hash_items + 1 /\ hash_items' \in Int
  BY DEF IInv, InsertCount
<1>2. FieldsOK'
  <2>1. {started_expanding', waiting'} \subseteq BOOLEAN
    BY DEF InsertCount, assoc_start_expand, growVars, IInv, FieldsOK
  <2>2. /\ UNCHANGED <<tableVars, item_lock, pauseVars, maintVars, callVars>>
        /\ pc' = [pc EXCEPT ![t] = "unlock"]
    BY DEF InsertCount
  <2>3. FieldsOK
    BY DEF IInv
  <2> QED
    BY <2>1, <2>2, <2>3 DEF FieldsOK, tableVars, pauseVars, maintVars, callVars
<1>3. pc \in [Threads -> {"event", "running", "read", "choose", "act", "count", "unlock", "hang", "crawlercmd"}]
  BY DEF IInv, FieldsOK
<1>4. /\ UNCHANGED <<tableVars, item_lock, pauseVars, maintVars, fn, key, saw, where>>
      /\ pc[t] = "count" /\ pc'[t] = "unlock"
      /\ \A u \in Threads \ {t} : pc'[u] = pc[u]
  BY <1>3 DEF InsertCount, callVars
<1>5. Growing' /\ Placed' /\ Locking' /\ Calls' /\ Linked' = Linked
  BY <1>4, Quiet DEF Working, Finds
<1>6. Pausing' /\ Registering'
  BY <1>4, PausesKept
<1>7. ItemsCounted'
  <2> DEFINE S == {u \in Threads : pc[u] = "count"}
             T == {u \in Threads : pc'[u] = "count"}
  <2>1. S = T \cup {t} /\ t \notin T /\ t \in S
    BY <1>4
  <2>2. IsFiniteSet(T)
    BY ThreadFacts, FS_Subset
  <2> HIDE DEF S, T
  <2>3. Cardinality(S) = Cardinality(T) + 1 /\ Cardinality(T) \in Nat
    BY <2>1, <2>2, OneMore
  <2>4. hash_items + Cardinality(S) = Cardinality(Linked)
    BY DEF IInv, ItemsCounted, S
  <2>5. hash_items' + Cardinality(T) = Cardinality(Linked)
    BY <1>1, <2>3, <2>4 DEF IInv
  <2> QED
    BY <1>5, <2>5 DEF ItemsCounted, T
<1> QED
  BY <1>1, <1>2, <1>5, <1>6, <1>7 DEF IInv

-----------------------------------------------------------------------------
(***************************************************************************)
(* Threads that sleep, wake, hang and go on.                               *)
(***************************************************************************)
Steps == {"event", "running", "read", "choose", "act", "count", "unlock", "hang", "crawlercmd"}

\* A thread outside of a request that goes to another step outside of one.
LEMMA Outside ==
  ASSUME IInv, NEW t \in Threads, NEW p \in {"event", "running", "hang", "crawlercmd"},
         pc[t] \in {"event", "running", "hang", "crawlercmd"}, pc' = [pc EXCEPT ![t] = p],
         UNCHANGED <<tableVars, hash_items, growVars, item_lock, maintVars, callVars>>
  PROVE  /\ hash_items' \in Int /\ ItemsCounted' /\ Growing' /\ Placed' /\ Locking' /\ Calls'
         /\ pc' \in [Threads -> Steps]
         /\ pc'[t] = p /\ \A u \in Threads \ {t} : pc'[u] = pc[u]
<1>1. pc \in [Threads -> Steps]
  BY DEF IInv, FieldsOK, Steps
<1>2. /\ pc' \in [Threads -> Steps]
      /\ pc'[t] = p /\ \A u \in Threads \ {t} : pc'[u] = pc[u]
  BY <1>1 DEF Steps
<1>3. UNCHANGED <<tableVars, item_lock, key, maintVars, fn, saw, where>>
  BY DEF callVars
<1>4. Growing' /\ Placed' /\ Locking' /\ Calls' /\ Linked' = Linked
  BY <1>2, <1>3, Quiet DEF Working, Finds
<1>5. hash_items' \in Int /\ ItemsCounted'
  BY <1>2, <1>4, CountKept
<1> QED
  BY <1>2, <1>4, <1>5

LEMMA InvCrawlerCommand ==
  ASSUME IInv, NEW w \in Workers, CrawlerCommand(w) \/ CrawlerCommandDone(w)
  PROVE  IInv'
<1>1. PICK p \in {"event", "running", "hang", "crawlercmd"} :
        /\ pc[w] \in {"event", "running", "hang", "crawlercmd"} /\ pc[w] # "hang"
        /\ pc' = [pc EXCEPT ![w] = p]
        /\ UNCHANGED <<tableVars, hash_items, growVars, item_lock, pauseVars, maintVars, callVars>>
  BY DEF CrawlerCommand, CrawlerCommandDone
<1>2. w \in Threads /\ w \notin Background
  BY ThreadFacts DEF Threads
<1>3. /\ hash_items' \in Int /\ ItemsCounted' /\ Growing' /\ Placed' /\ Locking' /\ Calls'
      /\ pc' \in [Threads -> Steps] /\ \A u \in Threads \ {w} : pc'[u] = pc[u]
  BY <1>1, <1>2, Outside
<1>4. Pausing' /\ Registering'
  BY <1>1, <1>2, <1>3, PausesKept
<1>5. FieldsOK'
  BY <1>1, <1>3 DEF IInv, FieldsOK, Steps, tableVars, growVars, pauseVars, maintVars, callVars
<1> QED
  BY <1>3, <1>4, <1>5 DEF IInv

LEMMA InvHangPass ==
  ASSUME IInv, NEW w \in Workers, HangPass(w)
  PROVE  IInv'
<1>1. /\ pc[w] = "hang" /\ pc' = [pc EXCEPT ![w] = "event"] /\ pause_lock["workers"] = "none"
      /\ UNCHANGED <<tableVars, hash_items, growVars, item_lock, pauseVars, maintVars, callVars>>
  BY DEF HangPass
<1>2. w \in Threads /\ w \notin Background
  BY ThreadFacts DEF Threads
<1>3. /\ hash_items' \in Int /\ ItemsCounted' /\ Growing' /\ Placed' /\ Locking' /\ Calls'
      /\ pc' \in [Threads -> Steps] /\ \A u \in Threads \ {w} : pc'[u] = pc[u]
  BY <1>1, <1>2, Outside
<1>4. mpc \notin {"registering", "expand"}
  BY <1>1 DEF IInv, Pausing, PauseOrder
<1>5. Pausing'
  BY <1>1, <1>2, <1>3 DEF IInv, Pausing, Threads, pauseVars, maintVars
<1>6. Registering'
  BY <1>1, <1>4 DEF IInv, Registering, pauseVars, maintVars
<1>7. FieldsOK'
  BY <1>1, <1>3 DEF IInv, FieldsOK, Steps, tableVars, growVars, pauseVars, maintVars, callVars
<1> QED
  BY <1>3, <1>5, <1>6, <1>7 DEF IInv

\* A worker that takes the byte from its pipe is one more that has registered.
LEMMA InvRegister ==
  ASSUME IInv, NEW w \in Workers, Register(w)
  PROVE  IInv'
<1>1. /\ pc[w] = "event" /\ pipe[w] > 0 /\ pipe' = [pipe EXCEPT ![w] = @ - 1]
      /\ init_count' = init_count + 1 /\ pc' = [pc EXCEPT ![w] = "hang"]
      /\ UNCHANGED <<tableVars, hash_items, growVars, item_lock, pause_lock, pauses, maintVars, callVars>>
  BY DEF Register
<1>2. w \in Threads /\ w \notin Background
  BY ThreadFacts DEF Threads
<1>3. /\ hash_items' \in Int /\ ItemsCounted' /\ Growing' /\ Placed' /\ Locking' /\ Calls'
      /\ pc' \in [Threads -> Steps] /\ pc'[w] = "hang" /\ \A u \in Threads \ {w} : pc'[u] = pc[u]
  BY <1>1, <1>2, Outside
<1>4. pipe \in [Workers -> Nat] /\ init_count \in Nat
  BY DEF IInv, FieldsOK
<1>5. pipe[w] = 1 /\ mpc = "registering"
  BY <1>1 DEF IInv, Registering
<1>6. pipe' \in [Workers -> Nat] /\ pipe'[w] = 0 /\ \A v \in Workers \ {w} : pipe'[v] = pipe[v]
  BY <1>1, <1>4, <1>5
<1>7. Pausing'
  BY <1>1, <1>2, <1>3 DEF IInv, Pausing, Threads, maintVars
<1>8. Registering'
  <2> DEFINE S == {v \in Workers : pipe'[v] = 0}
             T == {v \in Workers : pipe[v] = 0}
  <2>1. S = T \cup {w} /\ w \notin T /\ w \in S
    BY <1>5, <1>6
  <2>2. IsFiniteSet(T)
    BY ThreadsAssumption, FS_Subset
  <2> HIDE DEF S, T
  <2>3. Cardinality(S) = Cardinality(T) + 1
    BY <2>1, <2>2, OneMore
  <2>4. init_count = Cardinality(T)
    BY DEF IInv, Registering, T
  <2>5. init_count' = Cardinality(S)
    BY <1>1, <2>3, <2>4
  <2>6. \A v \in Workers : pipe'[v] = 0 \/ (pipe'[v] = 1 /\ mpc = "registering")
    BY <1>6 DEF IInv, Registering
  <2>7. \A v \in Workers : pipe'[v] = 0 => pc'[v] = "hang"
    BY <1>3, <1>5, <1>6 DEF IInv, Registering, Threads
  <2> QED
    BY <1>1, <2>5, <2>6, <2>7 DEF Registering, S, maintVars
<1>9. FieldsOK'
  BY <1>1, <1>3, <1>4, <1>6 DEF IInv, FieldsOK, Steps, tableVars, growVars, maintVars, callVars
<1> QED
  BY <1>3, <1>7, <1>8, <1>9 DEF IInv

\* A background thread takes or gives back its lock.
LEMMA InvBackground ==
  ASSUME IInv, NEW b \in Background, BackgroundWake(b) \/ BackgroundSleep(b)
  PROVE  IInv'
<1>1. /\ \/ /\ pc[b] = "event" /\ pc' = [pc EXCEPT ![b] = "running"] /\ pause_lock[b] = "none"
            /\ pause_lock' = [pause_lock EXCEPT ![b] = b]
         \/ /\ pc[b] = "running" /\ pc' = [pc EXCEPT ![b] = "event"]
            /\ pause_lock' = [pause_lock EXCEPT ![b] = "none"]
      /\ UNCHANGED <<tableVars, hash_items, growVars, item_lock, init_count, pipe, pauses, maintVars, callVars>>
  BY DEF BackgroundWake, BackgroundSleep
<1>2. b \in Threads /\ b \notin Workers /\ b \in BackgroundThreads /\ b # "assoc"
  BY ThreadFacts, ThreadsAssumption DEF Threads
<1>3. /\ hash_items' \in Int /\ ItemsCounted' /\ Growing' /\ Placed' /\ Locking' /\ Calls'
      /\ pc' \in [Threads -> Steps] /\ \A u \in Threads \ {b} : pc'[u] = pc[u]
  <2>1. CASE pc' = [pc EXCEPT ![b] = "running"]
    BY <1>1, <1>2, <2>1, Outside
  <2>2. CASE pc' = [pc EXCEPT ![b] = "event"]
    BY <1>1, <1>2, <2>2, Outside
  <2> QED
    BY <1>1, <2>1, <2>2
<1>4. /\ pause_lock \in [BackgroundThreads \cup {"workers"} -> Background \cup {"none", "assoc"}]
      /\ pc \in [Threads -> Steps]
  BY DEF IInv, FieldsOK, Steps
<1>5. pause_lock[b] # "assoc"
  BY <1>1, <1>2 DEF IInv, Pausing
<1>6. pause_lock' \in [BackgroundThreads \cup {"workers"} -> Background \cup {"none", "assoc"}]
      /\ \A p \in BackgroundThreads \cup {"workers"} : p # b => pause_lock'[p] = pause_lock[p]
  BY <1>1, <1>2, <1>4
<1>7. Pausing'
  <2>1. \A i \in 1..4 : PauseOrder[i] \in BackgroundThreads \cup {"workers"}
    BY DEF PauseOrder, BackgroundThreads
  <2>2. \A i \in 1..4 : pause_lock[PauseOrder[i]] = "assoc" => pause_lock'[PauseOrder[i]] = "assoc"
    BY <1>5, <1>6, <2>1
  <2>3. \A c \in Background : pc'[c] # "event" => pause_lock'[c] = c
    <3>1. SUFFICES ASSUME NEW c \in Background, pc'[c] # "event" PROVE pause_lock'[c] = c
      OBVIOUS
    <3>2. c \in Threads /\ c \in BackgroundThreads
      BY ThreadsAssumption DEF Threads
    <3>3. CASE c = b
      BY <1>1, <1>2, <1>4, <3>1, <3>3
    <3>4. CASE c # b
      BY <1>3, <1>6, <3>1, <3>2, <3>4 DEF IInv, Pausing
    <3> QED
      BY <3>3, <3>4
  <2>4. UNCHANGED <<mpc, mstep>>
    BY <1>1 DEF maintVars
  <2> QED
    BY <2>2, <2>3, <2>4 DEF IInv, Pausing
<1>8. Registering'
  <2>1. \A w \in Workers : pc'[w] = pc[w]
    BY <1>2, <1>3 DEF Threads
  <2> QED
    BY <1>1, <2>1 DEF IInv, Registering, maintVars
<1>9. FieldsOK'
  BY <1>1, <1>3, <1>6 DEF IInv, FieldsOK, Steps, tableVars, growVars, maintVars, callVars
<1> QED
  BY <1>3, <1>7, <1>8, <1>9 DEF IInv

-----------------------------------------------------------------------------
(***************************************************************************)
(* Requests begin with the lock of their key and end with it.              *)
(***************************************************************************)
LEMMA Begins ==
  ASSUME IInv, NEW t \in Threads, NEW k \in Keys, NEW c \in {"get", "set", "evict", "move"},
         NEW f \in {"find", "delete"}, f = "delete" => k \in Linked,
         pc[t] \in {"event", "running"}, t \in Background => pc[t] # "event",
         LockItem(t, k), Call(t, f), cmd' = [cmd EXCEPT ![t] = c],
         UNCHANGED <<tableVars, hash_items, growVars, pauseVars, maintVars, answer, saw, where>>
  PROVE  IInv'
<1>1. FieldsOK
  BY DEF IInv
<1> DEFINE l == LockOf(hash[k])
<1>2. l \in Buckets(ItemLockHashpower)
  BY LockOfKey
<1>3. /\ item_lock[l] = "none" /\ item_lock' = [item_lock EXCEPT ![l] = t]
      /\ key' = [key EXCEPT ![t] = k]
      /\ fn' = [fn EXCEPT ![t] = f] /\ pc' = [pc EXCEPT ![t] = "read"]
  BY DEF LockItem, Call
<1> HIDE DEF l
<1>4. /\ item_lock \in [Buckets(ItemLockHashpower) -> Threads \cup {"none", "assoc"}]
      /\ pc \in [Threads -> Steps] /\ fn \in [Threads -> {"none", "find", "insert", "delete"}]
      /\ key \in [Threads -> Keys \cup {NoKey}] /\ cmd \in [Threads -> {"none", "get", "set", "evict", "move"}]
  BY <1>1 DEF FieldsOK, Steps
<1>5. /\ item_lock' \in [Buckets(ItemLockHashpower) -> Threads \cup {"none", "assoc"}]
      /\ pc' \in [Threads -> Steps] /\ fn' \in [Threads -> {"none", "find", "insert", "delete"}]
      /\ key' \in [Threads -> Keys \cup {NoKey}] /\ cmd' \in [Threads -> {"none", "get", "set", "evict", "move"}]
  BY <1>3, <1>4 DEF Steps
<1>6. FieldsOK'
  BY <1>1, <1>5 DEF FieldsOK, Steps, tableVars, growVars, pauseVars, maintVars
<1>7. /\ pc'[t] = "read" /\ fn'[t] = f /\ key'[t] = k /\ item_lock'[l] = t
      /\ \A u \in Threads \ {t} : pc'[u] = pc[u] /\ fn'[u] = fn[u] /\ key'[u] = key[u]
      /\ \A m \in Buckets(ItemLockHashpower) : m # l => item_lock'[m] = item_lock[m]
  BY <1>2, <1>3, <1>4 DEF Steps
<1>8. Growing' /\ Placed' /\ Linked' = Linked
  <2>1. item_lock[LockOf(expand_bucket)] = "assoc" => item_lock'[LockOf(expand_bucket)] = "assoc"
    <3>1. LockOf(expand_bucket) \in Buckets(ItemLockHashpower)
      BY <1>1, LockOfHash DEF FieldsOK
    <3> QED
      BY <1>3, <1>7, <3>1
  <2> QED
    BY <2>1, TableKept DEF IInv, Growing, maintVars
<1>9. Calls'
  <2>1. Finds(t)'
    BY <1>7, <1>8 DEF Finds
  <2> QED
    BY <1>7, <1>8, <2>1, OthersKept DEF tableVars
<1>10. Locking'
  <2>1. /\ \A u \in Threads : IF Working(u) THEN key[u] \in Keys /\ item_lock[LockOf(hash[key[u]])] = u
                                            ELSE key[u] = NoKey
        /\ \A m \in Buckets(ItemLockHashpower) :
             /\ item_lock[m] \in Threads => Working(item_lock[m]) /\ LockOf(hash[key[item_lock[m]]]) = m
             /\ item_lock[m] = "assoc" => mpc = "migrate" /\ m = LockOf(expand_bucket)
    BY DEF IInv, Locking
  <2>2. Working(t)' /\ ~Working(t) /\ \A u \in Threads \ {t} : Working(u)' = Working(u)
    BY <1>7 DEF Working
  <2>3. ASSUME NEW u \in Threads
        PROVE  IF Working(u)' THEN key'[u] \in Keys /\ item_lock'[LockOf(hash[key'[u]])] = u
                              ELSE key'[u] = NoKey
    <3>1. CASE u = t
      BY <1>7, <2>2, <3>1 DEF l
    <3>2. CASE u # t
      <4>1. Working(u) => LockOf(hash[key[u]]) \in Buckets(ItemLockHashpower) /\ LockOf(hash[key[u]]) # l
        BY <1>3, <2>1, LockOfKey, ThreadFacts
      <4> QED
        BY <1>7, <2>1, <2>2, <3>2, <4>1
    <3> QED
      BY <3>1, <3>2
  <2>4. ASSUME NEW m \in Buckets(ItemLockHashpower)
        PROVE  /\ item_lock'[m] \in Threads => Working(item_lock[m])' /\ LockOf(hash[key'[item_lock'[m]]]) = m
               /\ item_lock'[m] = "assoc" => mpc' = "migrate" /\ m = LockOf(expand_bucket')
    <3>1. CASE m = l
      BY <1>7, <2>2, <3>1, ThreadFacts DEF l, Working
    <3>2. CASE m # l
      <4>1. item_lock'[m] = item_lock[m] /\ mpc' = mpc /\ expand_bucket' = expand_bucket
        BY <1>7, <3>2 DEF maintVars, tableVars
      <4>2. item_lock[m] \in Threads => item_lock[m] # t
        BY <2>1, <2>2
      <4> QED
        BY <1>7, <2>1, <2>2, <4>1, <4>2 DEF Working
    <3> QED
      BY <3>1, <3>2
  <2> QED
    BY <2>3, <2>4 DEF Locking
<1>11. Pausing' /\ Registering'
  BY <1>7, PausesKept
<1>12. hash_items' \in Int /\ ItemsCounted'
  BY <1>7, <1>8, CountKept
<1> QED
  BY <1>6, <1>8, <1>9, <1>10, <1>11, <1>12 DEF IInv

LEMMA InvRequest ==
  ASSUME IInv, NEW w \in Workers, NEW k \in Requested, NEW c \in {"get", "set"}, Request(w, k, c)
  PROVE  IInv'
<1>1. w \in Threads /\ w \notin Background /\ k \in Keys
  BY ThreadFacts, KeysAssumption DEF Threads
<1> QED
  BY <1>1, Begins DEF Request

LEMMA InvUnlink ==
  ASSUME IInv, NEW t \in Threads, NEW k \in Requested, NEW c \in {"evict", "move"}, Unlink(t, k, c)
  PROVE  IInv'
<1>1. k \in Keys /\ (t \in Background => t \notin Workers)
  BY ThreadFacts, KeysAssumption DEF Threads
<1> QED
  BY <1>1, Begins DEF Unlink

LEMMA InvUnlockItem ==
  ASSUME IInv, NEW t \in Threads, UnlockItem(t)
  PROVE  IInv'
<1>1. FieldsOK
  BY DEF IInv
<1> DEFINE l == LockOf(hash[key[t]])
           p == IF t \in Workers THEN "event" ELSE "running"
<1>2. /\ pc[t] = "unlock" /\ item_lock' = [item_lock EXCEPT ![l] = "none"]
      /\ pc' = [pc EXCEPT ![t] = p] /\ p \in {"event", "running"}
      /\ cmd' = [cmd EXCEPT ![t] = "none"] /\ fn' = [fn EXCEPT ![t] = "none"]
      /\ key' = [key EXCEPT ![t] = NoKey] /\ answer' = [answer EXCEPT ![t] = "none"]
      /\ saw' = [saw EXCEPT ![t] = FALSE] /\ where' = [where EXCEPT ![t] = "primary"]
      /\ UNCHANGED <<tableVars, hash_items, growVars, pauseVars, maintVars>>
  BY DEF UnlockItem
<1> HIDE DEF l, p
<1>3. /\ item_lock \in [Buckets(ItemLockHashpower) -> Threads \cup {"none", "assoc"}]
      /\ pc \in [Threads -> Steps] /\ fn \in [Threads -> {"none", "find", "insert", "delete"}]
      /\ key \in [Threads -> Keys \cup {NoKey}] /\ cmd \in [Threads -> {"none", "get", "set", "evict", "move"}]
      /\ answer \in [Threads -> {"none", "hit", "miss"}]
      /\ saw \in [Threads -> BOOLEAN] /\ where \in [Threads -> {"old", "primary"}]
  BY <1>1 DEF FieldsOK, Steps
<1>4. /\ item_lock' \in [Buckets(ItemLockHashpower) -> Threads \cup {"none", "assoc"}]
      /\ pc' \in [Threads -> Steps] /\ fn' \in [Threads -> {"none", "find", "insert", "delete"}]
      /\ key' \in [Threads -> Keys \cup {NoKey}] /\ cmd' \in [Threads -> {"none", "get", "set", "evict", "move"}]
  BY <1>2, <1>3 DEF Steps
<1>5. /\ answer' \in [Threads -> {"none", "hit", "miss"}]
      /\ saw' \in [Threads -> BOOLEAN] /\ where' \in [Threads -> {"old", "primary"}]
  BY <1>2, <1>3
<1>6. FieldsOK'
  BY <1>1, <1>2, <1>4, <1>5 DEF FieldsOK, Steps, tableVars, growVars, pauseVars, maintVars
<1>7. /\ pc'[t] = p /\ key'[t] = NoKey
      /\ \A u \in Threads \ {t} : /\ pc'[u] = pc[u] /\ fn'[u] = fn[u] /\ key'[u] = key[u]
                                  /\ saw'[u] = saw[u] /\ where'[u] = where[u]
  BY <1>2, <1>3 DEF Steps
<1>8. /\ key[t] \in Keys /\ l \in Buckets(ItemLockHashpower) /\ item_lock[l] = t
      /\ Working(t)
  BY <1>2, LockOfKey DEF IInv, Locking, Working, l
<1>9. /\ item_lock'[l] = "none"
      /\ \A m \in Buckets(ItemLockHashpower) : m # l => item_lock'[m] = item_lock[m]
  BY <1>2, <1>3, <1>8
<1>10. Growing' /\ Placed' /\ Linked' = Linked
  <2>1. item_lock[LockOf(expand_bucket)] = "assoc" => item_lock'[LockOf(expand_bucket)] = "assoc"
    <3>1. LockOf(expand_bucket) \in Buckets(ItemLockHashpower)
      BY <1>1, LockOfHash DEF FieldsOK
    <3> QED
      BY <1>8, <1>9, <3>1, ThreadFacts
  <2> QED
    BY <1>2, <2>1, TableKept DEF IInv, Growing, maintVars
<1>11. Calls'
  <2>1. Finds(t)'
    BY <1>2, <1>7 DEF Finds
  <2> QED
    BY <1>2, <1>7, <1>10, <2>1, OthersKept DEF tableVars
<1>12. Locking'
  <2>1. /\ \A u \in Threads : IF Working(u) THEN key[u] \in Keys /\ item_lock[LockOf(hash[key[u]])] = u
                                            ELSE key[u] = NoKey
        /\ \A m \in Buckets(ItemLockHashpower) :
             /\ item_lock[m] \in Threads => Working(item_lock[m]) /\ LockOf(hash[key[item_lock[m]]]) = m
             /\ item_lock[m] = "assoc" => mpc = "migrate" /\ m = LockOf(expand_bucket)
    BY DEF IInv, Locking
  <2>2. ~Working(t)' /\ \A u \in Threads \ {t} : Working(u)' = Working(u)
    BY <1>2, <1>7 DEF Working
  <2>3. ASSUME NEW u \in Threads
        PROVE  IF Working(u)' THEN key'[u] \in Keys /\ item_lock'[LockOf(hash[key'[u]])] = u
                              ELSE key'[u] = NoKey
    <3>1. CASE u = t
      BY <1>7, <2>2, <3>1
    <3>2. CASE u # t
      <4>1. Working(u) => LockOf(hash[key[u]]) \in Buckets(ItemLockHashpower) /\ LockOf(hash[key[u]]) # l
        BY <1>8, <2>1, <3>2, LockOfKey
      <4> QED
        BY <1>7, <1>9, <2>1, <2>2, <3>2, <4>1
    <3> QED
      BY <3>1, <3>2
  <2>4. ASSUME NEW m \in Buckets(ItemLockHashpower)
        PROVE  /\ item_lock'[m] \in Threads => Working(item_lock[m])' /\ LockOf(hash[key'[item_lock'[m]]]) = m
               /\ item_lock'[m] = "assoc" => mpc' = "migrate" /\ m = LockOf(expand_bucket')
    <3>1. CASE m = l
      BY <1>9, <3>1, ThreadFacts
    <3>2. CASE m # l
      <4>1. item_lock'[m] = item_lock[m] /\ mpc' = mpc /\ expand_bucket' = expand_bucket
        BY <1>2, <1>9, <3>2 DEF maintVars, tableVars
      <4>2. item_lock[m] \in Threads => item_lock[m] # t
        BY <2>1, <3>2 DEF l
      <4> QED
        BY <1>7, <2>1, <2>2, <4>1, <4>2 DEF Working
    <3> QED
      BY <3>1, <3>2
  <2> QED
    BY <2>3, <2>4 DEF Locking
<1>13. Pausing' /\ Registering'
  BY <1>2, <1>7, PausesKept
<1>14. hash_items' \in Int /\ ItemsCounted'
  BY <1>2, <1>7, <1>10, CountKept
<1> QED
  BY <1>6, <1>10, <1>11, <1>12, <1>13, <1>14 DEF IInv

-----------------------------------------------------------------------------
(***************************************************************************)
(* Items that are linked and unlinked.                                     *)
(***************************************************************************)
\* The bucket a thread has chosen is given another set of keys, which differs in its key only.
LEMMA Changes ==
  ASSUME IInv, NEW t \in Threads, pc[t] = "act", NEW bucket \in SUBSET Keys, SetChosen(t, bucket),
         \A k \in Keys \ {key[t]} : k \in bucket <=> k \in Chosen(t),
         pc' \in [Threads -> Steps], fn' \in [Threads -> {"none", "find", "insert", "delete"}],
         UNCHANGED <<growVars, item_lock, pauseVars, maintVars, cmd, key, answer, saw, where>>
  PROVE  /\ FieldsOK' /\ Growing' /\ Placed'
         /\ UNCHANGED <<hashpower, expanding, expand_bucket>>
         /\ Linked' = {k \in Keys : IF k = key[t] THEN k \in bucket ELSE k \in Linked}
<1>1. FieldsOK /\ hashpower \in Nat /\ hashpower - 1 \in Nat
  BY Powers DEF IInv
<1>2. /\ primary_hashtable \in [Buckets(hashpower) -> SUBSET Keys]
      /\ expanding => old_hashtable \in [Buckets(hashpower - 1) -> SUBSET Keys]
      /\ ~expanding => old_hashtable = <<>>
  BY <1>1 DEF FieldsOK
<1>3. /\ key[t] \in Keys
      /\ where[t] = "old" => expanding /\ NotMoved(key[t])
      /\ where[t] # "old" => ~expanding \/ ~NotMoved(key[t])
  BY Looks DEF IInv
<1>4. /\ OldBucket(t) = Bucket(key[t], hashpower - 1) /\ OldBucket(t) \in Buckets(hashpower - 1)
      /\ PrimaryBucket(t) = Bucket(key[t], hashpower) /\ PrimaryBucket(t) \in Buckets(hashpower)
  BY <1>1, <1>3, BucketOfKey DEF OldBucket, PrimaryBucket
<1>5. UNCHANGED <<hashpower, expanding, expand_bucket, mpc>>
  BY DEF SetChosen, maintVars
<1>6. /\ primary_hashtable' \in [Buckets(hashpower) -> SUBSET Keys]
      /\ expanding => old_hashtable' \in [Buckets(hashpower - 1) -> SUBSET Keys]
      /\ ~expanding => old_hashtable' = <<>>
      /\ \A k \in Keys : k # key[t] => (InPrimary(k)' <=> InPrimary(k)) /\ (InOld(k)' <=> InOld(k))
      /\ InPrimary(key[t])' \/ InOld(key[t])' <=> key[t] \in bucket
      /\ InOld(key[t])' => NotMoved(key[t]) /\ ~InPrimary(key[t])'
      /\ InPrimary(key[t])' => ~expanding \/ ~NotMoved(key[t])
      /\ \A b \in Buckets(hashpower) : \A k \in primary_hashtable'[b] : b = Bucket(k, hashpower)
      /\ expanding => \A b \in Buckets(hashpower - 1) : \A k \in old_hashtable'[b] : b = Bucket(k, hashpower - 1)
  <2>1. CASE where[t] = "old"
    <3>1. /\ primary_hashtable' = primary_hashtable
          /\ old_hashtable' \in [Buckets(hashpower - 1) -> SUBSET Keys]
          /\ old_hashtable'[OldBucket(t)] = bucket
          /\ \A b \in Buckets(hashpower - 1) : b # OldBucket(t) => old_hashtable'[b] = old_hashtable[b]
      BY <1>2, <1>3, <1>4, <2>1 DEF SetChosen
    <3>2. Chosen(t) = old_hashtable[OldBucket(t)]
      BY <2>1 DEF Chosen
    <3>3. /\ primary_hashtable' \in [Buckets(hashpower) -> SUBSET Keys]
          /\ expanding => old_hashtable' \in [Buckets(hashpower - 1) -> SUBSET Keys]
          /\ ~expanding => old_hashtable' = <<>>
      BY <1>2, <1>3, <2>1, <3>1
    <3>4. \A k \in Keys : /\ InPrimary(k)' = InPrimary(k) /\ NotMoved(k)' = NotMoved(k)
                          /\ k # key[t] => (InOld(k)' <=> InOld(k))
      <4>1. SUFFICES ASSUME NEW k \in Keys
                     PROVE  /\ InPrimary(k)' = InPrimary(k) /\ NotMoved(k)' = NotMoved(k)
                            /\ k # key[t] => (InOld(k)' <=> InOld(k))
        OBVIOUS
      <4>2. InPrimary(k)' = InPrimary(k) /\ NotMoved(k)' = NotMoved(k)
        BY <1>5, <3>1 DEF InPrimary, NotMoved
      <4>3. Bucket(k, hashpower - 1) \in Buckets(hashpower - 1)
        BY <1>1, BucketOfKey
      <4>4. k # key[t] => (k \in old_hashtable'[Bucket(k, hashpower - 1)]
                             <=> k \in old_hashtable[Bucket(k, hashpower - 1)])
        BY <3>1, <3>2, <4>3
      <4> QED
        BY <1>5, <4>2, <4>4 DEF InOld
    <3>5. /\ InOld(key[t])' <=> key[t] \in bucket
          /\ ~InPrimary(key[t])
      <4>1. InOld(key[t])' <=> key[t] \in bucket
        BY <1>3, <1>4, <1>5, <2>1, <3>1 DEF InOld
      <4>2. SUFFICES ASSUME InPrimary(key[t]) PROVE FALSE
        BY <4>1
      <4>3. mpc = "migrate" /\ Bucket(key[t], hashpower - 1) = expand_bucket
        BY <1>3, <2>1, <4>2 DEF IInv, Placed
      <4>4. LockOf(expand_bucket) = LockOf(hash[key[t]])
        BY <1>3, <4>3, Powers, LockOfBucket DEF IInv
      <4>5. item_lock[LockOf(hash[key[t]])] = "assoc"
        BY <4>3, <4>4 DEF IInv, Growing
      <4> QED
        BY <4>5, ThreadFacts DEF IInv, Locking, Working
    <3>6. /\ \A b \in Buckets(hashpower) : \A k \in primary_hashtable'[b] : b = Bucket(k, hashpower)
          /\ expanding => \A b \in Buckets(hashpower - 1) : \A k \in old_hashtable'[b] : b = Bucket(k, hashpower - 1)
      <4>1. /\ \A b \in Buckets(hashpower) : \A k \in primary_hashtable[b] : b = Bucket(k, hashpower)
            /\ expanding => \A b \in Buckets(hashpower - 1) : \A k \in old_hashtable[b] : b = Bucket(k, hashpower - 1)
        BY DEF IInv, Placed
      <4>2. ASSUME expanding, NEW b \in Buckets(hashpower - 1), NEW k \in old_hashtable'[b]
            PROVE  b = Bucket(k, hashpower - 1)
        <5>1. CASE k = key[t] /\ b = OldBucket(t)
          BY <1>4, <5>1
        <5>2. CASE k # key[t] \/ b # OldBucket(t)
          <6>1. k \in old_hashtable[b]
            BY <3>1, <3>2, <4>2, <5>2
          <6> QED
            BY <4>1, <4>2, <6>1
        <5> QED
          BY <5>1, <5>2
      <4> QED
        BY <3>1, <4>1, <4>2
    <3> QED
      BY <1>3, <1>5, <2>1, <3>3, <3>4, <3>5, <3>6
  <2>2. CASE where[t] # "old"
    <3>1. /\ old_hashtable' = old_hashtable
          /\ primary_hashtable' \in [Buckets(hashpower) -> SUBSET Keys]
          /\ primary_hashtable'[PrimaryBucket(t)] = bucket
          /\ \A b \in Buckets(hashpower) : b # PrimaryBucket(t) => primary_hashtable'[b] = primary_hashtable[b]
      BY <1>2, <1>4, <2>2 DEF SetChosen
    <3>2. Chosen(t) = primary_hashtable[PrimaryBucket(t)]
      BY <2>2 DEF Chosen
    <3>3. ASSUME NEW k \in Keys, k # key[t]
          PROVE  (InPrimary(k)' <=> InPrimary(k)) /\ (InOld(k)' <=> InOld(k))
      <4>1. Bucket(k, hashpower) \in Buckets(hashpower)
        BY <1>1, BucketOfKey
      <4>2. k \in primary_hashtable'[Bucket(k, hashpower)] <=> k \in primary_hashtable[Bucket(k, hashpower)]
        BY <3>1, <3>2, <3>3, <4>1
      <4> QED
        BY <1>5, <3>1, <4>2 DEF InPrimary, InOld
    <3>4. /\ InPrimary(key[t])' <=> key[t] \in bucket
          /\ ~InOld(key[t])'
      <4>1. ~InOld(key[t])
        BY <1>3, <2>2 DEF IInv, Placed, InOld
      <4> QED
        BY <1>4, <1>5, <3>1, <4>1 DEF InPrimary, InOld
    <3>5. /\ \A b \in Buckets(hashpower) : \A k \in primary_hashtable[b] : b = Bucket(k, hashpower)
          /\ expanding => \A b \in Buckets(hashpower - 1) : \A k \in old_hashtable[b] : b = Bucket(k, hashpower - 1)
      BY DEF IInv, Placed
    <3>6. ASSUME NEW b \in Buckets(hashpower), NEW k \in primary_hashtable'[b]
          PROVE  b = Bucket(k, hashpower)
      <4>1. CASE k = key[t] /\ b = PrimaryBucket(t)
        BY <1>4, <4>1
      <4>2. CASE k # key[t] \/ b # PrimaryBucket(t)
        <5>1. k \in primary_hashtable[b]
          BY <3>1, <3>2, <3>6, <4>2
        <5> QED
          BY <3>5, <5>1
      <4> QED
        BY <4>1, <4>2
    <3> QED
      BY <1>2, <1>3, <2>2, <3>1, <3>3, <3>4, <3>5, <3>6
  <2> QED
    BY <2>1, <2>2
<1>7. FieldsOK'
  BY <1>1, <1>5, <1>6 DEF FieldsOK, Steps, growVars, pauseVars, maintVars
<1>8. Growing'
  BY <1>5 DEF IInv, Growing
<1>9. \A k \in Keys : NotMoved(k)' = NotMoved(k)
  BY <1>5 DEF NotMoved
<1>10. Placed'
  <2>1. \A k \in Keys : InOld(k)' => NotMoved(k) /\ ~InPrimary(k)'
    BY <1>6 DEF IInv, Placed
  <2>2. \A k \in Keys : InPrimary(k)' /\ expanding =>
          ~NotMoved(k) \/ (mpc = "migrate" /\ Bucket(k, hashpower - 1) = expand_bucket)
    BY <1>6 DEF IInv, Placed
  <2> QED
    BY <1>5, <1>6, <1>9, <2>1, <2>2 DEF Placed
<1>11. Linked' = {k \in Keys : InPrimary(k)' \/ InOld(k)'}
  BY <1>7, <1>8, <1>10, LinkedKeysAfter
<1>12. Linked = {k \in Keys : InPrimary(k) \/ InOld(k)}
  BY LinkedKeys DEF IInv
<1>13. \A k \in Keys : k \in Linked' <=> IF k = key[t] THEN k \in bucket ELSE k \in Linked
  BY <1>6, <1>11, <1>12
<1>14. Linked' \subseteq Keys
  BY <1>11
<1> QED
  BY <1>5, <1>7, <1>8, <1>10, <1>13, <1>14

LEMMA Invassoc_insert ==
  ASSUME IInv, NEW t \in Threads, assoc_insert(t)
  PROVE  IInv' /\ key[t] \in Keys /\ key[t] \notin Linked /\ Linked' = Linked \cup {key[t]}
<1>1. pc \in [Threads -> Steps] /\ fn \in [Threads -> {"none", "find", "insert", "delete"}]
  BY DEF IInv, FieldsOK, Steps
<1> DEFINE bucket == Chosen(t) \cup {key[t]}
<1>2. /\ pc[t] = "act" /\ fn[t] = "insert" /\ SetChosen(t, bucket)
      /\ pc' = [pc EXCEPT ![t] = "count"]
      /\ UNCHANGED <<hash_items, growVars, item_lock, pauseVars, maintVars, cmd, fn, key, answer, saw, where>>
  BY DEF assoc_insert, callVars
<1>3. key[t] \in Keys /\ Working(t)
  BY <1>2, Looks DEF IInv, Working
<1>4. Chosen(t) \in SUBSET Keys
  <2>1. hashpower \in Nat /\ hashpower - 1 \in Nat
    BY Powers DEF IInv
  <2>2. Bucket(key[t], hashpower) \in Buckets(hashpower) /\ Bucket(key[t], hashpower - 1) \in Buckets(hashpower - 1)
    BY <1>3, <2>1, BucketOfKey
  <2>3. where[t] = "old" => expanding
    BY <1>2, Looks DEF IInv
  <2> QED
    BY <2>2, <2>3 DEF IInv, FieldsOK, Chosen, OldBucket, PrimaryBucket
<1>5. /\ bucket \in SUBSET Keys /\ key[t] \in bucket
      /\ \A k \in Keys \ {key[t]} : k \in bucket <=> k \in Chosen(t)
  BY <1>3, <1>4
<1>6. pc' \in [Threads -> Steps] /\ pc'[t] = "count" /\ \A u \in Threads \ {t} : pc'[u] = pc[u]
  BY <1>1, <1>2 DEF Steps
<1> HIDE DEF bucket
<1>7. /\ FieldsOK' /\ Growing' /\ Placed' /\ UNCHANGED <<hashpower, expanding, expand_bucket>>
      /\ Linked' = {k \in Keys : IF k = key[t] THEN k \in bucket ELSE k \in Linked}
  BY <1>1, <1>2, <1>5, <1>6, Changes
<1>8. Linked' = Linked \cup {key[t]} /\ key[t] \notin Linked
  <2>1. Linked \subseteq Keys
    BY LinkedKeys DEF IInv
  <2>2. key[t] \notin Linked
    BY <1>2 DEF IInv, Calls, Finds
  <2> QED
    BY <1>3, <1>5, <1>7, <2>1, <2>2
<1>9. Locking'
  BY <1>2, <1>3, <1>6, <1>7 DEF IInv, Locking, Working, maintVars
<1>10. Calls'
  <2>1. Finds(t)'
    BY <1>2, <1>6, <1>8 DEF Finds
  <2>2. \A u \in Threads \ {t} : Working(u) => (key[u] \in Linked' <=> key[u] \in Linked)
    BY <1>3, <1>8, KeysApart DEF IInv
  <2> QED
    BY <1>2, <1>6, <1>7, <2>1, <2>2, OthersKept
<1>11. Pausing' /\ Registering'
  BY <1>2, <1>6, PausesKept
<1>12. ItemsCounted'
  <2> DEFINE S == {u \in Threads : pc[u] = "count"}
             T == {u \in Threads : pc'[u] = "count"}
  <2>1. T = S \cup {t} /\ t \notin S /\ t \in T
    BY <1>2, <1>6
  <2>2. IsFiniteSet(S) /\ IsFiniteSet(Linked)
    <3>1. Linked \subseteq Keys
      BY LinkedKeys DEF IInv
    <3> QED
      BY <3>1, ThreadFacts, KeysAssumption, FS_Subset
  <2> HIDE DEF S, T
  <2>3. Cardinality(T) = Cardinality(S) + 1 /\ Cardinality(S) \in Nat
    BY <2>1, <2>2, OneMore
  <2>4. Cardinality(Linked') = Cardinality(Linked) + 1 /\ Cardinality(Linked) \in Nat
    BY <1>8, <2>2, OneMore
  <2>5. hash_items + Cardinality(S) = Cardinality(Linked) /\ hash_items \in Int
    BY DEF IInv, ItemsCounted, S
  <2>6. hash_items' = hash_items
    BY <1>2
  <2>7. hash_items' + Cardinality(T) = Cardinality(Linked')
    BY <2>3, <2>4, <2>5, <2>6
  <2> QED
    BY <2>7 DEF ItemsCounted, T
<1> QED
  BY <1>2, <1>3, <1>7, <1>8, <1>9, <1>10, <1>11, <1>12 DEF IInv

LEMMA Invassoc_delete ==
  ASSUME IInv, NEW t \in Threads, assoc_delete(t)
  PROVE  IInv' /\ key[t] \in Keys /\ key[t] \in Linked /\ Linked' = Linked \ {key[t]}
<1>1. pc \in [Threads -> Steps] /\ fn \in [Threads -> {"none", "find", "insert", "delete"}]
  BY DEF IInv, FieldsOK, Steps
<1> DEFINE bucket == Chosen(t) \ {key[t]}
<1>2. /\ pc[t] = "act" /\ fn[t] = "delete" /\ SetChosen(t, bucket) /\ key[t] \in Chosen(t)
      /\ hash_items' = hash_items - 1
      /\ \/ fn' = [fn EXCEPT ![t] = "insert"] /\ pc' = [pc EXCEPT ![t] = "read"]
         \/ fn' = fn /\ pc' = [pc EXCEPT ![t] = "unlock"]
      /\ UNCHANGED <<growVars, item_lock, pauseVars, maintVars, cmd, key, answer, saw, where>>
  BY DEF assoc_delete, AfterDelete, Call
<1>3. key[t] \in Keys /\ Working(t)
  BY <1>2, Looks DEF IInv, Working
<1>4. Chosen(t) \in SUBSET Keys
  <2>1. hashpower \in Nat /\ hashpower - 1 \in Nat
    BY Powers DEF IInv
  <2>2. Bucket(key[t], hashpower) \in Buckets(hashpower) /\ Bucket(key[t], hashpower - 1) \in Buckets(hashpower - 1)
    BY <1>3, <2>1, BucketOfKey
  <2>3. where[t] = "old" => expanding
    BY <1>2, Looks DEF IInv
  <2> QED
    BY <2>2, <2>3 DEF IInv, FieldsOK, Chosen, OldBucket, PrimaryBucket
<1>5. /\ bucket \in SUBSET Keys /\ key[t] \notin bucket
      /\ \A k \in Keys \ {key[t]} : k \in bucket <=> k \in Chosen(t)
  BY <1>3, <1>4
<1>6. /\ pc' \in [Threads -> Steps] /\ fn' \in [Threads -> {"none", "find", "insert", "delete"}]
      /\ pc'[t] = "unlock" \/ (pc'[t] = "read" /\ fn'[t] = "insert")
      /\ \A u \in Threads \ {t} : pc'[u] = pc[u] /\ fn'[u] = fn[u]
  BY <1>1, <1>2 DEF Steps
<1> HIDE DEF bucket
<1>7. /\ FieldsOK' /\ Growing' /\ Placed' /\ UNCHANGED <<hashpower, expanding, expand_bucket>>
      /\ Linked' = {k \in Keys : IF k = key[t] THEN k \in bucket ELSE k \in Linked}
  BY <1>2, <1>5, <1>6, Changes
<1>8. Linked = Linked' \cup {key[t]} /\ key[t] \notin Linked' /\ key[t] \in Linked
  <2>1. Linked \subseteq Keys
    BY LinkedKeys DEF IInv
  <2>2. key[t] \in Linked
    BY <1>2 DEF IInv, Calls, Finds
  <2> QED
    BY <1>3, <1>5, <1>7, <2>1, <2>2
<1>9. Locking'
  BY <1>2, <1>3, <1>6, <1>7 DEF IInv, Locking, Working, maintVars
<1>10. Calls'
  <2>1. Finds(t)'
    BY <1>2, <1>6, <1>8 DEF Finds
  <2>2. \A u \in Threads \ {t} : Working(u) => (key[u] \in Linked' <=> key[u] \in Linked)
    BY <1>3, <1>8, KeysApart DEF IInv
  <2> QED
    BY <1>2, <1>6, <1>7, <2>1, <2>2, OthersKept
<1>11. Pausing' /\ Registering'
  BY <1>2, <1>6, PausesKept
<1>12. hash_items' \in Int /\ ItemsCounted'
  <2> DEFINE S == {u \in Threads : pc[u] = "count"}
             T == {u \in Threads : pc'[u] = "count"}
  <2>1. T = S
    BY <1>2, <1>6
  <2>2. IsFiniteSet(S) /\ IsFiniteSet(Linked')
    <3>1. Linked' \subseteq Keys
      BY <1>7
    <3> QED
      BY <3>1, ThreadFacts, KeysAssumption, FS_Subset
  <2> HIDE DEF S, T
  <2>3. Cardinality(S) \in Nat
    BY <2>2, FS_CardinalityType
  <2>4. Cardinality(Linked) = Cardinality(Linked') + 1 /\ Cardinality(Linked') \in Nat
    BY <1>8, <2>2, OneMore
  <2>5. hash_items + Cardinality(S) = Cardinality(Linked) /\ hash_items \in Int
    BY DEF IInv, ItemsCounted, S
  <2>6. hash_items' = hash_items - 1
    BY <1>2
  <2>7. hash_items' + Cardinality(T) = Cardinality(Linked') /\ hash_items' \in Int
    BY <2>1, <2>3, <2>4, <2>5, <2>6
  <2> QED
    BY <2>7 DEF ItemsCounted, T
<1> QED
  BY <1>3, <1>7, <1>8, <1>9, <1>10, <1>11, <1>12 DEF IInv

-----------------------------------------------------------------------------
(***************************************************************************)
(* The maintenance thread.                                                 *)
(***************************************************************************)
\* A step of the maintenance thread that leaves tables and locks of items alone.
LEMMA Administers ==
  ASSUME IInv, UNCHANGED <<tableVars, hash_items, item_lock, pc, callVars>>,
         mpc' = "migrate" <=> mpc = "migrate",
         mpc' \in {"reset", "waiting", "pausing", "notify", "registering", "expand"} => ~expanding
  PROVE  hash_items' \in Int /\ ItemsCounted' /\ Growing' /\ Placed' /\ Locking' /\ Calls'
<1>1. Growing' /\ Placed' /\ Linked' = Linked
  BY TableKept DEF callVars
<1>2. Locking'
  <2>1. UNCHANGED <<item_lock, pc, key, expand_bucket>> /\ (mpc' = "migrate" <=> mpc = "migrate")
    BY DEF callVars, tableVars
  <2> QED
    BY <2>1 DEF IInv, Locking, Working
<1>3. Calls'
  <2>1. ASSUME NEW t \in Threads PROVE Finds(t)'
    <3>1. Finds(t) /\ UNCHANGED <<pc, fn, key, saw, where, expanding>> /\ NotMoved(key[t])' = NotMoved(key[t])
      BY DEF IInv, Calls, callVars, tableVars, NotMoved
    <3> QED
      BY <1>1, <3>1 DEF Finds
  <2> QED
    BY <2>1 DEF Calls
<1>4. hash_items' \in Int /\ ItemsCounted'
  BY <1>1, CountKept
<1> QED
  BY <1>1, <1>2, <1>3, <1>4

\* What pauses others is not touched, nor does the maintenance thread come to or leave a step at
\* which it has locks of theirs.
LEMMA PauseUntouched ==
  ASSUME IInv, UNCHANGED <<pause_lock, init_count, pipe, pc>>,
         mpc' \in {"loop", "migrate", "reset", "waiting"} \/ (mpc' = "pausing" /\ mstep' = 1)
           \/ UNCHANGED maintVars,
         mpc # "registering" \/ UNCHANGED maintVars
  PROVE  Pausing' /\ Registering'
<1>1. CASE UNCHANGED maintVars
  BY <1>1 DEF IInv, Pausing, Registering, maintVars
<1>2. CASE ~UNCHANGED maintVars
  <2>1. Pausing'
    BY <1>2 DEF IInv, Pausing
  <2>2. Registering'
    BY <1>2 DEF IInv, Registering
  <2> QED
    BY <2>1, <2>2
<1> QED
  BY <1>1, <1>2

LEMMA InvReset ==
  ASSUME IInv, MaintenanceReset \/ MaintenanceWait \/ SpuriousWakeup
  PROVE  IInv'
<1>1. /\ UNCHANGED <<tableVars, hash_items, item_lock, pauseVars, pc, callVars, mstep>>
      /\ {started_expanding', waiting'} \subseteq BOOLEAN
      /\ \/ mpc' \in {"reset", "waiting"} /\ mpc \in {"loop", "reset"} /\ ~expanding
         \/ mpc' = mpc
  BY DEF MaintenanceReset, MaintenanceWait, SpuriousWakeup, maintVars, IInv, FieldsOK, Growing
<1>2. FieldsOK'
  BY <1>1 DEF IInv, FieldsOK, tableVars, pauseVars, callVars
<1>3. hash_items' \in Int /\ ItemsCounted' /\ Growing' /\ Placed' /\ Locking' /\ Calls'
  BY <1>1, Administers DEF IInv, Growing
<1>4. Pausing' /\ Registering'
  BY <1>1, PauseUntouched DEF pauseVars, maintVars
<1> QED
  BY <1>2, <1>3, <1>4 DEF IInv

LEMMA InvMaintenanceWake ==
  ASSUME IInv, MaintenanceWake
  PROVE  IInv'
<1>1. /\ UNCHANGED <<tableVars, hash_items, growVars, item_lock, pause_lock, init_count, pipe, pc, callVars>>
      /\ pauses' = pauses + 1 /\ mpc = "waiting" /\ mpc' = "pausing" /\ mstep' = 1
  BY DEF MaintenanceWake
<1>2. FieldsOK'
  BY <1>1 DEF IInv, FieldsOK, tableVars, growVars, callVars
<1>3. hash_items' \in Int /\ ItemsCounted' /\ Growing' /\ Placed' /\ Locking' /\ Calls'
  BY <1>1, Administers DEF IInv, Growing
<1>4. Pausing' /\ Registering'
  BY <1>1, PauseUntouched
<1> QED
  BY <1>2, <1>3, <1>4 DEF IInv

LEMMA PauseOrderFacts ==
  /\ \A i \in 1..4 : PauseOrder[i] \in BackgroundThreads \cup {"workers"}
  /\ \A i, j \in 1..4 : PauseOrder[i] = PauseOrder[j] => i = j
  /\ "none" \notin Background /\ "assoc" \notin Background
BY ThreadsAssumption DEF PauseOrder, BackgroundThreads

LEMMA InvPauseLock ==
  ASSUME IInv, PauseLock
  PROVE  IInv'
<1>1. /\ mpc = "pausing" /\ mstep \in 1..4
      /\ pause_lock[PauseOrder[mstep]] = "none"
      /\ pause_lock' = [pause_lock EXCEPT ![PauseOrder[mstep]] = "assoc"]
      /\ \/ mstep' \in 1..4 /\ mstep' = mstep + 1 /\ mpc' = mpc
         \/ mstep = 4 /\ mstep' = 4 /\ mpc' = "notify"
      /\ UNCHANGED <<tableVars, hash_items, growVars, item_lock, init_count, pipe, pauses, pc, callVars>>
  BY DEF PauseLock, IInv, FieldsOK
<1>2. pause_lock \in [BackgroundThreads \cup {"workers"} -> Background \cup {"none", "assoc"}]
  BY DEF IInv, FieldsOK
<1>3. /\ pause_lock' \in [BackgroundThreads \cup {"workers"} -> Background \cup {"none", "assoc"}]
      /\ pause_lock'[PauseOrder[mstep]] = "assoc"
      /\ \A p \in BackgroundThreads \cup {"workers"} : p # PauseOrder[mstep] => pause_lock'[p] = pause_lock[p]
  BY <1>1, <1>2, PauseOrderFacts
<1>4. FieldsOK'
  BY <1>1, <1>3 DEF IInv, FieldsOK, tableVars, growVars, callVars
<1>5. hash_items' \in Int /\ ItemsCounted' /\ Growing' /\ Placed' /\ Locking' /\ Calls'
  BY <1>1, Administers DEF IInv, Growing
<1>6. Pausing'
  <2>1. \A i \in 1..4 : (\/ mpc' = "pausing" /\ i < mstep'
                         \/ mpc' \in {"notify", "registering", "expand"}
                         \/ mpc' = "resuming" /\ i >= mstep') => pause_lock'[PauseOrder[i]] = "assoc"
    <3>1. SUFFICES ASSUME NEW i \in 1..4, i <= mstep
                   PROVE  pause_lock'[PauseOrder[i]] = "assoc"
      BY <1>1
    <3>2. CASE i = mstep
      BY <1>3, <3>2
    <3>3. CASE i # mstep
      <4>1. pause_lock[PauseOrder[i]] = "assoc"
        BY <1>1, <3>1, <3>3 DEF IInv, Pausing
      <4> QED
        BY <1>1, <1>3, <3>3, <4>1, PauseOrderFacts
    <3> QED
      BY <3>2, <3>3
  <2>2. \A b \in Background : pc'[b] # "event" => pause_lock'[b] = b
    BY <1>1, <1>3, ThreadsAssumption, PauseOrderFacts DEF IInv, Pausing
  <2> QED
    BY <2>1, <2>2 DEF Pausing
<1>7. Registering'
  BY <1>1 DEF IInv, Registering
<1> QED
  BY <1>4, <1>5, <1>6, <1>7 DEF IInv

LEMMA InvPauseNotify ==
  ASSUME IInv, PauseNotify
  PROVE  IInv'
<1>1. /\ mpc = "notify" /\ mpc' = "registering" /\ init_count' = 0
      /\ pipe' = [w \in Workers |-> pipe[w] + 1]
      /\ UNCHANGED <<tableVars, hash_items, growVars, item_lock, pause_lock, pauses, mstep, pc, callVars>>
  BY DEF PauseNotify
<1>2. \A w \in Workers : pipe[w] = 0
  BY <1>1 DEF IInv, Registering
<1>3. pipe' \in [Workers -> Nat] /\ \A w \in Workers : pipe'[w] = 1
  BY <1>1, <1>2
<1>4. FieldsOK'
  BY <1>1, <1>3 DEF IInv, FieldsOK, tableVars, growVars, callVars
<1>5. hash_items' \in Int /\ ItemsCounted' /\ Growing' /\ Placed' /\ Locking' /\ Calls'
  BY <1>1, Administers DEF IInv, Growing
<1>6. Pausing'
  BY <1>1 DEF IInv, Pausing
<1>7. Registering'
  <2>1. {w \in Workers : pipe'[w] = 0} = {}
    BY <1>3
  <2>2. init_count' = Cardinality({w \in Workers : pipe'[w] = 0})
    BY <1>1, <2>1, FS_EmptySet
  <2> QED
    BY <1>1, <1>3, <2>2 DEF Registering
<1> QED
  BY <1>4, <1>5, <1>6, <1>7 DEF IInv

\* As many have registered as there are workers, so each has.
LEMMA InvPauseDone ==
  ASSUME IInv, PauseDone
  PROVE  IInv'
<1>1. /\ mpc = "registering" /\ mpc' = "expand" /\ init_count >= Cardinality(Workers)
      /\ UNCHANGED <<tableVars, hash_items, growVars, item_lock, pauseVars, mstep, pc, callVars>>
  BY DEF PauseDone
<1>2. \A w \in Workers : pipe[w] = 0
  <2> DEFINE S == {w \in Workers : pipe[w] = 0}
  <2>1. init_count = Cardinality(S) /\ S \subseteq Workers
    BY DEF IInv, Registering
  <2> HIDE DEF S
  <2>2. IsFiniteSet(Workers) /\ IsFiniteSet(S) /\ Cardinality(S) <= Cardinality(Workers)
        /\ (Cardinality(S) = Cardinality(Workers) => S = Workers)
    BY <2>1, ThreadsAssumption, FS_Subset
  <2>3. Cardinality(S) \in Nat /\ Cardinality(Workers) \in Nat
    BY <2>2, FS_CardinalityType
  <2>4. S = Workers
    BY <1>1, <2>1, <2>2, <2>3
  <2> QED
    BY <2>4 DEF S
<1>3. FieldsOK'
  BY <1>1 DEF IInv, FieldsOK, tableVars, growVars, pauseVars, callVars
<1>4. hash_items' \in Int /\ ItemsCounted' /\ Growing' /\ Placed' /\ Locking' /\ Calls'
  BY <1>1, Administers DEF IInv, Growing
<1>5. Pausing'
  BY <1>1 DEF IInv, Pausing, pauseVars
<1>6. Registering'
  BY <1>1, <1>2 DEF IInv, Registering, pauseVars
<1> QED
  BY <1>3, <1>4, <1>5, <1>6 DEF IInv

LEMMA Invassoc_expand_no_memory ==
  ASSUME IInv, assoc_expand_no_memory
  PROVE  IInv'
<1>1. /\ mpc = "expand" /\ mpc' = "resuming" /\ mstep' = 1
      /\ UNCHANGED <<tableVars, hash_items, growVars, item_lock, pauseVars, pc, callVars>>
  BY DEF assoc_expand_no_memory
<1>2. FieldsOK'
  BY <1>1 DEF IInv, FieldsOK, tableVars, growVars, pauseVars, callVars
<1>3. hash_items' \in Int /\ ItemsCounted' /\ Growing' /\ Placed' /\ Locking' /\ Calls'
  BY <1>1, Administers DEF IInv, Growing
<1>4. Pausing'
  BY <1>1 DEF IInv, Pausing, pauseVars
<1>5. Registering'
  BY <1>1 DEF IInv, Registering, pauseVars
<1> QED
  BY <1>2, <1>3, <1>4, <1>5 DEF IInv

LEMMA InvResumeUnlock ==
  ASSUME IInv, ResumeUnlock
  PROVE  IInv'
<1>1. /\ mpc = "resuming" /\ mstep \in 1..4
      /\ pause_lock' = [pause_lock EXCEPT ![PauseOrder[mstep]] = "none"]
      /\ \/ mstep' \in 1..4 /\ mstep' = mstep + 1 /\ mpc' = mpc
         \/ mstep' = 1 /\ mpc' = "loop"
      /\ UNCHANGED <<tableVars, hash_items, growVars, item_lock, init_count, pipe, pauses, pc, callVars>>
  BY DEF ResumeUnlock, IInv, FieldsOK
<1>2. pause_lock \in [BackgroundThreads \cup {"workers"} -> Background \cup {"none", "assoc"}]
  BY DEF IInv, FieldsOK
<1>3. /\ pause_lock' \in [BackgroundThreads \cup {"workers"} -> Background \cup {"none", "assoc"}]
      /\ \A p \in BackgroundThreads \cup {"workers"} : p # PauseOrder[mstep] => pause_lock'[p] = pause_lock[p]
  BY <1>1, <1>2, PauseOrderFacts
<1>4. FieldsOK'
  BY <1>1, <1>3 DEF IInv, FieldsOK, tableVars, growVars, callVars
<1>5. hash_items' \in Int /\ ItemsCounted' /\ Growing' /\ Placed' /\ Locking' /\ Calls'
  BY <1>1, Administers DEF IInv, Growing
<1>6. \A i \in 1..4 : i >= mstep => pause_lock[PauseOrder[i]] = "assoc"
  BY <1>1 DEF IInv, Pausing
<1>7. Pausing'
  <2>1. ASSUME NEW i \in 1..4, mpc' = "resuming", i >= mstep'
        PROVE  pause_lock'[PauseOrder[i]] = "assoc"
    <3>1. i >= mstep /\ i # mstep
      BY <1>1, <2>1
    <3> QED
      BY <1>1, <1>3, <1>6, <3>1, PauseOrderFacts
  <2>2. \A b \in Background : pc'[b] # "event" => pause_lock'[b] = b
    <3>1. pause_lock[PauseOrder[mstep]] = "assoc"
      BY <1>1, <1>6
    <3> QED
      BY <1>1, <1>3, <3>1, ThreadsAssumption, PauseOrderFacts DEF IInv, Pausing
  <2> QED
    BY <1>1, <2>1, <2>2 DEF Pausing
<1>8. Registering'
  BY <1>1 DEF IInv, Registering
<1> QED
  BY <1>4, <1>5, <1>7, <1>8 DEF IInv

-----------------------------------------------------------------------------
(***************************************************************************)
(* The tables swapped, and the buckets moved.                              *)
(***************************************************************************)
\* With the four locks taken and every worker registered nobody is in a request.
LEMMA Alone ==
  ASSUME IInv, mpc = "expand"
  PROVE  /\ \A t \in Threads : pc[t] \in {"event", "hang"} /\ key[t] = NoKey
         /\ \A l \in Buckets(ItemLockHashpower) : item_lock[l] = "none"
<1>1. \A w \in Workers : pc[w] = "hang"
  BY DEF IInv, Registering
<1>2. \A b \in Background : pc[b] = "event"
  <2>1. SUFFICES ASSUME NEW b \in Background, pc[b] # "event" PROVE FALSE
    OBVIOUS
  <2>2. pause_lock[b] = b /\ b # "assoc"
    BY <2>1, PauseOrderFacts DEF IInv, Pausing
  <2>3. \A i \in 1..4 : pause_lock[PauseOrder[i]] = "assoc"
    BY DEF IInv, Pausing
  <2>4. pause_lock["rebalancer"] = "assoc" /\ pause_lock["crawler"] = "assoc" /\ pause_lock["maintainer"] = "assoc"
    BY <2>3 DEF PauseOrder
  <2> QED
    BY <2>2, <2>4, ThreadsAssumption DEF BackgroundThreads
<1>3. \A t \in Threads : pc[t] \in {"event", "hang"} /\ ~Working(t)
  BY <1>1, <1>2 DEF Threads, Working
<1> QED
  BY <1>3 DEF IInv, Locking, FieldsOK

LEMMA Invassoc_expand ==
  ASSUME IInv, assoc_expand
  PROVE  IInv' /\ Linked' = Linked
<1>1. /\ mpc = "expand" /\ mpc' = "resuming" /\ mstep' = 1
      /\ old_hashtable' = primary_hashtable
      /\ primary_hashtable' = [b \in Buckets(hashpower + 1) |-> {}]
      /\ hashpower' = hashpower + 1 /\ expanding' = TRUE /\ expand_bucket' = 0
      /\ UNCHANGED <<hash_items, growVars, item_lock, pauseVars, pc, callVars>>
  BY DEF assoc_expand
<1>2. FieldsOK /\ hashpower \in Nat /\ hashpower >= InitHashpower /\ InitHashpower \in Nat
  BY HashpowerAssumption DEF IInv, FieldsOK, Growing
<1>3. hashpower' \in Nat /\ hashpower' - 1 = hashpower
  BY <1>1, <1>2
<1>4. /\ primary_hashtable' \in [Buckets(hashpower') -> SUBSET Keys]
      /\ old_hashtable' \in [Buckets(hashpower) -> SUBSET Keys]
  BY <1>1, <1>2 DEF FieldsOK
<1>5. FieldsOK'
  BY <1>1, <1>2, <1>3, <1>4 DEF FieldsOK, growVars, pauseVars, callVars
<1>6. ~expanding
  BY <1>1 DEF IInv, Growing
<1>7. Growing'
  BY <1>1, <1>2, <1>3, Sizes DEF Growing
<1>8. \A k \in Keys : /\ Bucket(k, hashpower) \in Buckets(hashpower)
                      /\ Bucket(k, hashpower') \in Buckets(hashpower')
  BY <1>2, <1>3, BucketOfKey
<1>9. \A k \in Keys : /\ ~InPrimary(k)' /\ (InOld(k)' <=> InPrimary(k))
                      /\ ~InOld(k) /\ NotMoved(k)'
  <2>1. SUFFICES ASSUME NEW k \in Keys
                 PROVE  /\ ~InPrimary(k)' /\ (InOld(k)' <=> InPrimary(k))
                        /\ ~InOld(k) /\ NotMoved(k)'
    OBVIOUS
  <2>2. ~InPrimary(k)' /\ ~InOld(k)
    BY <1>1, <1>3, <1>6, <1>8 DEF InPrimary, InOld
  <2>3. InOld(k)' <=> InPrimary(k)
    BY <1>1, <1>3 DEF InPrimary, InOld
  <2>4. Bucket(k, hashpower' - 1) \in Buckets(hashpower)
    BY <1>3, <1>8
  <2>5. Bucket(k, hashpower' - 1) >= 0
    BY <1>2, <2>4, Sizes
  <2>6. NotMoved(k)'
    BY <1>1, <2>5 DEF NotMoved
  <2> QED
    BY <2>2, <2>3, <2>6
<1>10. Placed'
  <2>1. \A b \in Buckets(hashpower') : \A k \in primary_hashtable'[b] : b = Bucket(k, hashpower')
    BY <1>1
  <2>2. \A b \in Buckets(hashpower' - 1) : \A k \in old_hashtable'[b] : b = Bucket(k, hashpower' - 1)
    BY <1>1, <1>3 DEF IInv, Placed
  <2> QED
    BY <1>9, <2>1, <2>2 DEF Placed
<1>11. Linked' = Linked
  <2>1. Linked' = {k \in Keys : InPrimary(k)' \/ InOld(k)'}
    BY <1>5, <1>7, <1>10, LinkedKeysAfter
  <2>2. Linked = {k \in Keys : InPrimary(k) \/ InOld(k)}
    BY LinkedKeys DEF IInv
  <2> QED
    BY <1>9, <2>1, <2>2
<1>12. Locking'
  BY <1>1, Alone DEF IInv, Locking, Working, callVars
<1>13. Calls'
  BY <1>1, Alone DEF Calls, Finds
<1>14. hash_items' \in Int /\ ItemsCounted'
  BY <1>1, <1>11, CountKept
<1>15. Pausing'
  BY <1>1 DEF IInv, Pausing, pauseVars
<1>16. Registering'
  BY <1>1 DEF IInv, Registering, pauseVars
<1> QED
  BY <1>5, <1>7, <1>10, <1>11, <1>12, <1>13, <1>14, <1>15, <1>16 DEF IInv

\* What the threads know stays true while nothing is linked or unlinked, unless it is about
\* the bucket that is moved, and its lock is not theirs.
LEMMA Knows ==
  ASSUME IInv, expanding, Linked' = Linked, UNCHANGED <<pc, fn, key, saw, where>>,
         \A t \in Threads : Working(t) => /\ NotMoved(key[t]) <=> expanding' /\ NotMoved(key[t])'
                                          /\ expanding' \/ ~NotMoved(key[t])'
  PROVE  Calls'
<1>1. ASSUME NEW t \in Threads PROVE Finds(t)'
  <2>1. Finds(t)
    BY DEF IInv, Calls
  <2>2. pc[t] \in {"choose", "act"} =>
          /\ NotMoved(key[t]) <=> expanding' /\ NotMoved(key[t])'
          /\ expanding' \/ ~NotMoved(key[t])'
    BY DEF Working
  <2>3. pc[t] = "choose" => IF saw'[t] THEN expanding' \/ ~NotMoved(key[t])' ELSE ~expanding'
    BY <2>1, <2>2 DEF Finds
  <2>4. pc[t] = "act" => (where'[t] = "old" <=> expanding' /\ NotMoved(key[t])')
    BY <2>1, <2>2 DEF Finds
  <2> QED
    BY <2>1, <2>3, <2>4 DEF Finds
<1> QED
  BY <1>1 DEF Calls

LEMMA InvMigrateLock ==
  ASSUME IInv, MigrateLock
  PROVE  IInv'
<1> DEFINE l == LockOf(expand_bucket)
<1>1. /\ mpc = "loop" /\ expanding /\ mpc' = "migrate"
      /\ item_lock[l] = "none" /\ item_lock' = [item_lock EXCEPT ![l] = "assoc"]
      /\ UNCHANGED <<tableVars, hash_items, growVars, pauseVars, mstep, pc, callVars>>
  BY DEF MigrateLock
<1>2. /\ item_lock \in [Buckets(ItemLockHashpower) -> Threads \cup {"none", "assoc"}]
      /\ l \in Buckets(ItemLockHashpower)
  BY LockOfHash DEF IInv, FieldsOK
<1> HIDE DEF l
<1>3. /\ item_lock' \in [Buckets(ItemLockHashpower) -> Threads \cup {"none", "assoc"}]
      /\ item_lock'[l] = "assoc"
      /\ \A m \in Buckets(ItemLockHashpower) : m # l => item_lock'[m] = item_lock[m]
  BY <1>1, <1>2
<1>4. FieldsOK'
  BY <1>1, <1>3 DEF IInv, FieldsOK, tableVars, growVars, pauseVars, callVars
<1>5. Growing'
  BY <1>1, <1>3 DEF IInv, Growing, tableVars, l
<1>6. Placed' /\ Linked' = Linked
  <2>1. \A k \in Keys : InOld(k)' = InOld(k) /\ InPrimary(k)' = InPrimary(k) /\ NotMoved(k)' = NotMoved(k)
    BY <1>1 DEF tableVars, InOld, InPrimary, NotMoved
  <2>2. UNCHANGED <<hashpower, primary_hashtable, old_hashtable, expanding, expand_bucket>>
    BY <1>1 DEF tableVars
  <2> QED
    BY <1>1, <2>1, <2>2 DEF IInv, Placed, Linked
<1>7. Calls'
  <2>1. UNCHANGED <<pc, fn, key, saw, where, expanding>>
    BY <1>1 DEF tableVars, callVars
  <2>2. \A t \in Threads : NotMoved(key[t])' = NotMoved(key[t])
    BY <1>1 DEF tableVars, callVars, NotMoved
  <2> QED
    BY <1>1, <1>6, <2>1, <2>2, Knows
<1>8. Locking'
  <2>1. UNCHANGED <<pc, key, expand_bucket>>
    BY <1>1 DEF callVars, tableVars
  <2>2. \A t \in Threads : Working(t) => LockOf(hash[key[t]]) \in Buckets(ItemLockHashpower)
                                         /\ LockOf(hash[key[t]]) # l
    BY <1>1, LockOfKey, ThreadFacts DEF IInv, Locking
  <2> QED
    BY <1>1, <1>3, <2>1, <2>2, ThreadFacts DEF IInv, Locking, Working, l
<1>9. hash_items' \in Int /\ ItemsCounted'
  BY <1>1, <1>6, CountKept
<1>10. Pausing' /\ Registering'
  BY <1>1, PauseUntouched DEF pauseVars
<1> QED
  BY <1>4, <1>5, <1>6, <1>7, <1>8, <1>9, <1>10 DEF IInv

\* An item of the bucket goes from the old table to the primary one.
LEMMA InvMigrateItem ==
  ASSUME IInv, MigrateItem
  PROVE  IInv' /\ Linked' = Linked
<1>1. PICK k \in old_hashtable[expand_bucket] :
        /\ old_hashtable' = [old_hashtable EXCEPT ![expand_bucket] = @ \ {k}]
        /\ primary_hashtable' = [primary_hashtable EXCEPT ![Bucket(k, hashpower)] = @ \cup {k}]
  BY DEF MigrateItem
<1>2. /\ mpc = "migrate" /\ expanding
      /\ UNCHANGED <<hashpower, expanding, expand_bucket, hash_items, growVars, item_lock,
                     pauseVars, maintVars, pc, callVars>>
  BY DEF MigrateItem, IInv, Growing
<1>3. /\ FieldsOK /\ hashpower \in Nat /\ hashpower - 1 \in Nat
      /\ expand_bucket \in Buckets(hashpower - 1)
  BY <1>2, Powers DEF IInv, Growing
<1>4. /\ primary_hashtable \in [Buckets(hashpower) -> SUBSET Keys]
      /\ old_hashtable \in [Buckets(hashpower - 1) -> SUBSET Keys]
  BY <1>2, <1>3 DEF FieldsOK
<1> DEFINE b == Bucket(k, hashpower)
<1>5. /\ k \in Keys /\ b \in Buckets(hashpower)
      /\ expand_bucket = Bucket(k, hashpower - 1)
  <2>1. k \in Keys
    BY <1>3, <1>4
  <2>2. expand_bucket = Bucket(k, hashpower - 1)
    BY <1>2, <1>3 DEF IInv, Placed
  <2> QED
    BY <1>3, <2>1, <2>2, BucketOfKey
<1>6. /\ primary_hashtable' \in [Buckets(hashpower) -> SUBSET Keys]
      /\ primary_hashtable'[b] = primary_hashtable[b] \cup {k}
      /\ \A c \in Buckets(hashpower) : c # b => primary_hashtable'[c] = primary_hashtable[c]
  BY <1>1, <1>4, <1>5
<1>7. /\ old_hashtable' \in [Buckets(hashpower - 1) -> SUBSET Keys]
      /\ old_hashtable'[expand_bucket] = old_hashtable[expand_bucket] \ {k}
      /\ \A c \in Buckets(hashpower - 1) : c # expand_bucket => old_hashtable'[c] = old_hashtable[c]
  BY <1>1, <1>3, <1>4
<1>8. FieldsOK'
  BY <1>2, <1>3, <1>6, <1>7 DEF FieldsOK, growVars, pauseVars, maintVars, callVars
<1>9. Growing'
  BY <1>2 DEF IInv, Growing, maintVars
<1>10. \A j \in Keys : /\ j # k => (InPrimary(j)' <=> InPrimary(j)) /\ (InOld(j)' <=> InOld(j))
                       /\ NotMoved(j)' = NotMoved(j)
  <2>1. SUFFICES ASSUME NEW j \in Keys
                 PROVE  /\ j # k => (InPrimary(j)' <=> InPrimary(j)) /\ (InOld(j)' <=> InOld(j))
                        /\ NotMoved(j)' = NotMoved(j)
    OBVIOUS
  <2>2. Bucket(j, hashpower) \in Buckets(hashpower) /\ Bucket(j, hashpower - 1) \in Buckets(hashpower - 1)
    BY <1>3, BucketOfKey
  <2>3. j # k => (j \in primary_hashtable'[Bucket(j, hashpower)] <=> j \in primary_hashtable[Bucket(j, hashpower)])
    BY <1>6, <2>2
  <2>4. j # k => (j \in old_hashtable'[Bucket(j, hashpower - 1)] <=> j \in old_hashtable[Bucket(j, hashpower - 1)])
    BY <1>7, <2>2
  <2> QED
    BY <1>2, <2>3, <2>4 DEF InPrimary, InOld, NotMoved
<1>11. /\ InPrimary(k)' /\ ~InOld(k)' /\ InOld(k) /\ NotMoved(k)
  <2>1. InOld(k)
    BY <1>1, <1>2, <1>5 DEF InOld
  <2>2. NotMoved(k)
    BY <1>5, <2>1 DEF IInv, Placed
  <2> QED
    BY <1>2, <1>5, <1>6, <1>7, <2>1, <2>2 DEF InOld, InPrimary
<1>12. Placed'
  <2>1. /\ \A c \in Buckets(hashpower) : \A j \in primary_hashtable[c] : c = Bucket(j, hashpower)
        /\ \A c \in Buckets(hashpower - 1) : \A j \in old_hashtable[c] : c = Bucket(j, hashpower - 1)
        /\ \A j \in Keys : InOld(j) => NotMoved(j) /\ ~InPrimary(j)
        /\ \A j \in Keys : InPrimary(j) => ~NotMoved(j) \/ Bucket(j, hashpower - 1) = expand_bucket
    BY <1>2 DEF IInv, Placed
  <2>2. \A c \in Buckets(hashpower) : \A j \in primary_hashtable'[c] : c = Bucket(j, hashpower)
    BY <1>6, <2>1
  <2>3. \A c \in Buckets(hashpower - 1) : \A j \in old_hashtable'[c] : c = Bucket(j, hashpower - 1)
    BY <1>7, <2>1
  <2>4. \A j \in Keys : InOld(j)' => NotMoved(j)' /\ ~InPrimary(j)'
    BY <1>10, <1>11, <2>1
  <2>5. \A j \in Keys : InPrimary(j)' => ~NotMoved(j)' \/ Bucket(j, hashpower - 1) = expand_bucket
    BY <1>5, <1>10, <1>11, <2>1
  <2> QED
    BY <1>2, <2>2, <2>3, <2>4, <2>5 DEF Placed, maintVars
<1>13. Linked' = Linked
  <2>1. Linked' = {j \in Keys : InPrimary(j)' \/ InOld(j)'}
    BY <1>8, <1>9, <1>12, LinkedKeysAfter
  <2>2. Linked = {j \in Keys : InPrimary(j) \/ InOld(j)}
    BY LinkedKeys DEF IInv
  <2> QED
    BY <1>10, <1>11, <2>1, <2>2
<1>14. Calls'
  <2>1. \A t \in Threads : Working(t) => key[t] \in Keys
    BY DEF IInv, Locking
  <2>2. UNCHANGED <<pc, fn, key, saw, where>>
    BY <1>2 DEF callVars
  <2>3. \A t \in Threads : Working(t) => NotMoved(key[t])' = NotMoved(key[t])
    BY <1>2, <2>2 DEF NotMoved
  <2> QED
    BY <1>2, <1>13, <2>2, <2>3, Knows
<1>15. Locking'
  BY <1>2 DEF IInv, Locking, Working, callVars, maintVars
<1>16. hash_items' \in Int /\ ItemsCounted'
  BY <1>2, <1>13, CountKept
<1>17. Pausing' /\ Registering'
  BY <1>2, PauseUntouched DEF pauseVars
<1> QED
  BY <1>8, <1>9, <1>12, <1>13, <1>14, <1>15, <1>16, <1>17 DEF IInv

\* The bucket is empty: its keys are in the primary table, and nobody has its lock.
LEMMA InvMigrateBucketDone ==
  ASSUME IInv, MigrateBucketDone
  PROVE  IInv' /\ Linked' = Linked
<1> DEFINE l == LockOf(expand_bucket)
           n == hashsize(hashpower - 1)
<1>1. /\ mpc = "migrate" /\ mpc' = "loop" /\ old_hashtable[expand_bucket] = {}
      /\ expand_bucket' = expand_bucket + 1
      /\ IF expand_bucket' = n THEN expanding' = FALSE /\ old_hashtable' = <<>>
                               ELSE UNCHANGED <<expanding, old_hashtable>>
      /\ item_lock' = [item_lock EXCEPT ![l] = "none"]
      /\ UNCHANGED <<hashpower, primary_hashtable, hash_items, growVars, pauseVars, mstep, pc, callVars>>
  BY DEF MigrateBucketDone
<1>2. /\ FieldsOK /\ hashpower \in Nat /\ hashpower - 1 \in Nat
      /\ expanding /\ expand_bucket \in Buckets(hashpower - 1) /\ item_lock[l] = "assoc"
  BY <1>1, Powers DEF IInv, Growing
<1>3. /\ n \in Nat /\ n > 0 /\ expand_bucket \in Nat /\ expand_bucket < n
      /\ \A b : b \in Buckets(hashpower - 1) <=> b \in Nat /\ b < n
  BY <1>2, Sizes
<1>4. /\ item_lock \in [Buckets(ItemLockHashpower) -> Threads \cup {"none", "assoc"}]
      /\ l \in Buckets(ItemLockHashpower)
  BY <1>2, LockOfHash DEF FieldsOK
<1>5. \A k \in Keys : /\ Bucket(k, hashpower - 1) \in Nat /\ Bucket(k, hashpower - 1) < n
                      /\ LockOf(Bucket(k, hashpower - 1)) = LockOf(hash[k])
  BY <1>2, <1>3, BucketOfKey, LockOfBucket, Powers DEF IInv
<1> HIDE DEF l, n
<1>6. /\ item_lock' \in [Buckets(ItemLockHashpower) -> Threads \cup {"none", "assoc"}]
      /\ item_lock'[l] = "none"
      /\ \A m \in Buckets(ItemLockHashpower) : m # l => item_lock'[m] = item_lock[m]
  BY <1>1, <1>4
<1>7. /\ expanding' \in BOOLEAN /\ expand_bucket' \in Nat
      /\ expanding' <=> expand_bucket' # n
      /\ expanding' => old_hashtable' = old_hashtable
      /\ ~expanding' => old_hashtable' = <<>>
  <2>1. expanding \in BOOLEAN
    BY <1>2 DEF FieldsOK
  <2>2. expand_bucket' \in Nat
    BY <1>1, <1>3
  <2>3. CASE expand_bucket' = n
    BY <1>1, <2>2, <2>3
  <2>4. CASE expand_bucket' # n
    <3>1. expanding' = expanding /\ old_hashtable' = old_hashtable
      BY <1>1, <2>4
    <3> QED
      BY <1>2, <2>1, <2>2, <2>4, <3>1
  <2> QED
    BY <2>3, <2>4
<1>8. FieldsOK'
  <2>1. IF expanding' THEN old_hashtable' \in [Buckets(hashpower' - 1) -> SUBSET Keys]
                      ELSE old_hashtable' = <<>>
    BY <1>1, <1>2, <1>7 DEF FieldsOK
  <2> QED
    BY <1>1, <1>2, <1>6, <1>7, <2>1 DEF FieldsOK, growVars, pauseVars, callVars
<1>9. Growing'
  <2>1. expanding' => expand_bucket' \in Buckets(hashpower' - 1)
    BY <1>1, <1>3, <1>7
  <2> QED
    BY <1>1, <2>1 DEF IInv, Growing
<1>10. \A k \in Keys : /\ NotMoved(k) <=> Bucket(k, hashpower - 1) >= expand_bucket
                       /\ NotMoved(k)' <=> Bucket(k, hashpower - 1) >= expand_bucket + 1
                       /\ NotMoved(k)' => expanding' /\ NotMoved(k)
                       /\ NotMoved(k) => NotMoved(k)' \/ Bucket(k, hashpower - 1) = expand_bucket
  <2>1. SUFFICES ASSUME NEW k \in Keys
                 PROVE  /\ NotMoved(k) <=> Bucket(k, hashpower - 1) >= expand_bucket
                        /\ NotMoved(k)' <=> Bucket(k, hashpower - 1) >= expand_bucket + 1
                        /\ NotMoved(k)' => expanding' /\ NotMoved(k)
                        /\ NotMoved(k) => NotMoved(k)' \/ Bucket(k, hashpower - 1) = expand_bucket
    OBVIOUS
  <2>2. /\ NotMoved(k) <=> Bucket(k, hashpower - 1) >= expand_bucket
        /\ NotMoved(k)' <=> Bucket(k, hashpower - 1) >= expand_bucket + 1
    BY <1>1 DEF NotMoved
  <2>3. Bucket(k, hashpower - 1) \in Nat /\ Bucket(k, hashpower - 1) < n
    BY <1>5
  <2>4. expanding' <=> expand_bucket + 1 # n
    BY <1>1, <1>7
  <2> DEFINE b == Bucket(k, hashpower - 1)
  <2> HIDE DEF b
  <2>5. b \in Nat /\ b < n
    BY <2>3 DEF b
  <2>6. /\ b >= expand_bucket + 1 => expand_bucket + 1 # n /\ b >= expand_bucket
        /\ b >= expand_bucket => b >= expand_bucket + 1 \/ b = expand_bucket
    BY <1>3, <2>5
  <2> QED
    BY <2>2, <2>4, <2>6 DEF b
<1>11. \A k \in Keys : (InPrimary(k)' <=> InPrimary(k)) /\ (InOld(k)' <=> InOld(k))
  <2>1. SUFFICES ASSUME NEW k \in Keys
                 PROVE  (InPrimary(k)' <=> InPrimary(k)) /\ (InOld(k)' <=> InOld(k))
    OBVIOUS
  <2>2. InPrimary(k)' <=> InPrimary(k)
    BY <1>1 DEF InPrimary
  <2>3. CASE expanding'
    BY <1>1, <1>2, <1>7, <2>2, <2>3 DEF InOld
  <2>4. CASE ~expanding'
    <3>1. SUFFICES ASSUME InOld(k) PROVE FALSE
      BY <2>2, <2>4 DEF InOld
    <3>2. Bucket(k, hashpower - 1) = expand_bucket
      BY <1>10, <2>4, <3>1 DEF IInv, Placed
    <3> QED
      BY <1>1, <3>1, <3>2 DEF InOld
  <2> QED
    BY <2>3, <2>4
<1>12. Placed'
  <2>1. /\ \A c \in Buckets(hashpower) : \A j \in primary_hashtable[c] : c = Bucket(j, hashpower)
        /\ \A c \in Buckets(hashpower - 1) : \A j \in old_hashtable[c] : c = Bucket(j, hashpower - 1)
        /\ \A j \in Keys : InOld(j) => NotMoved(j) /\ ~InPrimary(j)
        /\ \A j \in Keys : InPrimary(j) => ~NotMoved(j) \/ Bucket(j, hashpower - 1) = expand_bucket
    BY <1>1, <1>2 DEF IInv, Placed
  <2>2. \A j \in Keys : InOld(j)' => NotMoved(j)' /\ ~InPrimary(j)'
    <3>1. SUFFICES ASSUME NEW j \in Keys, InOld(j)'
                   PROVE  NotMoved(j)' /\ ~InPrimary(j)'
      OBVIOUS
    <3>2. InOld(j) /\ NotMoved(j) /\ ~InPrimary(j)
      BY <1>11, <2>1, <3>1
    <3>3. Bucket(j, hashpower - 1) # expand_bucket
      BY <1>1, <3>2 DEF InOld
    <3> QED
      BY <1>10, <1>11, <3>2, <3>3
  <2>3. \A j \in Keys : InPrimary(j)' => ~NotMoved(j)'
    <3>1. SUFFICES ASSUME NEW j \in Keys, InPrimary(j)', NotMoved(j)'
                   PROVE  FALSE
      OBVIOUS
    <3>2. InPrimary(j) /\ NotMoved(j) /\ Bucket(j, hashpower - 1) >= expand_bucket + 1
      BY <1>10, <1>11, <3>1
    <3>3. Bucket(j, hashpower - 1) = expand_bucket
      BY <2>1, <3>2
    <3> QED
      BY <1>3, <3>2, <3>3
  <2>4. \A c \in Buckets(hashpower') : \A j \in primary_hashtable'[c] : c = Bucket(j, hashpower')
    BY <1>1, <2>1
  <2>5. expanding' => \A c \in Buckets(hashpower' - 1) : \A j \in old_hashtable'[c] : c = Bucket(j, hashpower' - 1)
    BY <1>1, <1>7, <2>1
  <2> QED
    BY <2>2, <2>3, <2>4, <2>5 DEF Placed
<1>13. Linked' = Linked
  <2>1. Linked' = {j \in Keys : InPrimary(j)' \/ InOld(j)'}
    BY <1>8, <1>9, <1>12, LinkedKeysAfter
  <2>2. Linked = {j \in Keys : InPrimary(j) \/ InOld(j)}
    BY LinkedKeys DEF IInv
  <2> QED
    BY <1>11, <2>1, <2>2
<1>14. \A t \in Threads : Working(t) => /\ key[t] \in Keys /\ LockOf(hash[key[t]]) # l
                                        /\ LockOf(hash[key[t]]) \in Buckets(ItemLockHashpower)
                                        /\ item_lock[LockOf(hash[key[t]])] = t
  BY <1>2, ThreadFacts, LockOfKey DEF IInv, Locking
<1>15. Calls'
  <2>1. UNCHANGED <<pc, fn, key, saw, where>>
    BY <1>1 DEF callVars
  <2>2. ASSUME NEW t \in Threads, Working(t)
        PROVE  /\ NotMoved(key[t]) <=> expanding' /\ NotMoved(key[t])'
               /\ expanding' \/ ~NotMoved(key[t])'
    <3>1. key[t] \in Keys /\ Bucket(key[t], hashpower - 1) # expand_bucket
      BY <1>5, <1>14, <2>2 DEF l
    <3>2. NotMoved(key[t])' = (Bucket(key[t], hashpower' - 1) >= expand_bucket')
      BY <2>1 DEF NotMoved
    <3>3. /\ NotMoved(key[t])' <=> Bucket(key[t], hashpower - 1) >= expand_bucket + 1
          /\ NotMoved(key[t]) <=> Bucket(key[t], hashpower - 1) >= expand_bucket
      BY <1>1, <3>2 DEF NotMoved
    <3> DEFINE b == Bucket(key[t], hashpower - 1)
    <3>4. b \in Nat /\ b < n /\ b # expand_bucket
      BY <1>5, <3>1
    <3>5. /\ NotMoved(key[t])' <=> b >= expand_bucket + 1
          /\ NotMoved(key[t]) <=> b >= expand_bucket
      BY <3>3
    <3>6. expanding' <=> expand_bucket + 1 # n
      BY <1>1, <1>7
    <3> HIDE DEF b
    <3> QED
      BY <1>3, <3>4, <3>5, <3>6
  <2> QED
    BY <1>2, <1>13, <2>1, <2>2, Knows
<1>16. Locking'
  <2>1. UNCHANGED <<pc, key>>
    BY <1>1 DEF callVars
  <2>2. ASSUME NEW m \in Buckets(ItemLockHashpower), item_lock[m] = "assoc", m # l
        PROVE  FALSE
    BY <2>2 DEF IInv, Locking, l
  <2> QED
    BY <1>1, <1>6, <1>14, <2>1, <2>2, ThreadFacts DEF IInv, Locking, Working
<1>17. hash_items' \in Int /\ ItemsCounted'
  BY <1>1, <1>13, CountKept
<1>18. Pausing' /\ Registering'
  BY <1>1, PauseUntouched DEF pauseVars
<1> QED
  BY <1>8, <1>9, <1>12, <1>13, <1>15, <1>16, <1>17, <1>18 DEF IInv

-----------------------------------------------------------------------------
(***************************************************************************)
(* The invariant holds.                                                    *)
(***************************************************************************)
LEMMA InitInv == Init => IInv
<1>1. SUFFICES ASSUME Init PROVE IInv
  OBVIOUS
<1>2. hashpower = InitHashpower /\ InitHashpower \in Nat /\ hashpower \in Nat /\ hashpower - 1 \in Nat
  BY <1>1, HashpowerAssumption DEF Init
<1>3. /\ primary_hashtable = [b \in Buckets(hashpower) |-> {k \in Resident : Bucket(k, hashpower) = b}]
      /\ old_hashtable = <<>> /\ expanding = FALSE /\ expand_bucket = 0
      /\ hash_items = Cardinality(Resident)
      /\ started_expanding = FALSE /\ waiting = FALSE
      /\ item_lock = [l \in Buckets(ItemLockHashpower) |-> "none"]
      /\ pause_lock = [p \in BackgroundThreads \cup {"workers"} |-> "none"]
      /\ init_count = Cardinality(Workers) /\ pipe = [w \in Workers |-> 0] /\ pauses = 0
      /\ mpc = "loop" /\ mstep = 1
  BY <1>1, <1>2 DEF Init
<1>4. /\ pc = [t \in Threads |-> "event"] /\ cmd = [t \in Threads |-> "none"]
      /\ fn = [t \in Threads |-> "none"] /\ key = [t \in Threads |-> NoKey]
      /\ answer = [t \in Threads |-> "none"] /\ saw = [t \in Threads |-> FALSE]
      /\ where = [t \in Threads |-> "primary"]
  BY <1>1 DEF Init
<1>5. Resident \subseteq Keys /\ IsFiniteSet(Resident) /\ Cardinality(Resident) \in Nat
      /\ Cardinality(Workers) \in Nat
  BY KeysAssumption, ThreadsAssumption, FS_Subset, FS_CardinalityType
<1>6. FieldsOK
  <2>1. /\ hashpower \in Nat /\ expand_bucket \in Nat
        /\ primary_hashtable \in [Buckets(hashpower) -> SUBSET Keys]
        /\ ~expanding /\ old_hashtable = <<>>
        /\ {expanding, started_expanding, waiting} \subseteq BOOLEAN
    BY <1>2, <1>3, <1>5
  <2>2. /\ item_lock \in [Buckets(ItemLockHashpower) -> Threads \cup {"none", "assoc"}]
        /\ pause_lock \in [BackgroundThreads \cup {"workers"} -> Background \cup {"none", "assoc"}]
        /\ init_count \in Nat /\ pipe \in [Workers -> Nat] /\ pauses \in Nat
        /\ mpc = "loop" /\ mstep \in 1..4
    BY <1>3, <1>5
  <2>3. /\ pc \in [Threads -> Steps] /\ cmd \in [Threads -> {"none", "get", "set", "evict", "move"}]
        /\ fn \in [Threads -> {"none", "find", "insert", "delete"}]
        /\ key \in [Threads -> Keys \cup {NoKey}] /\ answer \in [Threads -> {"none", "hit", "miss"}]
        /\ saw \in [Threads -> BOOLEAN] /\ where \in [Threads -> {"old", "primary"}]
    BY <1>4 DEF Steps
  <2> QED
    BY <2>1, <2>2, <2>3 DEF FieldsOK, Steps
<1>7. Growing
  BY <1>2, <1>3 DEF Growing
<1>8. \A k \in Keys : ~InOld(k) /\ (InPrimary(k) <=> k \in Resident)
  <2>1. \A k \in Keys : Bucket(k, hashpower) \in Buckets(hashpower)
    BY <1>2, BucketOfKey
  <2> QED
    BY <1>3, <2>1 DEF InOld, InPrimary
<1>9. Placed
  BY <1>3, <1>8 DEF Placed
<1>10. Linked = Resident
  BY <1>5, <1>6, <1>7, <1>8, <1>9, LinkedKeys
<1>11. Locking
  BY <1>3, <1>4, ThreadFacts DEF Locking, Working
<1>12. Calls
  BY <1>4 DEF Calls, Finds
<1>13. Pausing
  BY <1>3, <1>4 DEF Pausing, Threads
<1>14. Registering
  <2>1. {w \in Workers : pipe[w] = 0} = Workers
    BY <1>3
  <2> QED
    BY <1>3, <2>1 DEF Registering
<1>15. hash_items \in Int /\ ItemsCounted
  <2>1. {t \in Threads : pc[t] = "count"} = {}
    BY <1>4
  <2>2. Cardinality({t \in Threads : pc[t] = "count"}) = 0
    BY <2>1, FS_EmptySet
  <2>3. hash_items = Cardinality(Linked) /\ hash_items \in Nat
    BY <1>3, <1>5, <1>10
  <2> QED
    BY <2>2, <2>3 DEF ItemsCounted
<1> QED
  BY <1>6, <1>7, <1>9, <1>11, <1>12, <1>13, <1>14, <1>15 DEF IInv

LEMMA InvInCall ==
  ASSUME IInv, NEW t \in Threads, InCall(t)
  PROVE  IInv'
BY InvReadExpanding, InvChooseBucket, Invassoc_find, Invassoc_insert, InvInsertCount,
   Invassoc_delete, InvUnlockItem DEF InCall

LEMMA InvWorker ==
  ASSUME IInv, NEW w \in Workers, Worker(w)
  PROVE  IInv'
<1>1. w \in Threads
  BY DEF Threads
<1>2. CASE \E k \in Requested, c \in {"get", "set"} : Request(w, k, c)
  BY <1>2, InvRequest
<1>3. CASE \E k \in Requested : Unlink(w, k, "evict")
  BY <1>1, <1>3, InvUnlink
<1>4. CASE InCall(w)
  BY <1>1, <1>4, InvInCall
<1>5. CASE Register(w) \/ HangPass(w) \/ CrawlerCommand(w) \/ CrawlerCommandDone(w)
  BY <1>5, InvRegister, InvHangPass, InvCrawlerCommand
<1> QED
  BY <1>2, <1>3, <1>4, <1>5 DEF Worker

LEMMA InvBackgroundThread ==
  ASSUME IInv, NEW b \in Background, BackgroundThread(b)
  PROVE  IInv'
<1>1. b \in Threads
  BY DEF Threads
<1>2. CASE BackgroundWake(b) \/ BackgroundSleep(b)
  BY <1>2, InvBackground
<1>3. CASE \E k \in Requested, c \in {"evict", "move"} : Unlink(b, k, c)
  BY <1>1, <1>3, InvUnlink
<1>4. CASE InCall(b)
  BY <1>1, <1>4, InvInCall
<1> QED
  BY <1>2, <1>3, <1>4 DEF BackgroundThread

LEMMA InvMaintenance ==
  ASSUME IInv, Maintenance
  PROVE  IInv'
BY InvMigrateLock, InvMigrateItem, InvMigrateBucketDone, InvReset, InvMaintenanceWake, InvPauseLock,
   InvPauseNotify, InvPauseDone, Invassoc_expand, Invassoc_expand_no_memory, InvResumeUnlock
   DEF Maintenance

LEMMA InvStutter ==
  ASSUME IInv, UNCHANGED vars
  PROVE  IInv'
<1>1. /\ UNCHANGED <<tableVars, hash_items, growVars, item_lock, pauseVars, maintVars, pc, callVars>>
  BY DEF vars
<1>2. FieldsOK'
  BY <1>1 DEF IInv, FieldsOK, tableVars, growVars, pauseVars, maintVars, callVars
<1>3. hash_items' \in Int /\ ItemsCounted' /\ Growing' /\ Placed' /\ Locking' /\ Calls'
  BY <1>1, Administers DEF IInv, Growing, maintVars
<1>4. Pausing' /\ Registering'
  BY <1>1, PauseUntouched DEF pauseVars
<1> QED
  BY <1>2, <1>3, <1>4 DEF IInv

LEMMA NextInv == IInv /\ [Next]_vars => IInv'
<1>1. SUFFICES ASSUME IInv, [Next]_vars PROVE IInv'
  OBVIOUS
<1>2. CASE \E w \in Workers : Worker(w)
  BY <1>1, <1>2, InvWorker
<1>3. CASE \E b \in Background : BackgroundThread(b)
  BY <1>1, <1>3, InvBackgroundThread
<1>4. CASE Maintenance
  BY <1>1, <1>4, InvMaintenance
<1>5. CASE SpuriousWakeup
  BY <1>1, <1>5, InvReset
<1>6. CASE UNCHANGED vars
  BY <1>1, <1>6, InvStutter
<1> QED
  BY <1>1, <1>2, <1>3, <1>4, <1>5, <1>6 DEF Next

\* The inductive invariant holds in every state the program reaches.
THEOREM Invariance == Spec => []IInv
<1>1. Init => IInv
  BY InitInv
<1>2. IInv /\ [Next]_vars => IInv'
  BY NextInv
<1> QED
  BY <1>1, <1>2, PTL DEF Spec

-----------------------------------------------------------------------------
(***************************************************************************)
(* What follows for the table.                                             *)
(***************************************************************************)
\* Threads that have yet to count an item have each linked one of their own.
LEMMA CountNotNegative == IInv => hash_items \in Nat
<1>1. SUFFICES ASSUME IInv PROVE hash_items \in Nat
  OBVIOUS
<1> DEFINE C == {t \in Threads : pc[t] = "count"}
           f == [t \in C |-> key[t]]
<1>2. IsFiniteSet(Linked)
  <2>1. Linked \subseteq Keys
    BY <1>1, LinkedKeys DEF IInv
  <2> QED
    BY <2>1, KeysAssumption, FS_Subset
<1>3. f \in Injection(C, Linked)
  <2>1. \A t \in C : key[t] \in Linked /\ Working(t)
    BY <1>1 DEF IInv, Calls, Finds, Working
  <2>2. \A t, u \in C : key[t] = key[u] => t = u
    BY <1>1, <2>1, KeysApart DEF IInv
  <2> HIDE DEF C
  <2>3. f \in [C -> Linked]
    BY <2>1
  <2> QED
    BY <2>2, <2>3 DEF Injection, IsInjective
<1> HIDE DEF C, f
<1>4. IsFiniteSet(C) /\ Cardinality(C) <= Cardinality(Linked)
  BY <1>2, <1>3, FS_Injection
<1>5. Cardinality(C) \in Nat /\ Cardinality(Linked) \in Nat
  BY <1>2, <1>4, FS_CardinalityType
<1>6. hash_items \in Int /\ hash_items + Cardinality(C) = Cardinality(Linked)
  BY <1>1 DEF IInv, ItemsCounted, C
<1> QED
  BY <1>4, <1>5, <1>6

\* A key is in one bucket of one table.
LEMMA OnePlace == IInv => NoDuplicates
<1>1. SUFFICES ASSUME IInv PROVE NoDuplicates
  OBVIOUS
<1>2. hashpower \in Nat /\ hashpower - 1 \in Nat
  BY <1>1, Powers DEF IInv
<1>3. ASSUME NEW k \in Keys PROVE Cardinality(PlacesOf(k)) <= 1
  <2> DEFINE p == <<"primary", Bucket(k, hashpower)>>
             o == <<"old", Bucket(k, hashpower - 1)>>
  <2>1. DOMAIN primary_hashtable = Buckets(hashpower)
    BY <1>1 DEF IInv, FieldsOK
  <2>2. \A b \in DOMAIN primary_hashtable :
          k \in primary_hashtable[b] => b = Bucket(k, hashpower) /\ InPrimary(k)
    BY <1>1, <2>1 DEF IInv, Placed, InPrimary
  <2>3. \A b \in DOMAIN old_hashtable :
          k \in old_hashtable[b] => b = Bucket(k, hashpower - 1) /\ InOld(k)
    <3>1. CASE expanding
      <4>1. DOMAIN old_hashtable = Buckets(hashpower - 1)
        BY <1>1, <3>1 DEF IInv, FieldsOK
      <4> QED
        BY <1>1, <3>1, <4>1 DEF IInv, Placed, InOld
    <3>2. CASE ~expanding
      BY <1>1, <3>2 DEF IInv, FieldsOK
    <3> QED
      BY <3>1, <3>2
  <2>4. InOld(k) => ~InPrimary(k)
    BY <1>1 DEF IInv, Placed
  <2>5. \A q \in PlacesOf(k) : (q = p /\ InPrimary(k)) \/ (q = o /\ InOld(k))
    <3>1. SUFFICES ASSUME NEW q \in PlacesOf(k)
                   PROVE  (q = p /\ InPrimary(k)) \/ (q = o /\ InOld(k))
      OBVIOUS
    <3>2. \/ \E b \in DOMAIN primary_hashtable : k \in primary_hashtable[b] /\ q = <<"primary", b>>
          \/ \E b \in DOMAIN old_hashtable : k \in old_hashtable[b] /\ q = <<"old", b>>
      BY DEF PlacesOf
    <3> QED
      BY <2>2, <2>3, <3>2
  <2> HIDE DEF p, o
  <2>6. PlacesOf(k) \subseteq {p} \/ PlacesOf(k) \subseteq {o}
    BY <2>4, <2>5
  <2>7. \A q : IsFiniteSet({q}) /\ Cardinality({q}) = 1
    BY FS_Singleton
  <2>8. ASSUME NEW q, PlacesOf(k) \subseteq {q}
        PROVE  Cardinality(PlacesOf(k)) <= 1
    <3>1. PlacesOf(k) \in SUBSET {q} /\ IsFiniteSet({q}) /\ Cardinality({q}) = 1
      BY <2>7, <2>8
    <3>2. Cardinality(PlacesOf(k)) <= Cardinality({q})
      BY <3>1, FS_Subset
    <3> QED
      BY <3>1, <3>2
  <2> QED
    BY <2>6, <2>8
<1>4. \A t \in Threads : pc[t] = "act" /\ fn[t] = "insert" => key[t] \notin Linked
  BY <1>1 DEF IInv, Calls, Finds
<1> QED
  BY <1>3, <1>4 DEF NoDuplicates

\* Whatever the threads, keys, hash function and sizes: the variables have their types, no key is
\* in two buckets and none is inserted that is there, none is deleted that is not found, the items
\* are counted, and nobody is in a request when the tables are swapped.
THEOREM TableSoundHolds == Spec => []TableSound
<1>1. IInv => TypeOK
  BY CountNotNegative DEF IInv, TypeOK
<1>2. IInv => DeleteFinds
  <2>1. SUFFICES ASSUME IInv, NEW t \in Threads, pc[t] = "act", fn[t] = "delete"
                 PROVE  key[t] \in Chosen(t)
    BY DEF DeleteFinds
  <2>2. key[t] \in Linked
    BY <2>1 DEF IInv, Calls, Finds
  <2> QED
    BY <2>1, <2>2, Looks DEF IInv
<1>3. IInv => AllPausedAtExpand
  <2>1. SUFFICES ASSUME IInv, mpc = "expand" PROVE AllPausedAtExpand
    BY DEF AllPausedAtExpand
  <2>2. DOMAIN item_lock = Buckets(ItemLockHashpower)
    BY <2>1 DEF IInv, FieldsOK
  <2> QED
    BY <2>1, <2>2, Alone DEF AllPausedAtExpand
<1>4. IInv => ItemsCounted
  BY DEF IInv
<1>5. IInv => TableSound
  BY <1>1, <1>2, <1>3, <1>4, OnePlace DEF TableSound
<1> QED
  BY <1>5, Invariance, PTL

-----------------------------------------------------------------------------
(***************************************************************************)
(* The table is the set of its items: each step does to the set what       *)
(* ItemTable says, or nothing.                                             *)
(***************************************************************************)
\* An item lock that is free and is taken: nobody asks for the key.
LEMMA BeginStep ==
  ASSUME IInv, NEW t \in Threads, NEW k \in Keys, LockItem(t, k), pc[t] \in {"event", "running"},
         UNCHANGED <<tableVars, answer>>
  PROVE  Table!Begin(t, k)
<1>1. key[t] = NoKey
  BY DEF IInv, Locking, Working
<1>2. ASSUME NEW u \in Threads PROVE key[u] # k
  <2>1. CASE Working(u)
    BY <2>1, ThreadFacts DEF IInv, Locking, LockItem
  <2>2. CASE ~Working(u)
    BY <2>2, KeysAssumption DEF IInv, Locking
  <2> QED
    BY <2>1, <2>2
<1>3. Linked' = Linked
  BY DEF Linked, tableVars
<1> QED
  BY <1>1, <1>2, <1>3 DEF LockItem, Table!Begin

LEMMA CallStep ==
  ASSUME IInv, NEW t \in Threads, InCall(t)
  PROVE  Table!Find(t) \/ Table!Insert(t) \/ Table!Delete(t) \/ Table!End(t)
           \/ UNCHANGED <<Linked, key, answer>>
<1>1. Working(t) => key[t] \in Keys /\ key[t] # NoKey
  BY KeysAssumption DEF IInv, Locking
<1>2. CASE ReadExpanding(t) \/ ChooseBucket(t) \/ InsertCount(t)
  <2>1. UNCHANGED <<tableVars, key, answer>>
    BY <1>2 DEF ReadExpanding, ChooseBucket, InsertCount, callVars
  <2> QED
    BY <2>1 DEF Linked, tableVars
<1>3. CASE assoc_find(t)
  <2>1. pc[t] = "act" /\ Working(t) /\ UNCHANGED <<tableVars, key>>
    BY <1>3 DEF assoc_find, Working
  <2>2. Linked' = Linked
    BY <2>1 DEF Linked, tableVars
  <2>3. key[t] \in Linked <=> key[t] \in Chosen(t)
    BY <2>1, Looks DEF IInv
  <2>4. answer' = [answer EXCEPT ![t] = IF key[t] \in Chosen(t) THEN "hit" ELSE "miss"]
    BY <1>3 DEF assoc_find
  <2>5. (IF key[t] \in Chosen(t) THEN "hit" ELSE "miss") = (IF key[t] \in Linked THEN "hit" ELSE "miss")
    BY <2>3
  <2>6. answer' = [answer EXCEPT ![t] = IF key[t] \in Linked THEN "hit" ELSE "miss"]
    BY <2>4, <2>5
  <2> QED
    BY <1>1, <2>1, <2>2, <2>6 DEF Table!Find
<1>4. CASE assoc_insert(t)
  <2>1. UNCHANGED <<key, answer>>
    BY <1>4 DEF assoc_insert, callVars
  <2> QED
    BY <1>4, <2>1, Invassoc_insert, KeysAssumption DEF Table!Insert
<1>5. CASE assoc_delete(t)
  <2>1. UNCHANGED <<key, answer>>
    BY <1>5 DEF assoc_delete
  <2> QED
    BY <1>5, <2>1, Invassoc_delete, KeysAssumption DEF Table!Delete
<1>6. CASE UnlockItem(t)
  <2>1. Working(t) /\ UNCHANGED tableVars
    BY <1>6 DEF UnlockItem, Working
  <2>2. Linked' = Linked
    BY <2>1 DEF Linked, tableVars
  <2> QED
    BY <1>1, <1>6, <2>1, <2>2 DEF UnlockItem, Table!End
<1> QED
  BY <1>2, <1>3, <1>4, <1>5, <1>6 DEF InCall

LEMMA TableStep ==
  IInv /\ [Next]_vars => [Table!Next]_<<Linked, key, answer>>
<1>1. SUFFICES ASSUME IInv, [Next]_vars
               PROVE  Table!Next \/ UNCHANGED <<Linked, key, answer>>
  OBVIOUS
<1>2. ASSUME NEW t \in Threads, InCall(t)
      PROVE  Table!Next \/ UNCHANGED <<Linked, key, answer>>
  BY <1>1, <1>2, CallStep DEF Table!Next
<1>3. ASSUME NEW t \in Threads, NEW k \in Requested, NEW c, Unlink(t, k, c)
      PROVE  Table!Next
  <2>1. k \in Keys /\ LockItem(t, k) /\ pc[t] \in {"event", "running"} /\ UNCHANGED <<tableVars, answer>>
    BY <1>3, KeysAssumption DEF Unlink
  <2> QED
    BY <1>1, <2>1, BeginStep DEF Table!Next
<1>4. ASSUME NEW w \in Workers, NEW k \in Requested, NEW c, Request(w, k, c)
      PROVE  Table!Next
  <2>1. k \in Keys /\ w \in Threads /\ LockItem(w, k) /\ pc[w] \in {"event", "running"}
        /\ UNCHANGED <<tableVars, answer>>
    BY <1>4, KeysAssumption DEF Request, Threads
  <2> QED
    BY <1>1, <2>1, BeginStep DEF Table!Next
<1>5. ASSUME UNCHANGED <<tableVars, callVars>>
      PROVE  UNCHANGED <<Linked, key, answer>>
  BY <1>5 DEF Linked, tableVars, callVars
<1>6. CASE \E w \in Workers : Worker(w)
  <2>1. PICK w \in Workers : Worker(w)
    BY <1>6
  <2>2. w \in Threads
    BY DEF Threads
  <2>3. CASE Register(w) \/ HangPass(w) \/ CrawlerCommand(w) \/ CrawlerCommandDone(w)
    <3>1. UNCHANGED <<tableVars, callVars>>
      BY <2>3 DEF Register, HangPass, CrawlerCommand, CrawlerCommandDone
    <3> QED
      BY <1>5, <3>1
  <2> QED
    BY <1>2, <1>3, <1>4, <2>1, <2>2, <2>3 DEF Worker
<1>7. CASE \E b \in Background : BackgroundThread(b)
  <2>1. PICK b \in Background : BackgroundThread(b)
    BY <1>7
  <2>2. b \in Threads
    BY DEF Threads
  <2>3. CASE BackgroundWake(b) \/ BackgroundSleep(b)
    <3>1. UNCHANGED <<tableVars, callVars>>
      BY <2>3 DEF BackgroundWake, BackgroundSleep
    <3> QED
      BY <1>5, <3>1
  <2> QED
    BY <1>2, <1>3, <2>1, <2>2, <2>3 DEF BackgroundThread
<1>8. CASE Maintenance
  <2>1. CASE MigrateItem \/ MigrateBucketDone \/ assoc_expand
    <3>1. UNCHANGED callVars
      BY <2>1 DEF MigrateItem, MigrateBucketDone, assoc_expand
    <3> QED
      BY <1>1, <2>1, <3>1, InvMigrateItem, InvMigrateBucketDone, Invassoc_expand DEF callVars
  <2>2. CASE ~(MigrateItem \/ MigrateBucketDone \/ assoc_expand)
    <3>1. UNCHANGED <<tableVars, callVars>>
      BY <1>8, <2>2 DEF Maintenance, MigrateLock, MaintenanceReset, MaintenanceWait, MaintenanceWake,
         PauseLock, PauseNotify, PauseDone, assoc_expand_no_memory, ResumeUnlock
    <3> QED
      BY <1>5, <3>1
  <2> QED
    BY <2>1, <2>2
<1>9. CASE SpuriousWakeup \/ UNCHANGED vars
  <2>1. UNCHANGED <<tableVars, callVars>>
    BY <1>9 DEF SpuriousWakeup, vars
  <2> QED
    BY <1>5, <2>1
<1> QED
  BY <1>1, <1>6, <1>7, <1>8, <1>9 DEF Next

\* Whatever the threads, keys, hash function and sizes, for its clients the table is a set: what
\* is moved, paused and grown in between does not show.
THEOREM TableIsSetHolds == Spec => TableIsSet
<1>1. Init => Table!Init
  <2>1. SUFFICES ASSUME Init PROVE Table!Init
    OBVIOUS
  <2>2. IInv
    BY <2>1, InitInv
  <2>3. Linked = Resident
    <3>1. Linked = {k \in Keys : InPrimary(k) \/ InOld(k)}
      BY <2>2, LinkedKeys DEF IInv
    <3>2. \A k \in Keys : Bucket(k, InitHashpower) \in Buckets(InitHashpower)
      BY HashpowerAssumption, BucketOfKey
    <3>3. \A k \in Keys : ~InOld(k) /\ (InPrimary(k) <=> k \in Resident)
      BY <2>1, <3>2 DEF Init, InOld, InPrimary
    <3> QED
      BY <3>1, <3>3, KeysAssumption
  <2> QED
    BY <2>1, <2>3 DEF Init, Table!Init
<1>2. IInv /\ [Next]_vars => [Table!Next]_Table!tableVars
  BY TableStep DEF Table!tableVars
<1> QED
  BY <1>1, <1>2, Invariance, PTL DEF Spec, TableIsSet, Table!Spec
=============================================================================
