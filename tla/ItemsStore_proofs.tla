--------------------------- MODULE ItemsStore_proofs ---------------------------
(***************************************************************************)
(* Items implements VersionedStore, for any workers, keys, chunks, values  *)
(* and settings.                                                           *)
(*                                                                         *)
(* A step of a thread concerns at most one key, whose item lock it has or  *)
(* could have (KeyOwn); under the other keys nothing happens (KeySame).    *)
(* What is in the hands of a worker or in the table keeps its data         *)
(* (Leaves, Carries), unless the step is one of the two that store a       *)
(* version (Writes).  So a step either is hidden from clients but for      *)
(* versions that vanish (QuietStep), or tells a worker's client of what is *)
(* stored (TellStep), or stores (WriteStep).                               *)
(***************************************************************************)
EXTENDS Items_proofs

-----------------------------------------------------------------------------
(* What clients rely on: the invariant beside IInv. *)

\* A worker's command and what it has told its client, with the headers I and the last cas id n.
ClientOK(d, I, n) ==
  /\ d.unique \in 0..n
  /\ \/ d.pc \in {"new_cmd", "nread", "alloc", "found", "swap", "link"}
     \/ d.pc = "reap" /\ (d.it # None \/ d.cmd = "incr")
     => d.told = None
  /\ d.told # None /\ d.told.res \in {"hit", "removed"} =>
       d.it # None /\ d.told.key = d.key /\ I[d.it].ver > 0
  /\ d.pc = "unlink" /\ d.cmd = "delete" => d.told = [res |-> "hit", key |-> d.key]
  /\ d.pc = "stale" => d.told = [res |-> "no_memory"]
  /\ d.pc = "alloc" /\ d.cmd = "incr" => I[d.old].val # Empty
  /\ d.pc = "alloc" /\ d.old # None => d.unique \in {0, I[d.old].ver}
  /\ d.pc \in {"swap", "link"} /\ d.new = None =>
       \/ d.cmd = "set" \/ (d.cmd = "add" /\ d.old = None)
       \/ d.old # None /\ (d.cmd = "replace" \/ (d.cmd = "cas" /\ I[d.old].ver = d.unique))
  /\ d.pc \in {"swap", "link"} /\ d.new # None =>
       /\ d.cmd = "append" \/ (d.cmd = "incr" /\ I[d.old].val # Empty)
       /\ I[d.new].val = Successor(I[d.old].val) /\ d.unique \in {0, I[d.old].ver}

\* An item has the version of the cas id it was stored with, which no other item has.
VersionOK(i) ==
  /\ item[i].linked => item[i].ver = item[i].cas
  /\ \A j \in Chunks : item[i].ver = item[j].ver /\ item[i].ver > 0 => i = j

SInv ==
  /\ \A w \in Workers : ClientOK(c[w], item, cas_id)
  /\ \A i \in Chunks : VersionOK(i)
-----------------------------------------------------------------------------
(* What is stored. *)

\* A worker inside a command on the key whose item it has found.
Updates(w, k) ==
  Holds(w, k) /\ c[w].key = k /\ c[w].pc # "reap" /\ c[w].old # None /\ hash[k] \in {None, c[w].old}

StoredBy(k) ==
  /\ \A w \in Workers : Updates(w, k) => StoredVersion(k) = version(c[w].old)
  /\ (\A w \in Workers : ~Updates(w, k)) =>
       StoredVersion(k) = IF Hit(k) THEN version(hash[k]) ELSE None

LEMMA StoredIs == \A k \in Keys : StoredBy(k)
<1> SUFFICES ASSUME NEW k \in Keys PROVE StoredBy(k)
  OBVIOUS
<1> DEFINE U == {w \in Workers : Updates(w, k)}
<1>1. StoredVersion(k) = CASE U # {} -> version(c[CHOOSE w \in U : TRUE].old)
                           [] U = {} /\ Hit(k) -> version(hash[k])
                           [] OTHER -> None
  BY DEF StoredVersion, Updates
<1>2. ASSUME NEW w \in Workers, Updates(w, k) PROVE StoredVersion(k) = version(c[w].old)
  <2>1. U = {w}
    BY <1>2 DEF Updates, Holds
  <2>2. (CHOOSE v \in U : TRUE) = w
    BY <2>1
  <2> HIDE DEF U
  <2> QED BY <1>1, <2>1, <2>2
<1>3. ASSUME \A w \in Workers : ~Updates(w, k)
      PROVE  StoredVersion(k) = IF Hit(k) THEN version(hash[k]) ELSE None
  <2>1. U = {}
    BY <1>3
  <2> HIDE DEF U
  <2> QED BY <1>1, <2>1
<1> QED BY <1>2, <1>3 DEF StoredBy

LEMMA StoredIsNext == \A k \in Keys : StoredBy(k)'
<1>1. (\A k \in Keys : StoredBy(k))'
  BY StoredIs, PTL
<1> QED BY <1>1
-----------------------------------------------------------------------------
(* What a step leaves of the data of the items: most leave everything, or free an item. *)

AnyHeaders ==
  [key : Keys \cup {None}, val : (0..MaxVal) \cup {Empty}, cas : Nat, ver : Nat, expired : BOOLEAN,
   lru : Queues \cup {"none"}, linked : BOOLEAN, active : BOOLEAN, refcount : Int]

SameData(h, g) == h.val = g.val /\ h.ver = g.ver /\ h.cas = g.cas /\ h.expired = g.expired /\ h.key = g.key

Leaves(I, J) ==
  /\ J \in [Chunks -> AnyHeaders]
  /\ \A i \in Chunks : \/ J[i].key = None /\ J[i].ver = 0 /\ ~J[i].linked
                       \/ SameData(J[i], I[i]) /\ (J[i].linked => I[i].linked)

\* The same, but that a free chunk may be allocated.
Carries(I, J) ==
  /\ J \in [Chunks -> AnyHeaders]
  /\ \A i \in Chunks : \/ None \in {I[i].key, J[i].key} /\ J[i].ver = 0 /\ ~J[i].linked
                       \/ SameData(J[i], I[i]) /\ (J[i].linked => I[i].linked)

LEMMA LeavesCarries == ASSUME NEW I, NEW J, Leaves(I, J) PROVE Carries(I, J)
BY DEF Leaves, Carries

LEMMA LeavesSame == ASSUME NEW I \in [Chunks -> AnyHeaders] PROVE Leaves(I, I)
BY DEF Leaves, SameData

LEMMA LeavesTrans ==
  ASSUME NEW I, NEW J, NEW K, Leaves(I, J), Leaves(J, K) PROVE Leaves(I, K)
BY DEF Leaves, SameData

LEMMA SlabbedAny == Slabbed \in AnyHeaders /\ Slabbed.key = None /\ Slabbed.ver = 0 /\ ~Slabbed.linked
BY ItemsAssumption DEF Slabbed, AnyHeaders, Empty

LEMMA HeadersAny == TypesOK => item \in [Chunks -> AnyHeaders]
BY DEF TypesOK, Headers, AnyHeaders

\* A header is changed, but not in what clients see of it.
LEMMA HeaderLeaves ==
  ASSUME NEW I \in [Chunks -> AnyHeaders], NEW i \in Chunks, NEW h \in AnyHeaders,
         h = Slabbed \/ (SameData(h, I[i]) /\ (h.linked => I[i].linked))
  PROVE  Leaves(I, [I EXCEPT ![i] = h])
<1> DEFINE J == [I EXCEPT ![i] = h]
<1>1. J \in [Chunks -> AnyHeaders] /\ J[i] = h /\ \A j \in Chunks \ {i} : J[j] = I[j]
  OBVIOUS
<1> HIDE DEF J
<1>2. ASSUME NEW j \in Chunks
      PROVE  \/ J[j].key = None /\ J[j].ver = 0 /\ ~J[j].linked
             \/ SameData(J[j], I[j]) /\ (J[j].linked => I[j].linked)
  <2>1. CASE j = i
    BY <1>1, <2>1, SlabbedAny
  <2>2. CASE j # i
    BY <1>1, <2>2 DEF SameData
  <2> QED BY <2>1, <2>2
<1> QED BY <1>1, <1>2 DEF Leaves, J

LEMMA RefLeaves ==
  ASSUME NEW I \in [Chunks -> AnyHeaders], NEW i \in Chunks PROVE Leaves(I, refcount_incr(I, i))
<1> DEFINE h == [I[i] EXCEPT !.refcount = @ + 1]
<1>1. h \in AnyHeaders /\ SameData(h, I[i]) /\ (h.linked => I[i].linked)
  BY DEF AnyHeaders, SameData
<1>2. refcount_incr(I, i) = [I EXCEPT ![i] = h]
  BY DEF refcount_incr
<1> HIDE DEF h
<1> QED BY <1>1, <1>2, HeaderLeaves

LEMMA RemoveLeaves ==
  ASSUME NEW I \in [Chunks -> AnyHeaders], NEW i \in Chunks PROVE Leaves(I, do_item_remove(I, i))
<1> DEFINE h == [I[i] EXCEPT !.refcount = @ - 1]
<1>1. h \in AnyHeaders /\ SameData(h, I[i]) /\ (h.linked => I[i].linked)
  BY DEF AnyHeaders, SameData
<1>2. do_item_remove(I, i) = [I EXCEPT ![i] = h] \/ do_item_remove(I, i) = [I EXCEPT ![i] = Slabbed]
  BY DEF do_item_remove
<1> HIDE DEF h
<1> QED BY <1>1, <1>2, HeaderLeaves, SlabbedAny

LEMMA DropLeaves ==
  ASSUME NEW I \in [Chunks -> AnyHeaders], NEW i \in Chunks \cup {None} PROVE Leaves(I, drop(I, i))
BY RemoveLeaves, LeavesSame DEF drop

LEMMA UnlinkLeaves ==
  ASSUME NEW I \in [Chunks -> AnyHeaders], NEW i \in Chunks
  PROVE  Leaves(I, [I EXCEPT ![i].linked = FALSE])
<1> DEFINE h == [I[i] EXCEPT !.linked = FALSE]
<1>1. h \in AnyHeaders /\ SameData(h, I[i]) /\ ~h.linked
  BY DEF AnyHeaders, SameData
<1>2. [I EXCEPT ![i].linked = FALSE] = [I EXCEPT ![i] = h]
  OBVIOUS
<1> HIDE DEF h
<1> QED BY <1>1, <1>2, HeaderLeaves

LEMMA UnlinkedLeaves ==
  ASSUME NEW I \in [Chunks -> AnyHeaders], NEW i \in Chunks PROVE Leaves(I, Unlinked(I, i))
<1> DEFINE J == [I EXCEPT ![i].linked = FALSE]
<1>1. Leaves(I, J) /\ J \in [Chunks -> AnyHeaders]
  BY UnlinkLeaves DEF Leaves
<1>2. Unlinked(I, i) = do_item_remove(J, i)
  BY DEF Unlinked
<1> HIDE DEF J
<1> QED BY <1>1, <1>2, RemoveLeaves, LeavesTrans

LEMMA ActiveLeaves ==
  ASSUME NEW I \in [Chunks -> AnyHeaders], NEW i \in Chunks, NEW b \in BOOLEAN
  PROVE  Leaves(I, [I EXCEPT ![i].active = b])
<1> DEFINE h == [I[i] EXCEPT !.active = b]
<1>1. h \in AnyHeaders /\ SameData(h, I[i]) /\ (h.linked => I[i].linked)
  BY DEF AnyHeaders, SameData
<1>2. [I EXCEPT ![i].active = b] = [I EXCEPT ![i] = h]
  OBVIOUS
<1> HIDE DEF h
<1> QED BY <1>1, <1>2, HeaderLeaves

LEMMA LruLeaves ==
  ASSUME NEW I \in [Chunks -> AnyHeaders], NEW i \in Chunks, NEW q \in Queues
  PROVE  Leaves(I, [I EXCEPT ![i].lru = q])
<1> DEFINE h == [I[i] EXCEPT !.lru = q]
<1>1. h \in AnyHeaders /\ SameData(h, I[i]) /\ (h.linked => I[i].linked)
  BY DEF AnyHeaders, SameData
<1>2. [I EXCEPT ![i].lru = q] = [I EXCEPT ![i] = h]
  OBVIOUS
<1> HIDE DEF h
<1> QED BY <1>1, <1>2, HeaderLeaves

\* do_item_get takes a reference, and an expired item out of the table.
LEMMA GetLeaves ==
  ASSUME IInv, NEW k \in Keys, do_item_get(k)
  PROVE  /\ Leaves(item, item')
         /\ hash' = IF hash[k] # None /\ ~Hit(k) THEN [hash EXCEPT ![k] = None] ELSE hash
<1>1. item \in [Chunks -> AnyHeaders] /\ hash \in [Keys -> Chunks \cup {None}]
  BY HeadersAny DEF IInv, TypesOK
<1>2. CASE hash[k] = None
  BY <1>1, <1>2, LeavesSame DEF do_item_get
<1>3. CASE hash[k] # None
  <2> DEFINE i == hash[k]
             J == refcount_incr(item, i)
  <2>1. i \in Chunks
    BY <1>1, <1>3
  <2>2. Leaves(item, J) /\ J \in [Chunks -> AnyHeaders]
    BY <1>1, <2>1, RefLeaves DEF Leaves
  <2> HIDE DEF J
  <2>3. Leaves(J, [J EXCEPT ![i].linked = FALSE]) /\ Leaves(J, [J EXCEPT ![i].active = TRUE])
    BY <2>1, <2>2, UnlinkLeaves, ActiveLeaves
  <2>4. CASE Expired(i)
    BY <1>3, <2>2, <2>3, <2>4, LeavesTrans DEF do_item_get, J, Hit
  <2>5. CASE ~Expired(i)
    BY <1>3, <2>2, <2>3, <2>5, LeavesTrans DEF do_item_get, J, Hit
  <2> QED BY <2>4, <2>5
<1> QED BY <1>2, <1>3
-----------------------------------------------------------------------------
(* What is held or linked keeps its data. *)

HeldKeyed(w) == \A i \in Chunks : i \in {c[w].it, c[w].old, c[w].new} => item[i].key \in Keys
TableKeyed(k) ==
  hash[k] # None => /\ hash[k] \in Chunks /\ item[hash[k]].linked
                    /\ item[hash[k]].key = k /\ item[hash[k]].key \in Keys

LEMMA Keyed == IInv => (\A w \in Workers : HeldKeyed(w)) /\ (\A k \in Keys : TableKeyed(k))
<1> SUFFICES ASSUME IInv PROVE (\A w \in Workers : HeldKeyed(w)) /\ (\A k \in Keys : TableKeyed(k))
  OBVIOUS
<1>1. ASSUME NEW w \in Workers, NEW i \in Chunks, i \in {c[w].it, c[w].old, c[w].new}
      PROVE  item[i].key \in Keys
  <2>1. WorkerOK(w) /\ i # None
    BY ItemsAssumption DEF IInv
  <2>2. c[w].pc # "new_cmd"
    BY <1>1, <2>1 DEF WorkerOK, ConnectionOK
  <2> QED BY <1>1, <2>1, <2>2 DEF WorkerOK, ConnectionOK
<1>2. ASSUME NEW k \in Keys PROVE TableKeyed(k)
  BY DEF IInv, TypesOK, TableOK, TableKeyed
<1> QED BY <1>1, <1>2 DEF HeldKeyed

LEMMA KeyedNext == IInv' => (\A w \in Workers : HeldKeyed(w)') /\ (\A k \in Keys : TableKeyed(k)')
<1>1. (IInv => (\A w \in Workers : HeldKeyed(w)) /\ (\A k \in Keys : TableKeyed(k)))'
  BY Keyed, PTL
<1> QED BY <1>1

LEMMA LeftData ==
  ASSUME Carries(item, item'), NEW i \in Chunks, {item[i].key, item'[i].key} \subseteq Keys
  PROVE  SameData(item'[i], item[i])
BY ItemsAssumption DEF Carries

LEMMA LeavesData ==
  ASSUME Leaves(item, item'), NEW i \in Chunks, item'[i].key \in Keys
  PROVE  SameData(item'[i], item[i])
BY ItemsAssumption DEF Leaves

\* The items a worker has are, for its client, what they were.
DataStays(w) ==
  \A i \in Chunks : i \in {c[w].it, c[w].old, c[w].new} =>
    item'[i].val = item[i].val /\ item'[i].ver = item[i].ver

LEMMA CarriedStays ==
  ASSUME IInv, IInv', Carries(item, item'), NEW w \in Workers,
         {c[w].it, c[w].old, c[w].new} \subseteq {c'[w].it, c'[w].old, c'[w].new, None}
  PROVE  DataStays(w)
<1>1. ASSUME NEW i \in Chunks, i \in {c[w].it, c[w].old, c[w].new}
      PROVE  item'[i].val = item[i].val /\ item'[i].ver = item[i].ver
  <2>1. HeldKeyed(w) /\ HeldKeyed(w)' /\ i # None
    BY Keyed, KeyedNext, ItemsAssumption
  <2>2. {item[i].key, item'[i].key} \subseteq Keys
    BY <1>1, <2>1 DEF HeldKeyed
  <2> QED BY <2>2, LeftData DEF SameData
<1> QED BY <1>1 DEF DataStays

LEMMA ClientData ==
  ASSUME NEW d, ConnectionOK(d), NEW I, NEW J, NEW n \in Nat, NEW m \in Nat, n <= m,
         ClientOK(d, I, n),
         \A i \in Chunks : i \in {d.it, d.old, d.new} => J[i].val = I[i].val /\ J[i].ver = I[i].ver
  PROVE  ClientOK(d, J, m)
<1>1. {d.it, d.old, d.new} \subseteq Chunks \cup {None}
  BY DEF ConnectionOK
<1>2. d.unique \in 0..m
  BY DEF ClientOK
<1>3. d.told # None /\ d.told.res \in {"hit", "removed"} => J[d.it].ver > 0
  BY <1>1 DEF ClientOK
<1>4. d.pc = "alloc" /\ d.cmd = "incr" => J[d.old].val # Empty
  BY <1>1 DEF ClientOK, ConnectionOK
<1>5. d.pc \in {"swap", "link"} /\ d.new = None =>
       \/ d.cmd = "set" \/ (d.cmd = "add" /\ d.old = None)
       \/ d.old # None /\ (d.cmd = "replace" \/ (d.cmd = "cas" /\ J[d.old].ver = d.unique))
  BY <1>1 DEF ClientOK
<1>6. d.pc \in {"swap", "link"} /\ d.new # None =>
       /\ d.cmd = "append" \/ (d.cmd = "incr" /\ J[d.old].val # Empty)
       /\ J[d.new].val = Successor(J[d.old].val) /\ d.unique \in {0, J[d.old].ver}
  <2>1. d.new # None => d.old # None
    BY DEF ConnectionOK
  <2> QED BY <1>1, <2>1 DEF ClientOK
<1>7. d.pc = "alloc" /\ d.old # None => d.unique \in {0, J[d.old].ver}
  BY <1>1 DEF ClientOK
<1> QED BY <1>2, <1>3, <1>4, <1>5, <1>6, <1>7 DEF ClientOK

LEMMA ClientKept ==
  ASSUME IInv, NEW w \in Workers, c'[w] = c[w], DataStays(w), ClientOK(c[w], item, cas_id),
         cas_id' \in Nat, cas_id' >= cas_id
  PROVE  ClientOK(c'[w], item', cas_id')
<1>1. ConnectionOK(c[w]) /\ cas_id \in Nat
  BY DEF IInv, WorkerOK, TypesOK
<1>2. ClientOK(c[w], item', cas_id')
  BY <1>1, ClientData DEF DataStays
<1> QED BY <1>2

LEMMA AnswerKept ==
  ASSUME IInv, NEW w \in Workers, c'[w].told = c[w].told, c'[w].it = c[w].it,
         \A i \in Chunks : i = c[w].it => item'[i].val = item[i].val /\ item'[i].ver = item[i].ver,
         ClientOK(c[w], item, cas_id)
  PROVE  Answer(w)' = Answer(w)
<1> DEFINE told == c[w].told
<1>1. CASE told = None \/ told.res \notin {"hit", "miss", "removed"}
  BY <1>1 DEF Answer
<1>2. CASE told # None /\ told.res = "miss"
  BY <1>2 DEF Answer
<1>3. CASE told # None /\ told.res \in {"hit", "removed"}
  <2>1. c[w].it \in Chunks
    BY <1>3 DEF ClientOK, IInv, WorkerOK, ConnectionOK
  <2>2. version(c[w].it)' = version(c[w].it)
    BY <2>1 DEF version
  <2> QED BY <1>3, <2>2 DEF Answer
<1> QED BY <1>1, <1>2, <1>3

Quiet == cas_id' = cas_id /\ Leaves(item, item')
OthersStay(t) == \A v \in Workers \ {t} : c'[v] = c[v]

LEMMA VersionsQuiet ==
  ASSUME IInv, SInv, Carries(item, item') PROVE \A i \in Chunks : VersionOK(i)'
<1>1. ASSUME NEW i \in Chunks PROVE item'[i].linked => item'[i].ver = item'[i].cas
  BY DEF Carries, SInv, VersionOK, SameData
<1>2. ASSUME NEW i \in Chunks PROVE item'[i].ver = 0 \/ item'[i].ver = item[i].ver
  BY DEF Carries, SameData
<1>3. ASSUME NEW i \in Chunks, NEW j \in Chunks, item'[i].ver = item'[j].ver, item'[i].ver > 0
      PROVE  i = j
  BY <1>2, <1>3 DEF SInv, VersionOK
<1> QED BY <1>1, <1>3 DEF VersionOK
-----------------------------------------------------------------------------
(* What is stored under a key after a step of thread t. *)

Upd(t, k) == t \in Workers /\ Updates(t, k)

\* The key is none of the step's.
KeySame(t, k) ==
  /\ hash'[k] = hash[k] /\ item_lock'[k] = item_lock[k]
  /\ Upd(t, k)' <=> Upd(t, k)
  /\ Upd(t, k) => c'[t].old = c[t].old

\* The step has the lock of the key, or could.
KeyOwn(t, k) ==
  /\ {item_lock[k], item_lock'[k]} \subseteq {None, t}
  /\ hash'[k] \in {hash[k], None}
  /\ Upd(t, k)' => IF Upd(t, k) THEN c'[t].old = c[t].old ELSE Hit(k) /\ c'[t].old = hash[k]

\* An item that is found, or in the table, is the same version as before.
LEMMA LeftVersion ==
  ASSUME IInv', Carries(item, item'), NEW i \in Chunks,
         {item[i].key, item'[i].key} \subseteq Keys
  PROVE  version(i)' = version(i) /\ item'[i].expired = item[i].expired
BY LeftData DEF version, SameData

LEMMA LeftHit ==
  ASSUME IInv, IInv', Carries(item, item'), NEW k \in Keys, hash'[k] = hash[k]
  PROVE  /\ Hit(k)' <=> Hit(k)
         /\ Hit(k) => version(hash[k])' = version(hash[k])
<1>1. CASE hash[k] = None
  BY <1>1 DEF Hit
<1>2. CASE hash[k] # None
  <2>1. hash[k] \in Chunks /\ {item[hash[k]].key, item'[hash[k]].key} \subseteq Keys
    BY <1>2, Keyed, KeyedNext DEF TableKeyed
  <2>2. version(hash[k])' = version(hash[k]) /\ item'[hash[k]].expired = item[hash[k]].expired
    <3>1. PICK i \in Chunks : i = hash[k] /\ i = hash'[k]
      BY <2>1
    <3>2. version(i)' = version(i) /\ item'[i].expired = item[i].expired
      BY <2>1, <3>1, LeftVersion
    <3> QED BY <3>1, <3>2 DEF version
  <2> QED BY <1>2, <2>2 DEF Hit, Expired
<1> QED BY <1>1, <1>2

LEMMA LeftOld ==
  ASSUME IInv, IInv', Carries(item, item'), NEW w \in Workers, NEW k \in Keys, Updates(w, k)',
         NEW i \in {c[w].old, hash[k]}, c'[w].old = i
  PROVE  i \in Chunks /\ version(c[w].old)' = version(i)
<1>1. i # None /\ i \in Chunks
  BY DEF Updates, IInv, WorkerOK, ConnectionOK
<1>2. {item[i].key, item'[i].key} \subseteq Keys
  <2>1. item[i].key \in Keys
    BY <1>1, Keyed DEF HeldKeyed, TableKeyed
  <2> QED BY <1>1, <2>1, KeyedNext DEF HeldKeyed
<1>3. version(i)' = version(i)
  BY <1>1, <1>2, LeftVersion
<1> QED BY <1>1, <1>3 DEF version

LEMMA KeySameKept ==
  ASSUME IInv, IInv', NEW t, OthersStay(t), Carries(item, item'), NEW k \in Keys, KeySame(t, k)
  PROVE  StoredVersion(k)' = StoredVersion(k)
<1>1. \A w \in Workers : /\ Updates(w, k)' <=> Updates(w, k)
                         /\ Updates(w, k) => c'[w].old = c[w].old
  BY DEF OthersStay, KeySame, Upd, Updates, Holds
<1>2. StoredBy(k) /\ StoredBy(k)'
  BY StoredIs, StoredIsNext
<1>3. CASE \E w \in Workers : Updates(w, k)
  <2>1. PICK w \in Workers : Updates(w, k)
    BY <1>3
  <2>2. Updates(w, k)' /\ c'[w].old = c[w].old
    BY <1>1, <2>1
  <2>3. version(c[w].old)' = version(c[w].old)
    BY <2>2, LeftOld
  <2> QED BY <1>2, <2>1, <2>2, <2>3 DEF StoredBy
<1>4. CASE \A w \in Workers : ~Updates(w, k)
  <2>1. \A w \in Workers : ~Updates(w, k)'
    BY <1>1, <1>4
  <2>2. hash'[k] = hash[k]
    BY DEF KeySame
  <2>3. /\ Hit(k)' <=> Hit(k)
        /\ Hit(k) => version(hash[k])' = version(hash[k])
    BY <2>2, LeftHit
  <2> QED BY <1>2, <1>4, <2>1, <2>3 DEF StoredBy
<1> QED BY <1>3, <1>4

LEMMA KeyOwnKept ==
  ASSUME IInv, IInv', NEW t, OthersStay(t), Carries(item, item'), NEW k \in Keys, KeyOwn(t, k)
  PROVE  /\ StoredVersion(k)' \in {StoredVersion(k), None}
         /\ \/ Upd(t, k)'
            \/ ~Upd(t, k) /\ (hash'[k] = hash[k] \/ ~Hit(k))
            => StoredVersion(k)' = StoredVersion(k)
<1>1. \A w \in Workers : /\ Updates(w, k) => w = t
                         /\ Updates(w, k)' => w = t
  BY ItemsAssumption DEF KeyOwn, Updates, Holds, Threads
<1>2. StoredBy(k) /\ StoredBy(k)'
  BY StoredIs, StoredIsNext
<1>3. CASE Upd(t, k)'
  <2>1. t \in Workers /\ Updates(t, k)'
    BY <1>3 DEF Upd
  <2>2. StoredVersion(k)' = version(c[t].old)'
    BY <1>2, <2>1 DEF StoredBy
  <2>3. CASE Upd(t, k)
    <3>1. Updates(t, k) /\ c'[t].old = c[t].old
      BY <1>3, <2>3 DEF Upd, KeyOwn
    <3>2. version(c[t].old)' = version(c[t].old)
      BY <2>1, <3>1, LeftOld
    <3> QED BY <1>2, <2>1, <2>2, <3>1, <3>2 DEF StoredBy
  <2>4. CASE ~Upd(t, k)
    <3>1. Hit(k) /\ c'[t].old = hash[k]
      BY <1>3, <2>4 DEF KeyOwn
    <3>2. \A w \in Workers : ~Updates(w, k)
      BY <1>1, <2>1, <2>4 DEF Upd
    <3>3. version(c[t].old)' = version(hash[k])
      BY <2>1, <3>1, LeftOld
    <3> QED BY <1>2, <2>2, <3>1, <3>2, <3>3 DEF StoredBy
  <2> QED BY <2>3, <2>4
<1>4. CASE ~Upd(t, k)'
  <2>1. \A w \in Workers : ~Updates(w, k)'
    BY <1>1, <1>4 DEF Upd
  <2>2. StoredVersion(k)' = IF Hit(k)' THEN version(hash[k])' ELSE None
    BY <1>2, <2>1 DEF StoredBy
  <2>3. CASE ~Hit(k)'
    <3>1. StoredVersion(k)' = None
      BY <2>2, <2>3
    <3>2. ~Upd(t, k) /\ (hash'[k] = hash[k] \/ ~Hit(k)) => StoredVersion(k) = None
      <4>1. SUFFICES ASSUME ~Upd(t, k), hash'[k] = hash[k] \/ ~Hit(k) PROVE StoredVersion(k) = None
        OBVIOUS
      <4>2. \A w \in Workers : ~Updates(w, k)
        BY <1>1, <4>1 DEF Upd
      <4>3. ~Hit(k)
        BY <2>3, <4>1, LeftHit
      <4> QED BY <1>2, <4>2, <4>3 DEF StoredBy
    <3> QED BY <1>4, <3>1, <3>2
  <2>4. CASE Hit(k)'
    <3>1. hash'[k] = hash[k] /\ hash[k] # None
      BY <2>4 DEF Hit, KeyOwn
    <3>2. Hit(k) /\ version(hash[k])' = version(hash[k])
      BY <2>4, <3>1, LeftHit
    <3>3. CASE Upd(t, k)
      <4>1. Updates(t, k) /\ t \in Workers /\ c[t].old = hash[k]
        BY <3>1, <3>3 DEF Upd, Updates
      <4>2. StoredVersion(k) = version(c[t].old)
        BY <1>2, <4>1 DEF StoredBy
      <4> QED BY <2>2, <2>4, <3>2, <4>1, <4>2, <1>4, <3>3
    <3>4. CASE ~Upd(t, k)
      <4>1. \A w \in Workers : ~Updates(w, k)
        BY <1>1, <3>4 DEF Upd
      <4> QED BY <1>2, <2>2, <2>4, <3>2, <4>1 DEF StoredBy
    <3> QED BY <3>3, <3>4
  <2> QED BY <2>3, <2>4
<1> QED BY <1>3, <1>4

-----------------------------------------------------------------------------
(* Steps of the abstract store. *)

StoreStep == [Promised!Next]_(Promised!storeVars)

\* What is stored vanishes or stays, and at most an answer has been given.
LEMMA Lazy ==
  ASSUME NEW t, cas_id' = cas_id,
         \A k \in Keys : StoredVersion(k)' \in {StoredVersion(k), None},
         \A w \in Workers \ {t} : Answer(w)' = Answer(w),
         t \in Workers => Answer(t)' \in {Answer(t), None}
  PROVE  StoreStep
<1> DEFINE K == {k \in Keys : StoredVersion(k)' = None}
           store == [k \in Keys |-> StoredVersion(k)]
           told == [w \in Workers |-> Answer(w)]
<1>1. K \in SUBSET Keys /\ store' = [k \in Keys |-> IF k \in K THEN None ELSE store[k]]
  OBVIOUS
<1>2. Promised!Vanish(K)
  BY <1>1 DEF Promised!Vanish
<1>3. CASE t \in Workers /\ Answer(t)' # Answer(t)
  <2>1. told[t] # None /\ told' = [told EXCEPT ![t] = None]
    BY <1>3
  <2>2. Promised!Answered(t)
    BY <1>1, <1>2, <2>1 DEF Promised!Answered
  <2> QED BY <1>3, <2>2 DEF StoreStep, Promised!Next
<1>4. CASE ~(t \in Workers /\ Answer(t)' # Answer(t))
  <2>1. told' = told
    BY <1>4
  <2> QED BY <1>1, <1>2, <2>1 DEF StoreStep, Promised!Next
<1> QED BY <1>3, <1>4

\* A step that clients do not see.
LEMMA QuietStep ==
  ASSUME IInv, SInv, IInv', NEW t, OthersStay(t), cas_id' = cas_id, Carries(item, item'),
         \A k \in Keys : KeySame(t, k) \/ KeyOwn(t, k),
         t \in Workers => ClientOK(c'[t], item', cas_id) /\ Answer(t)' \in {Answer(t), None}
  PROVE  SInv' /\ StoreStep
<1>1. Carries(item, item') /\ cas_id' = cas_id /\ cas_id \in Nat
  BY DEF IInv, TypesOK
<1>2. ASSUME NEW w \in Workers \ {t}
      PROVE  ClientOK(c'[w], item', cas_id') /\ Answer(w)' = Answer(w)
  <2>1. c'[w] = c[w] /\ w \in Workers
    BY DEF OthersStay
  <2>2. DataStays(w)
    BY <1>1, <2>1, CarriedStays
  <2>3. ClientOK(c[w], item, cas_id)
    BY DEF SInv
  <2> QED BY <1>1, <2>1, <2>2, <2>3, ClientKept, AnswerKept DEF DataStays
<1>3. SInv'
  <2>1. \A i \in Chunks : VersionOK(i)'
    BY <1>1, VersionsQuiet
  <2>2. ASSUME NEW w \in Workers PROVE ClientOK(c'[w], item', cas_id')
    BY <1>1, <1>2
  <2> QED BY <2>1, <2>2 DEF SInv
<1>4. \A k \in Keys : StoredVersion(k)' \in {StoredVersion(k), None}
  BY <1>1, KeySameKept, KeyOwnKept
<1> QED BY <1>1, <1>2, <1>3, <1>4, Lazy

\* A worker tells its client of what is stored.
StoreSame ==
  /\ [k \in Keys |-> StoredVersion(k)]' = [k \in Keys |-> StoredVersion(k)]
  /\ cas_id' = cas_id
Tells(w) ==
  /\ Answer(w) = None
  /\ [v \in Workers |-> Answer(v)]' = [[v \in Workers |-> Answer(v)] EXCEPT ![w] = Answer(w)']

LEMMA TellStep ==
  ASSUME IInv, SInv, IInv', NEW w \in Workers, OthersStay(w), cas_id' = cas_id, Carries(item, item'),
         \A k \in Keys : \/ KeySame(w, k)
                         \/ /\ KeyOwn(w, k)
                            /\ Upd(w, k)' \/ (~Upd(w, k) /\ (hash'[k] = hash[k] \/ ~Hit(k))),
         ClientOK(c'[w], item', cas_id), c[w].told = None
  PROVE  SInv' /\ StoreSame /\ Tells(w)
<1>1. Carries(item, item') /\ cas_id' = cas_id /\ cas_id \in Nat
  BY DEF IInv, TypesOK
<1>2. ASSUME NEW v \in Workers \ {w}
      PROVE  ClientOK(c'[v], item', cas_id') /\ Answer(v)' = Answer(v)
  <2>1. c'[v] = c[v] /\ v \in Workers
    BY DEF OthersStay
  <2>2. DataStays(v)
    BY <1>1, <2>1, CarriedStays
  <2>3. ClientOK(c[v], item, cas_id)
    BY DEF SInv
  <2> QED BY <1>1, <2>1, <2>2, <2>3, ClientKept, AnswerKept DEF DataStays
<1>3. SInv'
  <2>1. \A i \in Chunks : VersionOK(i)'
    BY <1>1, VersionsQuiet
  <2>2. ASSUME NEW v \in Workers PROVE ClientOK(c'[v], item', cas_id')
    BY <1>1, <1>2
  <2> QED BY <2>1, <2>2 DEF SInv
<1>4. \A k \in Keys : StoredVersion(k)' = StoredVersion(k)
  BY <1>1, KeySameKept, KeyOwnKept
<1>5. Answer(w) = None
  BY DEF Answer
<1> QED BY <1>1, <1>2, <1>3, <1>4, <1>5 DEF StoreSame, Tells

-----------------------------------------------------------------------------
(* Steps of a worker at key k. *)

OwnKey(w, k) ==
  /\ OthersStay(w) /\ Quiet
  /\ \A l \in Keys \ {k} : hash'[l] = hash[l] /\ item_lock'[l] = item_lock[l]
  /\ c[w].old # None => c[w].key = k
  /\ c'[w].old # None => c'[w].key = k

\* What the worker has told stands, or its answer has been given.
Silent(w) ==
  \/ c'[w].told = None
  \/ c'[w].told = c[w].told /\ (c'[w].it = c[w].it \/ c[w].told = [res |-> "no_memory"])

LEMMA OwnKeySame ==
  ASSUME NEW w \in Workers, NEW k \in Keys, OwnKey(w, k)
  PROVE  \A l \in Keys \ {k} : KeySame(w, l)
BY DEF OwnKey, KeySame, Upd, Updates, Holds

LEMMA OwnClient ==
  ASSUME IInv, IInv', NEW w \in Workers, Leaves(item, item'), ClientOK(c'[w], item, cas_id)
  PROVE  ClientOK(c'[w], item', cas_id)
<1>1. ConnectionOK(c'[w]) /\ cas_id \in Nat
  BY DEF IInv, WorkerOK, TypesOK
<1>2. ASSUME NEW i \in Chunks, i \in {c'[w].it, c'[w].old, c'[w].new}
      PROVE  item'[i].val = item[i].val /\ item'[i].ver = item[i].ver
  <2>1. item'[i].key \in Keys
    BY <1>2, KeyedNext DEF HeldKeyed
  <2> QED BY <2>1, LeavesData DEF SameData
<1> QED BY <1>1, <1>2, ClientData

LEMMA WorkerQuiet ==
  ASSUME IInv, SInv, IInv', NEW w \in Workers, NEW k \in Keys, OwnKey(w, k),
         KeySame(w, k) \/ KeyOwn(w, k),
         ClientOK(c'[w], item, cas_id), Silent(w)
  PROVE  SInv' /\ StoreStep
<1>1. OthersStay(w) /\ Quiet /\ Leaves(item, item') /\ ClientOK(c[w], item, cas_id)
  BY DEF OwnKey, Quiet, SInv
<1>2. \A l \in Keys : KeySame(w, l) \/ KeyOwn(w, l)
  BY OwnKeySame
<1>3. Answer(w)' \in {Answer(w), None}
  <2>1. CASE c'[w].told = None
    BY <2>1 DEF Answer
  <2>2. CASE c'[w].told = c[w].told /\ c'[w].it = c[w].it
    <3>1. ASSUME NEW i \in Chunks, i = c[w].it
          PROVE  item'[i].val = item[i].val /\ item'[i].ver = item[i].ver
      <4>1. item'[i].key \in Keys
        BY <2>2, <3>1, KeyedNext DEF HeldKeyed
      <4> QED BY <1>1, <4>1, LeavesData DEF SameData
    <3> QED BY <1>1, <2>2, <3>1, AnswerKept
  <2>3. CASE c'[w].told = c[w].told /\ c[w].told = [res |-> "no_memory"]
    BY <2>3 DEF Answer
  <2> QED BY <2>1, <2>2, <2>3 DEF Silent
<1>4. ClientOK(c'[w], item', cas_id)
  BY <1>1, OwnClient
<1> QED BY <1>1, <1>2, <1>3, <1>4, LeavesCarries, QuietStep DEF Quiet

LEMMA WorkerTells ==
  ASSUME IInv, SInv, IInv', NEW w \in Workers, NEW k \in Keys, OwnKey(w, k),
         \/ KeySame(w, k)
         \/ /\ KeyOwn(w, k)
            /\ Upd(w, k)' \/ (~Upd(w, k) /\ (hash'[k] = hash[k] \/ ~Hit(k))),
         ClientOK(c'[w], item, cas_id), c[w].told = None
  PROVE  SInv' /\ StoreSame /\ Tells(w)
<1>1. OthersStay(w) /\ Quiet /\ Leaves(item, item')
  BY DEF OwnKey, Quiet
<1>2. \A l \in Keys \ {k} : KeySame(w, l)
  BY OwnKeySame
<1>3. ClientOK(c'[w], item', cas_id)
  BY <1>1, OwnClient
<1> QED BY <1>1, <1>2, <1>3, LeavesCarries, TellStep DEF Quiet

\* Only the connection changes, and its command goes on.
ClientOnly(w) ==
  /\ OthersStay(w) /\ UNCHANGED <<item, hash, cas_id, item_lock>>
  /\ c'[w].old = c[w].old
  /\ c[w].old # None => c'[w].key = c[w].key /\ c[w].pc # "reap" /\ c'[w].pc # "reap"

LEMMA ClientOnlyOwn ==
  ASSUME IInv, NEW w \in Workers, ClientOnly(w)
  PROVE  \E k \in Keys : OwnKey(w, k) /\ KeySame(w, k)
<1>1. PICK k \in Keys : c[w].old # None => c[w].key = k
  <2>1. CASE c[w].old # None
    BY <2>1 DEF IInv, WorkerOK, ConnectionOK
  <2>2. CASE c[w].old = None
    BY <2>2, ItemsAssumption
  <2> QED BY <2>1, <2>2
<1>2. Quiet
  BY HeadersAny, LeavesSame DEF IInv, Quiet, ClientOnly
<1>3. OwnKey(w, k)
  BY <1>1, <1>2 DEF ClientOnly, OwnKey
<1>4. KeySame(w, k)
  BY DEF KeySame, ClientOnly, Upd, Updates, Holds
<1> QED BY <1>3, <1>4

LEMMA ClientQuiet ==
  ASSUME IInv, SInv, IInv', NEW w \in Workers, ClientOnly(w), ClientOK(c'[w], item, cas_id), Silent(w)
  PROVE  SInv' /\ StoreStep
BY ClientOnlyOwn, WorkerQuiet

LEMMA ClientTells ==
  ASSUME IInv, SInv, IInv', NEW w \in Workers, ClientOnly(w), ClientOK(c'[w], item, cas_id),
         c[w].told = None
  PROVE  SInv' /\ StoreSame /\ Tells(w)
BY ClientOnlyOwn, WorkerTells

-----------------------------------------------------------------------------
(* Steps that change a connection only. *)

LEMMA FormatStore ==
  ASSUME IInv, SInv, IInv', NEW w \in Workers, Format(w) PROVE SInv' /\ StoreStep
<1>1. IsTable(c) /\ IsConnection(c[w]) /\ WorkerOK(w) /\ ClientOK(c[w], item, cas_id)
  BY DEF IInv, TypesOK, SInv
<1>2. /\ OthersStay(w) /\ UNCHANGED <<item, hash, cas_id, item_lock>>
      /\ c[w].pc \in {"got", "format"} /\ c'[w].pc = "drop" /\ c'[w].told = c[w].told
      /\ c'[w].it = c[w].it /\ c'[w].old = c[w].old /\ c'[w].key = c[w].key /\ c'[w].unique = c[w].unique
  BY <1>1 DEF Format, Running, OthersStay, IsTable, IsConnection, Fields
<1>3. ClientOnly(w) /\ Silent(w)
  BY <1>1, <1>2 DEF ClientOnly, Silent
<1>4. ClientOK(c'[w], item, cas_id)
  BY <1>1, <1>2 DEF ClientOK
<1> QED BY <1>3, <1>4, ClientQuiet

LEMMA RepliedStore ==
  ASSUME IInv, SInv, IInv', NEW w \in Workers, Replied(w) PROVE SInv' /\ StoreStep
<1>1. IsTable(c) /\ WorkerOK(w) /\ cas_id \in Nat
  BY DEF IInv, TypesOK
<1>2. /\ OthersStay(w) /\ UNCHANGED <<item, hash, cas_id, item_lock>>
      /\ c[w].pc = "done" /\ c'[w] = Connection
  BY <1>1 DEF Replied, Running, OthersStay, IsTable
<1>3. ClientOnly(w) /\ Silent(w)
  BY <1>1, <1>2 DEF ClientOnly, Silent, Connection, WorkerOK, ConnectionOK
<1>4. ClientOK(c'[w], item, cas_id)
  BY <1>1, <1>2 DEF ClientOK, Connection
<1> QED BY <1>3, <1>4, ClientQuiet

LEMMA UpdateStore ==
  ASSUME IInv, SInv, IInv', NEW w \in Workers, NEW k \in Keys, Update(w, k) PROVE SInv' /\ StoreStep
<1>1. IsTable(c) /\ WorkerOK(w) /\ cas_id \in Nat
  BY DEF IInv, TypesOK
<1>2. /\ OthersStay(w) /\ UNCHANGED <<item, hash, cas_id, item_lock>> /\ c[w].pc = "new_cmd"
      /\ c'[w].pc = "alloc" /\ c'[w].old = None /\ c'[w].told = None /\ c'[w].cmd = "none"
      /\ c'[w].unique = 0
  BY <1>1 DEF Update, NewCommand, Running, OthersStay, IsTable, Connection
<1>3. ClientOnly(w) /\ Silent(w)
  BY <1>1, <1>2 DEF ClientOnly, Silent, WorkerOK, ConnectionOK
<1>4. ClientOK(c'[w], item, cas_id)
  BY <1>1, <1>2 DEF ClientOK
<1> QED BY <1>3, <1>4, ClientQuiet

LEMMA AllocFailsStore ==
  ASSUME IInv, SInv, IInv', NEW w \in Workers, slabs_alloc_fails(w) \/ AllocPull(w)
  PROVE  SInv' /\ StoreStep
<1>1. IsTable(c) /\ IsConnection(c[w]) /\ ClientOK(c[w], item, cas_id)
  BY DEF IInv, TypesOK, SInv
<1>2. /\ OthersStay(w) /\ UNCHANGED <<item, hash, cas_id, item_lock>>
      /\ c[w].pc = "alloc" /\ c'[w].pc = "alloc" /\ c'[w].cmd = c[w].cmd /\ c'[w].key = c[w].key
      /\ c'[w].it = c[w].it /\ c'[w].old = c[w].old /\ c'[w].told = c[w].told /\ c'[w].unique = c[w].unique
  <2>1. CASE slabs_alloc_fails(w)
    BY <1>1, <2>1 DEF slabs_alloc_fails, Running, OthersStay, IsTable, IsConnection, Fields
  <2>2. CASE AllocPull(w)
    BY <1>1, <2>2 DEF AllocPull, Running, OthersStay, IsTable, IsConnection, Fields
  <2> QED BY <2>1, <2>2
<1>3. ClientOnly(w) /\ Silent(w)
  BY <1>1, <1>2 DEF ClientOnly, Silent
<1>4. ClientOK(c'[w], item, cas_id)
  BY <1>1, <1>2 DEF ClientOK
<1> QED BY <1>3, <1>4, ClientQuiet

LEMMA AbandonStore ==
  ASSUME IInv, SInv, IInv', NEW w \in Workers, Abandon(w) PROVE SInv' /\ StoreStep
<1>1. IsTable(c) /\ IsConnection(c[w]) /\ ClientOK(c[w], item, cas_id)
  BY DEF IInv, TypesOK, SInv
<1>2. /\ OthersStay(w) /\ UNCHANGED <<item, hash, cas_id, item_lock>>
      /\ c[w].pc = "nread" /\ c'[w].pc = "drop" /\ c'[w].key = c[w].key
      /\ c'[w].it = c[w].it /\ c'[w].old = c[w].old /\ c'[w].told = c[w].told /\ c'[w].unique = c[w].unique
  BY <1>1 DEF Abandon, Running, OthersStay, IsTable, IsConnection, Fields
<1>3. ClientOnly(w) /\ Silent(w)
  BY <1>1, <1>2 DEF ClientOnly, Silent
<1>4. ClientOK(c'[w], item, cas_id)
  BY <1>1, <1>2 DEF ClientOK
<1> QED BY <1>3, <1>4, ClientQuiet

\* A worker that has found an item under its key.
LEMMA FoundUpd ==
  ASSUME IInv, NEW w \in Workers, c[w].pc \in {"found", "alloc", "swap", "link"}, c[w].old # None
  PROVE  /\ c[w].key \in Keys /\ item_lock[c[w].key] = w /\ Upd(w, c[w].key) /\ c[w].old \in Chunks
         /\ c[w].pc \in {"found", "alloc"} =>
              hash[c[w].key] = c[w].old /\ item[c[w].old].linked
<1>1. WorkerOK(w) /\ TableOK
  BY DEF IInv
<1>2. /\ c[w].key \in Keys /\ item_lock[c[w].key] = w /\ c[w].old \in Chunks
      /\ c[w].pc \in {"found", "alloc"} => hash[c[w].key] = c[w].old
      /\ c[w].pc \in {"swap", "link"} => hash[c[w].key] = None
  BY <1>1 DEF WorkerOK, ConnectionOK, Commands, Locked
<1>3. Upd(w, c[w].key)
  BY <1>2 DEF Upd, Updates, Holds
<1> QED BY <1>1, <1>2, <1>3 DEF TableOK

\* append, and an incr that cannot be done in place, go and allocate.
LEMMA CombineStore ==
  ASSUME IInv, SInv, IInv', NEW w \in Workers, store_append(w) \/ delta_replace(w)
  PROVE  SInv' /\ StoreStep
<1>1. IsTable(c) /\ IsConnection(c[w]) /\ ClientOK(c[w], item, cas_id)
  BY DEF IInv, TypesOK, SInv
<1>2. /\ OthersStay(w) /\ UNCHANGED <<item, hash, cas_id, item_lock>>
      /\ c[w].pc = "found" /\ c'[w].pc = "alloc" /\ c'[w].cmd = c[w].cmd /\ c'[w].key = c[w].key
      /\ c'[w].it = c[w].it /\ c'[w].old = c[w].old /\ c'[w].told = c[w].told /\ c'[w].unique = c[w].unique
      /\ c[w].cmd = "append" \/ item[c[w].old].val # Empty
  <2>1. CASE store_append(w)
    BY <1>1, <2>1 DEF store_append, Combine, Found, Running, OthersStay, IsTable, IsConnection, Fields
  <2>2. CASE delta_replace(w)
    BY <1>1, <2>2 DEF delta_replace, Combine, Found, Running, OthersStay, IsTable, IsConnection, Fields
  <2> QED BY <2>1, <2>2
<1>3. ClientOnly(w) /\ Silent(w)
  BY <1>1, <1>2 DEF ClientOnly, Silent
<1>4. c[w].old # None /\ c[w].unique \in {0, item[c[w].old].ver}
  <2>1. c[w].old # None /\ c[w].unique \in {0, item[c[w].old].cas}
    BY DEF store_append, delta_replace, Found, Refused
  <2>2. item[c[w].old].linked /\ c[w].old \in Chunks
    BY <1>2, <2>1, FoundUpd
  <2> QED BY <2>1, <2>2 DEF SInv, VersionOK
<1>5. ClientOK(c'[w], item, cas_id)
  BY <1>1, <1>2, <1>4 DEF ClientOK
<1> QED BY <1>3, <1>5, ClientQuiet

LEMMA RefreshStore ==
  ASSUME IInv, SInv, IInv', NEW w \in Workers,
         \/ Relink(w) /\ c[w].pc = "refresh"
         \/ RelinkDone(w) /\ c[w].pc = "relink_refresh"
  PROVE  SInv' /\ StoreStep
<1>1. IsTable(c) /\ IsConnection(c[w]) /\ ClientOK(c[w], item, cas_id)
  BY DEF IInv, TypesOK, SInv
<1>2. /\ OthersStay(w) /\ UNCHANGED <<item, hash, cas_id, item_lock>>
      /\ c[w].pc \in {"refresh", "relink_refresh"} /\ c'[w].pc \in {"relink_refresh", "release"}
      /\ c'[w].key = c[w].key
      /\ c'[w].it = c[w].it /\ c'[w].old = c[w].old /\ c'[w].told = c[w].told /\ c'[w].unique = c[w].unique
  <2>1. CASE Relink(w) /\ c[w].pc = "refresh"
    BY <1>1, <2>1 DEF Relink, OthersStay, IsTable, IsConnection, Fields
  <2>2. CASE RelinkDone(w) /\ c[w].pc = "relink_refresh"
    BY <1>1, <2>2 DEF RelinkDone, OthersStay, IsTable, IsConnection, Fields
  <2> QED BY <2>1, <2>2
<1>3. ClientOnly(w) /\ Silent(w)
  BY <1>1, <1>2 DEF ClientOnly, Silent
<1>4. ClientOK(c'[w], item, cas_id)
  BY <1>1, <1>2 DEF ClientOK
<1> QED BY <1>3, <1>4, ClientQuiet

-----------------------------------------------------------------------------
(* Steps under the lock of the key, or that take it or give it back. *)

\* A key whose lock the worker has or takes, with nothing found under it.
LEMMA OwnNone ==
  ASSUME IInv, NEW w \in Workers, NEW k \in Keys,
         {item_lock[k], item_lock'[k]} \subseteq {None, w}, hash'[k] \in {hash[k], None},
         c[w].old = None \/ c[w].pc = "reap", c'[w].old = None \/ c'[w].pc = "reap"
  PROVE  KeyOwn(w, k) /\ ~Upd(w, k) /\ ~Upd(w, k)'
BY DEF KeyOwn, Upd, Updates

LEMMA LockSteps ==
  ASSUME IInv, NEW k \in Keys, NEW t, Lock(t, k) \/ Unlock(k) \/ UNCHANGED item_lock
  PROVE  /\ \A l \in Keys \ {k} : item_lock'[l] = item_lock[l]
         /\ Lock(t, k) => item_lock[k] = None /\ item_lock'[k] = t
         /\ Unlock(k) => item_lock'[k] = None
BY DEF Lock, Unlock, IInv, TypesOK

LEMMA RelinkGotStore ==
  ASSUME IInv, SInv, IInv', NEW w \in Workers,
         \/ Relink(w) /\ c[w].pc = "got"
         \/ RelinkDone(w) /\ c[w].pc = "relink_got"
  PROVE  SInv' /\ StoreStep
<1>1. IsTable(c) /\ IsConnection(c[w]) /\ ClientOK(c[w], item, cas_id) /\ WorkerOK(w)
  BY DEF IInv, TypesOK, SInv
<1>2. /\ OthersStay(w) /\ UNCHANGED <<item, hash, cas_id>>
      /\ c[w].pc \in {"got", "relink_got"} /\ c'[w].pc \in {"relink_got", "format"}
      /\ c'[w].key = c[w].key /\ (c[w].pc = "got" => Lock(w, c[w].key))
      /\ c[w].pc = "relink_got" => Unlock(c[w].key)
      /\ c'[w].it = c[w].it /\ c'[w].old = c[w].old /\ c'[w].told = c[w].told /\ c'[w].unique = c[w].unique
  <2>1. CASE Relink(w) /\ c[w].pc = "got"
    BY <1>1, <2>1 DEF Relink, OthersStay, IsTable, IsConnection, Fields
  <2>2. CASE RelinkDone(w) /\ c[w].pc = "relink_got"
    BY <1>1, <2>2 DEF RelinkDone, OthersStay, IsTable, IsConnection, Fields
  <2> QED BY <2>1, <2>2
<1>3. PICK k \in Keys : k = c[w].key /\ c[w].old = None
  BY <1>1, <1>2 DEF WorkerOK, ConnectionOK
<1>4. c[w].pc = "relink_got" => item_lock[k] = w
  BY <1>1, <1>3 DEF WorkerOK, Commands, Locked
<1>5. /\ {item_lock[k], item_lock'[k]} \subseteq {None, w}
      /\ \A l \in Keys \ {k} : item_lock'[l] = item_lock[l]
  BY <1>2, <1>3, <1>4, LockSteps
<1>6. Quiet
  BY <1>2, HeadersAny, LeavesSame DEF IInv, Quiet
<1>7. OwnKey(w, k) /\ Silent(w)
  BY <1>2, <1>3, <1>5, <1>6 DEF OwnKey, Silent
<1>8. KeyOwn(w, k)
  BY <1>2, <1>3, <1>5, OwnNone
<1>9. ClientOK(c'[w], item, cas_id)
  BY <1>1, <1>2 DEF ClientOK
<1> QED BY <1>7, <1>8, <1>9, WorkerQuiet

LEMMA ReapStore ==
  ASSUME IInv, SInv, IInv', NEW w \in Workers, Reap(w) PROVE SInv' /\ StoreStep
<1>1. /\ IsTable(c) /\ IsConnection(c[w]) /\ ClientOK(c[w], item, cas_id) /\ WorkerOK(w)
      /\ item \in [Chunks -> AnyHeaders]
  BY HeadersAny DEF IInv, TypesOK, SInv
<1>2. /\ OthersStay(w) /\ UNCHANGED <<hash, cas_id>>
      /\ c[w].pc = "reap" /\ c'[w].pc = IF c[w].it # None \/ c[w].cmd = "incr" THEN "found" ELSE "done"
      /\ c'[w].key = c[w].key
      /\ c'[w].it = c[w].it /\ c'[w].old = None /\ c'[w].told = c[w].told /\ c'[w].unique = c[w].unique
      /\ Unlock(c[w].key) \/ UNCHANGED item_lock
      /\ item' = do_item_remove(do_item_remove(item, c[w].old), c[w].old)
  BY <1>1 DEF Reap, Running, OthersStay, IsTable, IsConnection, Fields
<1>3. PICK k \in Keys, i \in Chunks : k = c[w].key /\ i = c[w].old /\ item_lock[k] = w
  BY <1>1, <1>2 DEF WorkerOK, ConnectionOK, Commands, Locked
<1>4. /\ {item_lock[k], item_lock'[k]} \subseteq {None, w}
      /\ \A l \in Keys \ {k} : item_lock'[l] = item_lock[l]
  BY <1>2, <1>3, LockSteps
<1>5. Quiet
  <2>1. Leaves(item, do_item_remove(item, i)) /\ do_item_remove(item, i) \in [Chunks -> AnyHeaders]
    BY <1>1, RemoveLeaves DEF Leaves
  <2>2. Leaves(do_item_remove(item, i), do_item_remove(do_item_remove(item, i), i))
    BY <2>1, RemoveLeaves
  <2> QED BY <1>2, <1>3, <2>1, <2>2, LeavesTrans DEF Quiet
<1>6. OwnKey(w, k) /\ Silent(w)
  BY <1>2, <1>3, <1>4, <1>5 DEF OwnKey, Silent
<1>7. KeyOwn(w, k)
  BY <1>2, <1>4, OwnNone
<1>8. ClientOK(c'[w], item, cas_id)
  BY <1>1, <1>2 DEF ClientOK
<1> QED BY <1>6, <1>7, <1>8, WorkerQuiet

LEMMA UnlinkDoneStore ==
  ASSUME IInv, SInv, IInv', NEW w \in Workers, UnlinkDone(w) PROVE SInv' /\ StoreStep
<1>1. /\ IsTable(c) /\ IsConnection(c[w]) /\ ClientOK(c[w], item, cas_id) /\ WorkerOK(w)
      /\ item \in [Chunks -> AnyHeaders]
  BY HeadersAny DEF IInv, TypesOK, SInv
<1>2. /\ OthersStay(w) /\ UNCHANGED <<hash, cas_id>>
      /\ c[w].pc = "unlinking" /\ c'[w].pc = "drop" /\ c'[w].key = c[w].key
      /\ c'[w].it = c[w].it /\ c'[w].old = c[w].old /\ c'[w].told = c[w].told /\ c'[w].unique = c[w].unique
      /\ Unlock(c[w].key) /\ item' = do_item_remove(item, c[w].it)
  BY <1>1 DEF UnlinkDone, Running, OthersStay, IsTable, IsConnection, Fields
<1>3. PICK k \in Keys, i \in Chunks : k = c[w].key /\ i = c[w].it /\ item_lock[k] = w /\ c[w].old = None
  BY <1>1, <1>2 DEF WorkerOK, ConnectionOK, Commands, Locked
<1>4. /\ {item_lock[k], item_lock'[k]} \subseteq {None, w}
      /\ \A l \in Keys \ {k} : item_lock'[l] = item_lock[l]
  BY <1>2, <1>3, LockSteps
<1>5. Quiet
  BY <1>1, <1>2, <1>3, RemoveLeaves DEF Quiet
<1>6. OwnKey(w, k) /\ Silent(w)
  BY <1>2, <1>3, <1>4, <1>5 DEF OwnKey, Silent
<1>7. KeyOwn(w, k)
  BY <1>2, <1>3, <1>4, OwnNone
<1>8. ClientOK(c'[w], item, cas_id)
  BY <1>1, <1>2 DEF ClientOK
<1> QED BY <1>6, <1>7, <1>8, WorkerQuiet

LEMMA ItemRemoveStore ==
  ASSUME IInv, SInv, IInv', NEW w \in Workers, item_remove(w) PROVE SInv' /\ StoreStep
<1>1. IsTable(c) /\ WorkerOK(w) /\ cas_id \in Nat /\ item \in [Chunks -> AnyHeaders]
  BY HeadersAny DEF IInv, TypesOK, SInv
<1>2. /\ OthersStay(w) /\ UNCHANGED <<hash, cas_id, item_lock>> /\ c[w].pc = "drop"
      /\ c'[w].old = None /\ c'[w].told = None /\ c'[w] = Connection
      /\ item' = do_item_remove(item, c[w].it)
  BY <1>1 DEF item_remove, Running, OthersStay, IsTable, Connection
<1>3. PICK k \in Keys, i \in Chunks : k = c[w].key /\ i = c[w].it /\ c[w].old = None
  BY <1>1, <1>2 DEF WorkerOK, ConnectionOK
<1>4. Quiet
  BY <1>1, <1>2, <1>3, RemoveLeaves DEF Quiet
<1>5. OwnKey(w, k) /\ Silent(w)
  BY <1>2, <1>3, <1>4 DEF OwnKey, Silent
<1>6. KeySame(w, k)
  BY <1>2, <1>3 DEF KeySame, Upd, Updates
<1>7. ClientOK(c'[w], item, cas_id)
  BY <1>1, <1>2 DEF ClientOK, Connection
<1> QED BY <1>5, <1>6, <1>7, WorkerQuiet

\* With the item lock given back, what is in the table is stored again.
LEMMA ReleaseStore ==
  ASSUME IInv, SInv, IInv', NEW w \in Workers, Release(w) PROVE SInv' /\ StoreStep
<1>1. IsTable(c) /\ WorkerOK(w) /\ cas_id \in Nat /\ item \in [Chunks -> AnyHeaders]
  BY HeadersAny DEF IInv, TypesOK, SInv
<1>2. /\ OthersStay(w) /\ UNCHANGED <<hash, cas_id>> /\ c[w].pc = "release"
      /\ c'[w].old = None /\ c'[w].told = None /\ c'[w].pc \in {"new_cmd", "drop"} /\ c'[w].unique = 0
      /\ Unlock(c[w].key)
      /\ \E old \in {c[w].old, None} : item' = drop(drop(item, old), c[w].new)
  BY <1>1 DEF Release, Running, OthersStay, IsTable, Connection
<1>3. PICK k \in Keys : k = c[w].key /\ item_lock[k] = w
  BY <1>1, <1>2 DEF WorkerOK, ConnectionOK, Commands, Locked
<1>4. Quiet
  <2>1. PICK old \in Chunks \cup {None} : item' = drop(drop(item, old), c[w].new)
    BY <1>1, <1>2 DEF WorkerOK, ConnectionOK
  <2>2. c[w].new \in Chunks \cup {None}
    BY <1>1 DEF WorkerOK, ConnectionOK
  <2> DEFINE J == drop(item, old)
  <2>3. Leaves(item, J) /\ J \in [Chunks -> AnyHeaders]
    BY <1>1, <2>1, DropLeaves DEF Leaves
  <2> HIDE DEF J
  <2>4. Leaves(J, drop(J, c[w].new))
    BY <2>2, <2>3, DropLeaves
  <2> QED BY <1>2, <2>1, <2>3, <2>4, LeavesTrans DEF Quiet, J
<1>5. /\ {item_lock[k], item_lock'[k]} \subseteq {None, w}
      /\ \A l \in Keys \ {k} : item_lock'[l] = item_lock[l]
  BY <1>2, <1>3, LockSteps
<1>6. OwnKey(w, k) /\ Silent(w)
  BY <1>2, <1>3, <1>4, <1>5 DEF OwnKey, Silent
<1>7. KeyOwn(w, k)
  BY <1>2, <1>5 DEF KeyOwn, Upd, Updates
<1>8. ClientOK(c'[w], item, cas_id)
  BY <1>1, <1>2 DEF ClientOK
<1> QED BY <1>6, <1>7, <1>8, WorkerQuiet

LEMMA SwapStore ==
  ASSUME IInv, SInv, IInv', NEW w \in Workers, Swap(w) PROVE SInv' /\ StoreStep
<1>1. /\ IsTable(c) /\ IsConnection(c[w]) /\ ClientOK(c[w], item, cas_id) /\ WorkerOK(w)
      /\ item \in [Chunks -> AnyHeaders]
  BY HeadersAny DEF IInv, TypesOK, SInv
<1>2. /\ OthersStay(w) /\ UNCHANGED <<hash, cas_id, item_lock>>
      /\ c[w].pc = "swap" /\ c'[w].pc = "link" /\ c'[w].key = c[w].key /\ c'[w].cmd = c[w].cmd
      /\ c'[w].it = c[w].it /\ c'[w].old = c[w].old /\ c'[w].new = c[w].new
      /\ c'[w].told = c[w].told /\ c'[w].unique = c[w].unique
      /\ item' = do_item_remove(item, c[w].old)
  BY <1>1 DEF Swap, Running, OthersStay, IsTable, IsConnection, Fields
<1>3. PICK k \in Keys, i \in Chunks : k = c[w].key /\ i = c[w].old
  BY <1>1, <1>2 DEF WorkerOK, ConnectionOK
<1>4. Quiet
  BY <1>1, <1>2, <1>3, RemoveLeaves DEF Quiet
<1>5. OwnKey(w, k) /\ Silent(w)
  BY <1>2, <1>3, <1>4 DEF OwnKey, Silent
<1>6. KeySame(w, k)
  BY <1>2, <1>3 DEF KeySame, Upd, Updates, Holds
<1>7. ClientOK(c'[w], item, cas_id)
  BY <1>1, <1>2 DEF ClientOK
<1> QED BY <1>5, <1>6, <1>7, WorkerQuiet

LEMMA StoreLinkStore ==
  ASSUME IInv, SInv, IInv', NEW w \in Workers, store_link(w) PROVE SInv' /\ StoreStep
<1>1. /\ IsTable(c) /\ IsConnection(c[w]) /\ ClientOK(c[w], item, cas_id) /\ WorkerOK(w)
      /\ item \in [Chunks -> AnyHeaders]
  BY HeadersAny DEF IInv, TypesOK, SInv
<1>2. /\ OthersStay(w) /\ UNCHANGED <<cas_id, item_lock>>
      /\ c[w].pc = "found" /\ c'[w].pc = (IF c[w].old = None THEN "link" ELSE "swap")
      /\ c'[w].key = c[w].key /\ c'[w].cmd = c[w].cmd
      /\ c'[w].it = c[w].it /\ c'[w].old = c[w].old /\ c'[w].new = c[w].new
      /\ c'[w].told = c[w].told /\ c'[w].unique = c[w].unique
      /\ ~Refused(w) /\ c[w].cmd \in {"set", "add", "replace", "cas"}
      /\ IF c[w].old = None THEN UNCHANGED <<item, hash>>
         ELSE /\ item' = [item EXCEPT ![c[w].old].linked = FALSE]
              /\ hash' = [hash EXCEPT ![c[w].key] = None]
  BY <1>1 DEF store_link, Found, Running, OthersStay, IsTable, IsConnection, Fields
<1>3. ClientOK(c'[w], item, cas_id)
  <2>1. c[w].new = None
    BY <1>1, <1>2 DEF WorkerOK, ConnectionOK
  <2>2. /\ c[w].cmd = "add" => c[w].old = None
        /\ c[w].cmd \in {"replace", "cas"} => c[w].old # None
    BY <1>2 DEF Refused
  <2>3. c[w].cmd = "cas" => item[c[w].old].ver = c[w].unique
    <3>1. SUFFICES ASSUME c[w].cmd = "cas" PROVE item[c[w].old].ver = c[w].unique
      OBVIOUS
    <3>2. c[w].unique = item[c[w].old].cas
      BY <1>2, <3>1 DEF Refused
    <3>3. c[w].old \in Chunks /\ item[c[w].old].linked
      BY <1>2, <2>2, <3>1, FoundUpd
    <3> QED BY <3>2, <3>3 DEF SInv, VersionOK
  <2> QED BY <1>1, <1>2, <2>1, <2>2, <2>3 DEF ClientOK
<1>4. CASE c[w].old = None
  <2>1. ClientOnly(w) /\ Silent(w)
    BY <1>2, <1>4 DEF ClientOnly, Silent
  <2> QED BY <1>3, <2>1, ClientQuiet
<1>5. CASE c[w].old # None
  <2>1. PICK k \in Keys, i \in Chunks : /\ k = c[w].key /\ i = c[w].old /\ Upd(w, k) /\ item_lock[k] = w
                                        /\ item_lock'[k] = w
    BY <1>2, <1>5, FoundUpd
  <2>2. Quiet
    BY <1>1, <1>2, <1>5, <2>1, UnlinkLeaves DEF Quiet
  <2>3. hash'[k] = None /\ \A l \in Keys \ {k} : hash'[l] = hash[l]
    BY <1>2, <1>5, <2>1 DEF IInv, TypesOK
  <2>4. OwnKey(w, k) /\ Silent(w)
    BY <1>2, <2>1, <2>2, <2>3 DEF OwnKey, Silent
  <2>5. KeyOwn(w, k)
    BY <1>2, <2>1, <2>3 DEF KeyOwn
  <2> QED BY <1>3, <2>4, <2>5, WorkerQuiet
<1> QED BY <1>4, <1>5

-----------------------------------------------------------------------------
(* Answers. *)

LEMMA OutOfMemoryStore ==
  ASSUME IInv, SInv, IInv', NEW w \in Workers, OutOfMemory(w) PROVE SInv' /\ StoreStep
<1>1. IsTable(c) /\ IsConnection(c[w]) /\ ClientOK(c[w], item, cas_id)
  BY DEF IInv, TypesOK, SInv
<1>2. /\ OthersStay(w) /\ UNCHANGED <<item, hash, cas_id, item_lock>>
      /\ c[w].pc = "alloc" /\ c'[w].pc \in {"release", "done", "stale"} /\ c'[w].key = c[w].key
      /\ c'[w].it = c[w].it /\ c'[w].old = c[w].old /\ c'[w].unique = c[w].unique
      /\ c'[w].told = [res |-> "no_memory"]
  BY <1>1 DEF OutOfMemory, Running, OthersStay, IsTable, IsConnection, Fields
<1>3. ClientOnly(w) /\ c[w].told = None
  BY <1>1, <1>2 DEF ClientOnly, ClientOK
<1>4. ClientOK(c'[w], item, cas_id)
  BY <1>1, <1>2 DEF ClientOK
<1>5. SInv' /\ StoreSame /\ Tells(w)
  BY <1>3, <1>4, ClientTells
<1>6. Answer(w)' = [res |-> "no_memory"]
  BY <1>2 DEF Answer
<1>7. Promised!Fail(w)
  BY <1>5, <1>6 DEF StoreSame, Tells, Promised!Fail, Promised!Answer
<1> QED BY <1>5, <1>7 DEF StoreStep, Promised!Next

\* A version is not None.
LEMMA VersionIsOne ==
  ASSUME IInv PROVE \A i \in Chunks : version(i) \in Version /\ version(i) # None
BY ItemsAssumption DEF IInv, TypesOK, Headers, version, Version

\* What is stored while a worker is inside a command.
LEMMA FoundStored ==
  ASSUME IInv, NEW w \in Workers, NEW k \in Keys, k = c[w].key, c[w].pc \in {"found", "alloc", "swap", "link"},
         c[w].pc = "alloc" => c[w].old # None
  PROVE  /\ c[w].old # None => StoredVersion(k) = version(c[w].old) /\ StoredVersion(k) # None
         /\ c[w].old = None => StoredVersion(k) = None
<1>1. StoredBy(k)
  BY StoredIs
<1>2. CASE c[w].old # None
  <2>1. Updates(w, k) /\ c[w].old \in Chunks
    BY <1>2, FoundUpd DEF Upd
  <2> QED BY <1>1, <1>2, <2>1, VersionIsOne DEF StoredBy
<1>3. CASE c[w].old = None
  <2>1. c[w].pc # "alloc"
    BY <1>3
  <2>2. item_lock[k] = w /\ hash[k] = None
    BY <1>3, <2>1 DEF IInv, WorkerOK, Commands, Locked
  <2>3. \A v \in Workers : ~Updates(v, k)
    BY <1>3, <2>2 DEF Updates, Holds
  <2> QED BY <1>1, <1>3, <2>2, <2>3 DEF StoredBy, Hit
<1> QED BY <1>2, <1>3

\* do_store_item refuses what the store does.
LEMMA RefuseStep ==
  ASSUME IInv, SInv, IInv', NEW w \in Workers, NEW k \in Keys, k = c[w].key,
         OthersStay(w), UNCHANGED <<item, hash, cas_id, item_lock>>,
         c[w].pc = "found", c'[w].pc \in {"release", "refresh"},
         c'[w].key = c[w].key, c'[w].it = c[w].it, c'[w].old = c[w].old, c'[w].unique = c[w].unique,
         c'[w].told = Told(w, "refused"), c[w].cmd \in {"set", "add", "replace", "append", "incr", "cas"},
         ~Promised!Allowed(c[w].cmd, k, c[w].unique)
  PROVE  SInv' /\ StoreStep
<1>1. ClientOK(c[w], item, cas_id)
  BY DEF SInv
<1>2. ClientOnly(w) /\ c[w].told = None /\ c[w].unique \in 0..cas_id
  BY <1>1 DEF ClientOnly, ClientOK
<1>3. ClientOK(c'[w], item, cas_id)
  BY <1>1 DEF ClientOK, Told
<1>4. SInv' /\ StoreSame /\ Tells(w)
  BY <1>2, <1>3, ClientTells
<1>5. Answer(w)' = [res |-> "refused", cmd |-> c[w].cmd, key |-> k, unique |-> c[w].unique]
  BY DEF Answer, Told
<1>6. Promised!Refuse(w, c[w].cmd, k, c[w].unique)
  BY <1>4, <1>5 DEF StoreSame, Tells, Promised!Refuse, Promised!Answer
<1> QED BY <1>2, <1>4, <1>6 DEF StoreStep, Promised!Next

LEMMA RefusedStore ==
  ASSUME IInv, SInv, IInv', NEW w \in Workers, store_refused(w) PROVE SInv' /\ StoreStep
<1>1. IsTable(c) /\ IsConnection(c[w]) /\ WorkerOK(w) /\ cas_id \in Nat
  BY DEF IInv, TypesOK
<1>2. /\ OthersStay(w) /\ UNCHANGED <<item, hash, cas_id, item_lock>>
      /\ c[w].pc = "found" /\ c'[w].pc \in {"release", "refresh"} /\ c'[w].key = c[w].key
      /\ c'[w].it = c[w].it /\ c'[w].old = c[w].old /\ c'[w].unique = c[w].unique
      /\ c'[w].told = Told(w, "refused")
      /\ c[w].cmd \in {"set", "add", "replace", "append", "incr", "cas"} /\ Refused(w)
  <2>1. PICK pc \in IF c[w].cmd = "add" THEN AfterUpdate ELSE {"release"} :
          c' = [c EXCEPT ![w].told = Told(w, "refused"), ![w].pc = pc]
    BY DEF store_refused
  <2> HIDE DEF Told
  <2> QED BY <1>1, <2>1 DEF store_refused, Found, Stores, AfterUpdate, Running, OthersStay,
                            IsTable, IsConnection, Fields
<1>3. PICK k \in Keys : k = c[w].key
  BY <1>1, <1>2 DEF WorkerOK, ConnectionOK
<1>4. /\ c[w].old # None => StoredVersion(k) = version(c[w].old) /\ StoredVersion(k) # None
      /\ c[w].old = None => StoredVersion(k) = None
  BY <1>2, <1>3, FoundStored
<1>5. c[w].old # None => c[w].old \in Chunks /\ item[c[w].old].ver = item[c[w].old].cas
  BY <1>2, FoundUpd DEF SInv, VersionOK
<1>6. ~Promised!Allowed(c[w].cmd, k, c[w].unique)
  <2>1. CASE c[w].cmd = "set"
    BY <1>2, <2>1 DEF Refused
  <2>2. CASE c[w].cmd = "add"
    BY <1>2, <1>3, <1>4, <2>2 DEF Refused, Promised!Allowed
  <2>3. CASE c[w].cmd = "replace"
    BY <1>2, <1>3, <1>4, <2>3 DEF Refused, Promised!Allowed
  <2>4. CASE c[w].cmd = "cas"
    <3>1. c[w].old = None \/ (c[w].old # None /\ c[w].unique # item[c[w].old].ver)
      BY <1>2, <1>5, <2>4 DEF Refused
    <3>2. c[w].old # None => StoredVersion(k).ver = item[c[w].old].ver
      BY <1>4 DEF version
    <3> QED BY <1>3, <1>4, <2>4, <3>1, <3>2 DEF Promised!Allowed
  <2>5. CASE c[w].cmd \in {"append", "incr"}
    <3>1. c[w].old = None \/ (c[w].old # None /\ c[w].unique \notin {0, item[c[w].old].ver})
      BY <1>2, <1>5, <2>5 DEF Refused
    <3>2. c[w].old # None => StoredVersion(k).ver = item[c[w].old].ver
      BY <1>4 DEF version
    <3> QED BY <1>3, <1>4, <2>5, <3>1, <3>2 DEF Promised!Allowed
  <2> QED BY <1>2, <2>1, <2>2, <2>3, <2>4, <2>5
<1> QED BY <1>2, <1>3, <1>6, RefuseStep

LEMMA DeltaEmptyStore ==
  ASSUME IInv, SInv, IInv', NEW w \in Workers, delta_empty(w) PROVE SInv' /\ StoreStep
<1>1. IsTable(c) /\ IsConnection(c[w]) /\ WorkerOK(w) /\ cas_id \in Nat
  BY DEF IInv, TypesOK
<1>2. /\ OthersStay(w) /\ UNCHANGED <<item, hash, cas_id, item_lock>>
      /\ c[w].pc = "found" /\ c'[w].pc = "release" /\ c'[w].key = c[w].key
      /\ c'[w].it = c[w].it /\ c'[w].old = c[w].old /\ c'[w].unique = c[w].unique
      /\ c'[w].told = Told(w, "refused")
      /\ c[w].cmd = "incr" /\ ~Refused(w) /\ item[c[w].old].val = Empty
  BY <1>1 DEF delta_empty, Found, Running, OthersStay, IsTable, IsConnection, Fields
<1>3. PICK k \in Keys : k = c[w].key
  BY <1>1, <1>2 DEF WorkerOK, ConnectionOK
<1>4. c[w].old # None
  BY <1>2 DEF Refused
<1>5. StoredVersion(k) = version(c[w].old)
  BY <1>2, <1>3, <1>4, FoundStored
<1>6. ~Promised!Allowed(c[w].cmd, k, c[w].unique)
  BY <1>2, <1>3, <1>5 DEF Promised!Allowed, version
<1> QED BY <1>2, <1>3, <1>6, RefuseStep

\* item_get: a hit or miss is what is stored, and an expired item is as good as none.
LEMMA ItemGetStore ==
  ASSUME IInv, SInv, IInv', NEW w \in Workers, NEW k \in Keys,
         c[w].pc \in {"new_cmd", "stale"}, c[w].pc # "new_cmd" => c[w].key = k,
         NEW cmd, NEW then \in {"got", "unlink"}, NEW told, cmd # "incr",
         told = None \/ (told = [res |-> "no_memory"] /\ cmd = "set"),
         item_get(w, cmd, k, then, told)
  PROVE  /\ OwnKey(w, k) /\ KeyOwn(w, k) /\ ~Upd(w, k) /\ (hash'[k] = hash[k] \/ ~Hit(k))
         /\ ClientOK(c'[w], item, cas_id)
         /\ c'[w].told = IF told # None THEN told ELSE [res |-> IF Hit(k) THEN "hit" ELSE "miss", key |-> k]
         /\ c'[w].it = IF Hit(k) THEN hash[k] ELSE None
         /\ item_lock[k] = None
         /\ Hit(k) => hash'[k] = hash[k] /\ hash[k] # None
<1>1. /\ IsTable(c) /\ IsConnection(c[w]) /\ WorkerOK(w) /\ hash \in [Keys -> Chunks \cup {None}]
      /\ c[w].it = None /\ c[w].old = None /\ c[w].new = None
  BY DEF IInv, TypesOK, WorkerOK, ConnectionOK
<1>2. /\ cas_id' = cas_id /\ cas_id \in Nat
      /\ item_lock[k] = None /\ do_item_get(k)
      /\ IF hash[k] # None /\ ~Hit(k) THEN Lock(w, k) ELSE UNCHANGED item_lock
  BY DEF item_get, IInv, TypesOK
<1>3. Hit(k) => hash[k] # None
  BY DEF Hit
<1>4. PICK answer : answer = IF told # None THEN told
                             ELSE [res |-> IF Hit(k) THEN "hit" ELSE "miss", key |-> k]
  OBVIOUS
<1>5. PICK conn : /\ conn = [Connection EXCEPT !.cmd = cmd, !.key = k, !.told = answer]
                  /\ IF Hit(k) THEN c' = [c EXCEPT ![w] = [conn EXCEPT !.pc = then, !.it = hash[k]]]
                     ELSE c' = [c EXCEPT ![w] = [conn EXCEPT
                                 !.pc = IF hash[k] = None THEN "done" ELSE "reap", !.old = hash[k]]]
  <2> DEFINE d == [Connection EXCEPT !.cmd = cmd, !.key = k, !.told = answer]
  <2>1. IF Hit(k) THEN c' = [c EXCEPT ![w] = [d EXCEPT !.pc = then, !.it = hash[k]]]
        ELSE c' = [c EXCEPT ![w] = [d EXCEPT
                     !.pc = IF hash[k] = None THEN "done" ELSE "reap", !.old = hash[k]]]
    BY <1>4 DEF item_get
  <2> QED BY <2>1
<1>6. /\ IsConnection(conn) /\ conn.cmd = cmd /\ conn.key = k /\ conn.new = None
      /\ conn.it = None /\ conn.old = None /\ conn.unique = 0 /\ conn.told = answer
  BY <1>5 DEF Connection, IsConnection, Fields
<1>7. /\ OthersStay(w)
      /\ c'[w].cmd = cmd /\ c'[w].key = k /\ c'[w].new = None /\ c'[w].unique = 0 /\ c'[w].told = answer
      /\ c'[w].it = IF Hit(k) THEN hash[k] ELSE None
      /\ c'[w].old = IF Hit(k) THEN None ELSE hash[k]
      /\ c'[w].pc = IF Hit(k) THEN then ELSE IF hash[k] = None THEN "done" ELSE "reap"
  <2>1. CASE Hit(k)
    <3>1. PICK i : i = hash[k]
      OBVIOUS
    <3>2. c' = [c EXCEPT ![w] = [conn EXCEPT !.pc = then, !.it = i]]
      BY <1>5, <2>1, <3>1
    <3>3. /\ OthersStay(w) /\ c'[w] = [conn EXCEPT !.pc = then, !.it = i]
      BY <1>1, <3>2 DEF IsTable, OthersStay
    <3>4. /\ c'[w].cmd = cmd /\ c'[w].key = k /\ c'[w].new = None /\ c'[w].unique = 0 /\ c'[w].told = answer
          /\ c'[w].it = i /\ c'[w].old = None /\ c'[w].pc = then
      BY <1>6, <3>3 DEF IsConnection, Fields
    <3> QED BY <2>1, <3>1, <3>3, <3>4
  <2>2. CASE ~Hit(k)
    <3>1. PICK i, pc : i = hash[k] /\ pc = IF hash[k] = None THEN "done" ELSE "reap"
      OBVIOUS
    <3>2. c' = [c EXCEPT ![w] = [conn EXCEPT !.pc = pc, !.old = i]]
      BY <1>5, <2>2, <3>1
    <3>3. /\ OthersStay(w) /\ c'[w] = [conn EXCEPT !.pc = pc, !.old = i]
      BY <1>1, <3>2 DEF IsTable, OthersStay
    <3>4. /\ c'[w].cmd = cmd /\ c'[w].key = k /\ c'[w].new = None /\ c'[w].unique = 0 /\ c'[w].told = answer
          /\ c'[w].it = None /\ c'[w].old = i /\ c'[w].pc = pc
      BY <1>6, <3>3 DEF IsConnection, Fields
    <3> QED BY <2>2, <3>1, <3>3, <3>4
  <2> QED BY <2>1, <2>2
<1>8. /\ {item_lock[k], item_lock'[k]} \subseteq {None, w}
      /\ \A l \in Keys \ {k} : item_lock'[l] = item_lock[l]
  BY <1>2, LockSteps
<1>9. /\ Leaves(item, item')
      /\ hash' = IF hash[k] # None /\ ~Hit(k) THEN [hash EXCEPT ![k] = None] ELSE hash
  BY <1>2, GetLeaves
<1>10. /\ \A l \in Keys \ {k} : hash'[l] = hash[l]
       /\ hash'[k] \in {hash[k], None} /\ (hash'[k] = hash[k] \/ ~Hit(k))
       /\ Hit(k) => hash'[k] = hash[k]
  BY <1>1, <1>9
<1>11. OwnKey(w, k)
  BY <1>1, <1>2, <1>7, <1>8, <1>9, <1>10 DEF OwnKey, Quiet
<1>12. KeyOwn(w, k) /\ ~Upd(w, k)
  <2>1. c'[w].old = None \/ c'[w].pc = "reap"
    BY <1>7
  <2> QED BY <1>1, <1>8, <1>10, <2>1, OwnNone
<1>13. ClientOK(c'[w], item, cas_id)
  <2>1. CASE Hit(k)
    <3>1. hash[k] \in Chunks /\ item[hash[k]].linked
      BY <1>3, <2>1, Keyed DEF TableKeyed
    <3>2. PICK i \in Chunks : i = hash[k]
      BY <3>1
    <3>3. item[i].ver > 0
      BY <3>1, <3>2 DEF SInv, VersionOK, IInv, CasOf
    <3>4. /\ c'[w].it = i /\ i # None /\ c'[w].pc \in {"got", "unlink"}
      BY <1>3, <1>7, <2>1, <3>2
    <3>5. CASE told = None
      <4>1. answer = [res |-> "hit", key |-> k]
        BY <1>4, <2>1, <3>5
      <4> QED BY <1>2, <1>7, <3>3, <3>4, <4>1 DEF ClientOK
    <3>6. CASE told # None
      <4>1. answer = [res |-> "no_memory"] /\ cmd = "set"
        BY <1>4, <3>6
      <4> QED BY <1>2, <1>7, <3>3, <3>4, <4>1 DEF ClientOK
    <3> QED BY <3>5, <3>6
  <2>2. CASE ~Hit(k)
    <3>1. c'[w].pc \in {"done", "reap"} /\ c'[w].it = None
      BY <1>7, <2>2
    <3>2. answer.res \in {"miss", "no_memory"}
      BY <1>4, <2>2
    <3> QED BY <1>2, <1>7, <3>1, <3>2 DEF ClientOK
  <2> QED BY <2>1, <2>2
<1> QED BY <1>2, <1>3, <1>4, <1>7, <1>10, <1>11, <1>12, <1>13

LEMMA FindStore ==
  ASSUME IInv, SInv, IInv', NEW w \in Workers, NEW k \in Keys, Get(w, k) \/ Delete(w, k)
  PROVE  SInv' /\ StoreStep
<1>1. PICK cmd \in {"get", "gets", "delete"}, then \in {"got", "unlink"} :
        item_get(w, cmd, k, then, None) /\ c[w].pc = "new_cmd"
  BY DEF Get, Delete, NewCommand, Running
<1>2. /\ OwnKey(w, k) /\ KeyOwn(w, k) /\ ~Upd(w, k) /\ (hash'[k] = hash[k] \/ ~Hit(k))
      /\ ClientOK(c'[w], item, cas_id)
      /\ c'[w].told = [res |-> IF Hit(k) THEN "hit" ELSE "miss", key |-> k]
      /\ c'[w].it = IF Hit(k) THEN hash[k] ELSE None
      /\ item_lock[k] = None
      /\ Hit(k) => hash'[k] = hash[k] /\ hash[k] # None
  <2>1. PICK told : told = None
    OBVIOUS
  <2>2. item_get(w, cmd, k, then, told) /\ cmd # "incr"
    BY <1>1, <2>1
  <2>3. /\ OwnKey(w, k) /\ KeyOwn(w, k) /\ ~Upd(w, k) /\ (hash'[k] = hash[k] \/ ~Hit(k))
        /\ ClientOK(c'[w], item, cas_id)
        /\ c'[w].told = IF told # None THEN told ELSE [res |-> IF Hit(k) THEN "hit" ELSE "miss", key |-> k]
        /\ c'[w].it = IF Hit(k) THEN hash[k] ELSE None
        /\ item_lock[k] = None
        /\ Hit(k) => hash'[k] = hash[k] /\ hash[k] # None
    BY <1>1, <2>1, <2>2, ItemGetStore
  <2> QED BY <2>1, <2>3
<1>3. c[w].told = None
  BY <1>1 DEF SInv, ClientOK
<1>4. SInv' /\ StoreSame /\ Tells(w)
  BY <1>2, <1>3, WorkerTells
<1>5. StoredVersion(k) = IF Hit(k) THEN version(hash[k]) ELSE None
  <2>1. \A v \in Workers : ~Updates(v, k)
    BY <1>2, ItemsAssumption DEF Updates, Holds, Threads
  <2> QED BY <2>1, StoredIs DEF StoredBy
<1>6. Answer(w)' = [res |-> IF StoredVersion(k) = None THEN "miss" ELSE "hit",
                    key |-> k, version |-> StoredVersion(k)]
  <2>1. CASE Hit(k)
    <3>1. PICK i \in Chunks : i = hash[k] /\ i = hash'[k] /\ {item[i].key, item'[i].key} \subseteq Keys
      BY <1>2, <2>1, Keyed, KeyedNext DEF TableKeyed
    <3>2. version(i)' = version(i) /\ version(i) # None
      BY <1>2, <3>1, LeftVersion, LeavesCarries, VersionIsOne DEF OwnKey, Quiet
    <3>3. c'[w].told = [res |-> "hit", key |-> k] /\ c'[w].it = i
      BY <1>2, <2>1, <3>1
    <3>4. c'[w].told # None
      BY <3>3, ItemsAssumption DEF Answers
    <3> QED BY <1>5, <2>1, <3>1, <3>2, <3>3, <3>4 DEF Answer, version
  <2>2. CASE ~Hit(k)
    <3>1. c'[w].told = [res |-> "miss", key |-> k]
      BY <1>2, <2>2
    <3>2. c'[w].told # None
      BY <3>1, ItemsAssumption DEF Answers
    <3> QED BY <1>5, <2>2, <3>1, <3>2 DEF Answer
  <2> QED BY <2>1, <2>2
<1>7. Promised!Find(w, k)
  BY <1>4, <1>6 DEF StoreSame, Tells, Promised!Find, Promised!Answer
<1> QED BY <1>4, <1>7 DEF StoreStep, Promised!Next

LEMMA UnlinkStaleStore ==
  ASSUME IInv, SInv, IInv', NEW w \in Workers, UnlinkStale(w) PROVE SInv' /\ StoreStep
<1>1. item_get(w, "set", c[w].key, "unlink", c[w].told) /\ c[w].pc = "stale"
  BY DEF UnlinkStale, Running
<1>2. PICK k, told : k \in Keys /\ k = c[w].key /\ told = c[w].told
  BY <1>1 DEF IInv, WorkerOK, ConnectionOK
<1>3. told = [res |-> "no_memory"]
  BY <1>1, <1>2 DEF SInv, ClientOK
<1>4. told # None
  BY <1>3, ItemsAssumption DEF Answers
<1>5. item_get(w, "set", k, "unlink", told)
  BY <1>1, <1>2
<1>6. /\ OwnKey(w, k) /\ KeyOwn(w, k) /\ ClientOK(c'[w], item, cas_id)
      /\ c'[w].told = IF told # None THEN told ELSE [res |-> IF Hit(k) THEN "hit" ELSE "miss", key |-> k]
  <2>1. PICK cmd \in {"set"}, then \in {"got", "unlink"} : then = "unlink"
    OBVIOUS
  <2> QED BY <1>1, <1>2, <1>3, <1>5, <2>1, ItemGetStore
<1>7. Silent(w)
  BY <1>2, <1>3, <1>4, <1>6 DEF Silent
<1> QED BY <1>2, <1>6, <1>7, WorkerQuiet

\* item_unlink takes out of the table what has been found, and nothing else.
LEMMA ItemUnlinkStore ==
  ASSUME IInv, SInv, IInv', NEW w \in Workers, item_unlink(w) PROVE SInv' /\ StoreStep
<1>1. /\ IsTable(c) /\ IsConnection(c[w]) /\ ClientOK(c[w], item, cas_id) /\ WorkerOK(w)
      /\ item \in [Chunks -> AnyHeaders] /\ cas_id \in Nat /\ hash \in [Keys -> Chunks \cup {None}]
  BY HeadersAny DEF IInv, TypesOK, SInv
<1>2. PICK told : told = IF c[w].cmd = "delete" THEN [c[w].told EXCEPT !.res = "removed"] ELSE c[w].told
  OBVIOUS
<1>3. /\ OthersStay(w) /\ UNCHANGED cas_id
      /\ c[w].pc = "unlink" /\ c'[w].pc \in {"unlinking", "drop"}
      /\ c'[w].key = c[w].key /\ c'[w].unique = c[w].unique
      /\ c'[w].it = c[w].it /\ c'[w].old = c[w].old /\ c'[w].told = told
      /\ item_lock[c[w].key] = None
      /\ IF item[c[w].it].linked
         THEN /\ item' = [item EXCEPT ![c[w].it].linked = FALSE]
              /\ hash' = [hash EXCEPT ![c[w].key] = None]
              /\ Lock(w, c[w].key)
         ELSE UNCHANGED <<item, hash, item_lock>>
  BY <1>1, <1>2 DEF item_unlink, Running, OthersStay, IsTable, IsConnection, Fields
<1>4. PICK k \in Keys, i \in Chunks : k = c[w].key /\ i = c[w].it /\ item[i].key = k /\ i # None
  BY <1>1, <1>3 DEF WorkerOK, ConnectionOK
<1>5. c[w].old = None /\ c'[w].old = None
  BY <1>1, <1>3 DEF WorkerOK, ConnectionOK
<1>6. /\ {item_lock[k], item_lock'[k]} \subseteq {None, w}
      /\ \A l \in Keys \ {k} : item_lock'[l] = item_lock[l]
  <2>1. Lock(w, k) \/ UNCHANGED item_lock
    BY <1>3, <1>4
  <2> QED BY <1>3, <1>4, <2>1, LockSteps
<1>7. Quiet
  BY <1>1, <1>3, <1>4, UnlinkLeaves, LeavesSame DEF Quiet
<1>8. /\ \A l \in Keys \ {k} : hash'[l] = hash[l]
      /\ hash'[k] = IF item[i].linked THEN None ELSE hash[k]
  BY <1>1, <1>3, <1>4
<1>9. OwnKey(w, k)
  BY <1>3, <1>4, <1>5, <1>6, <1>7, <1>8 DEF OwnKey
<1>10. KeyOwn(w, k)
  BY <1>5, <1>6, <1>8, OwnNone
<1>11. CASE c[w].cmd # "delete"
  <2>1. c'[w].told = c[w].told
    BY <1>2, <1>3, <1>11
  <2>2. ClientOK(c'[w], item, cas_id) /\ Silent(w)
    BY <1>1, <1>3, <2>1 DEF ClientOK, Silent
  <2> QED BY <1>9, <1>10, <2>2, WorkerQuiet
<1>12. CASE c[w].cmd = "delete"
  <2>1. c[w].told = [res |-> "hit", key |-> k] /\ c'[w].told = [res |-> "removed", key |-> k]
        /\ item[i].ver > 0
    <3>1. c[w].told = [res |-> "hit", key |-> k]
      BY <1>1, <1>3, <1>4, <1>12 DEF ClientOK
    <3>2. c[w].told # None
      BY <3>1, ItemsAssumption DEF Answers
    <3> QED BY <1>1, <1>2, <1>3, <1>4, <1>12, <3>1, <3>2 DEF ClientOK
  <2>2. ClientOK(c'[w], item, cas_id)
    BY <1>1, <1>3, <1>4, <2>1 DEF ClientOK
  <2>3. SInv' /\ \A v \in Workers \ {w} : Answer(v)' = Answer(v)
    <3>1. \A l \in Keys : KeySame(w, l) \/ KeyOwn(w, l)
      BY <1>9, <1>10, OwnKeySame
    <3>2. OthersStay(w) /\ Carries(item, item') /\ cas_id' = cas_id
      BY <1>9, LeavesCarries DEF OwnKey, Quiet
    <3>3. ASSUME NEW v \in Workers \ {w}
          PROVE  ClientOK(c'[v], item', cas_id') /\ Answer(v)' = Answer(v)
      <4>1. c'[v] = c[v] /\ v \in Workers
        BY <3>2 DEF OthersStay
      <4>2. DataStays(v)
        BY <3>2, <4>1, CarriedStays
      <4>3. ClientOK(c[v], item, cas_id)
        BY DEF SInv
      <4> QED BY <1>1, <3>2, <4>1, <4>2, <4>3, ClientKept, AnswerKept DEF DataStays
    <3>4. ClientOK(c'[w], item', cas_id)
      BY <2>2, <3>2, <1>7, OwnClient DEF Quiet
    <3>5. \A j \in Chunks : VersionOK(j)'
      BY <3>2, VersionsQuiet
    <3> QED BY <3>2, <3>3, <3>4, <3>5 DEF SInv
  <2>4. Answer(w) = [res |-> "hit", key |-> k, version |-> version(i)] /\ Answer(w) # None
    <3>1. c[w].told # None
      BY <2>1, ItemsAssumption DEF Answers
    <3>2. Answer(w) = [res |-> "hit", key |-> k, version |-> version(i)]
      BY <1>4, <2>1, <3>1 DEF Answer
    <3>3. version(i) \in Version
      BY VersionIsOne
    <3> QED BY <3>2, <3>3, ItemsAssumption DEF Answers
  <2>5. Answer(w)' = [res |-> "removed", key |-> k, version |-> version(i)]
    <3>1. c'[w].told # None
      BY <2>1, ItemsAssumption DEF Answers
    <3>2. version(i)' = version(i)
      <4>1. {item[i].key, item'[i].key} \subseteq Keys
        BY <1>3, <1>4, KeyedNext DEF HeldKeyed
      <4> QED BY <1>7, <4>1, LeavesCarries, LeftVersion DEF Quiet
    <3> QED BY <1>3, <1>4, <2>1, <3>1, <3>2 DEF Answer, version
  <2>6. StoredVersion(k)' = IF StoredVersion(k) = version(i) THEN None ELSE StoredVersion(k)
    <3>1. \A v \in Workers : ~Updates(v, k)
      BY <1>3, <1>4, ItemsAssumption DEF Updates, Holds, Threads
    <3>2. StoredVersion(k) = IF Hit(k) THEN version(hash[k]) ELSE None
      BY <3>1, StoredIs DEF StoredBy
    <3>3. CASE item[i].linked
      <4>1. hash[k] = i
        BY <1>4, <3>3 DEF IInv, TableOK, Tabled
      <4>2. \A v \in Workers : ~Updates(v, k)'
        BY <1>5, <1>6, ItemsAssumption DEF Updates, Holds, Threads
      <4>3. ~Hit(k)'
        BY <1>8, <3>3 DEF Hit
      <4>4. StoredVersion(k)' = None
        BY <4>2, <4>3, StoredIsNext DEF StoredBy
      <4> QED BY <3>2, <4>1, <4>4
    <3>4. CASE ~item[i].linked
      <4>1. StoredVersion(k)' = StoredVersion(k)
        <5>1. hash'[k] = hash[k] /\ ~Upd(w, k) /\ OthersStay(w) /\ Carries(item, item')
          BY <1>5, <1>7, <1>8, <1>9, <3>4, LeavesCarries DEF Upd, Updates, OwnKey, Quiet
        <5> QED BY <1>10, <5>1, KeyOwnKept
      <4>2. StoredVersion(k) # version(i)
        <5>1. CASE ~Hit(k)
          BY <3>2, <5>1, VersionIsOne
        <5>2. CASE Hit(k)
          <6>1. PICK j \in Chunks : j = hash[k] /\ item[j].linked
            BY <5>2, Keyed DEF Hit, TableKeyed
          <6>2. item[j].ver # item[i].ver
            BY <2>1, <3>4, <6>1 DEF SInv, VersionOK
          <6> QED BY <3>2, <5>2, <6>1, <6>2 DEF version
        <5> QED BY <5>1, <5>2
      <4> QED BY <4>1, <4>2
    <3> QED BY <3>3, <3>4
  <2>7. \A l \in Keys \ {k} : StoredVersion(l)' = StoredVersion(l)
    BY <1>9, OwnKeySame, LeavesCarries, KeySameKept DEF OwnKey, Quiet
  <2>8. Promised!Remove(w, k)
    <3> DEFINE store == [l \in Keys |-> StoredVersion(l)]
               answer == [v \in Workers |-> Answer(v)]
    <3>1. answer[w] # None /\ answer[w].res = "hit" /\ answer[w].key = k /\ answer[w].version = version(i)
      BY <2>4
    <3>2. answer' = [answer EXCEPT ![w].res = "removed"]
      <4>1. [answer[w] EXCEPT !.res = "removed"] = Answer(w)'
        BY <2>4, <2>5
      <4>2. answer' = [answer EXCEPT ![w] = Answer(w)']
        BY <2>3
      <4> QED BY <4>1, <4>2
    <3>3. store' = [store EXCEPT ![k] = IF @ = answer[w].version THEN None ELSE @]
      BY <2>6, <2>7, <3>1
    <3> QED BY <1>3, <3>1, <3>2, <3>3 DEF Promised!Remove
  <2> QED BY <2>3, <2>8 DEF StoreStep, Promised!Next
<1> QED BY <1>11, <1>12

-----------------------------------------------------------------------------
(* The commands that update. *)

\* The lock is taken, and what is found under it is what was stored.
LEMMA EnterStore ==
  ASSUME IInv, SInv, IInv', NEW w \in Workers, NEW k \in Keys, NEW pc \in {"new_cmd", "nread"}, NEW conn,
         Enter(w, pc, k, conn), IsConnection(conn), conn.key = k, conn.told = None,
         conn.unique \in 0..cas_id
  PROVE  SInv' /\ StoreStep
<1>1. /\ IsTable(c) /\ WorkerOK(w) /\ ClientOK(c[w], item, cas_id) /\ cas_id \in Nat
      /\ hash \in [Keys -> Chunks \cup {None}]
  BY DEF IInv, TypesOK, SInv
<1>2. c[w].pc = pc /\ Lock(w, k) /\ do_item_get(k) /\ cas_id' = cas_id
  BY DEF Enter, Running
<1>3. /\ OthersStay(w) /\ c'[w].key = k /\ c'[w].unique = conn.unique /\ c'[w].told = None
      /\ c'[w].old = hash[k]
      /\ c'[w].pc = IF hash[k] # None /\ ~Hit(k) THEN "reap" ELSE "found"
  <2>1. c' = [c EXCEPT ![w] = [conn EXCEPT !.pc = IF hash[k] # None /\ ~Hit(k) THEN "reap" ELSE "found",
                                           !.old = hash[k]]]
    BY DEF Enter
  <2>2. PICK i, p : i = hash[k] /\ p = IF hash[k] # None /\ ~Hit(k) THEN "reap" ELSE "found"
    OBVIOUS
  <2>3. c' = [c EXCEPT ![w] = [conn EXCEPT !.pc = p, !.old = i]]
    BY <2>1, <2>2
  <2>4. OthersStay(w) /\ c'[w] = [conn EXCEPT !.pc = p, !.old = i]
    BY <1>1, <2>3 DEF IsTable, OthersStay
  <2>5. c'[w].key = k /\ c'[w].unique = conn.unique /\ c'[w].told = None /\ c'[w].old = i /\ c'[w].pc = p
    BY <2>4 DEF IsConnection, Fields
  <2> QED BY <2>2, <2>4, <2>5
<1>4. c[w].old = None
  BY <1>1, <1>2 DEF WorkerOK, ConnectionOK
<1>5. /\ item_lock[k] = None /\ item_lock'[k] = w /\ \A l \in Keys \ {k} : item_lock'[l] = item_lock[l]
  BY <1>2, LockSteps
<1>6. /\ Leaves(item, item')
      /\ hash' = IF hash[k] # None /\ ~Hit(k) THEN [hash EXCEPT ![k] = None] ELSE hash
  BY <1>2, GetLeaves
<1>7. hash'[k] \in {hash[k], None} /\ \A l \in Keys \ {k} : hash'[l] = hash[l]
  BY <1>1, <1>6
<1>8. OwnKey(w, k) /\ Silent(w)
  BY <1>2, <1>3, <1>4, <1>5, <1>6, <1>7 DEF OwnKey, Quiet, Silent
<1>9. KeyOwn(w, k)
  <2>1. ~Upd(w, k)
    BY <1>4 DEF Upd, Updates
  <2>2. Upd(w, k)' => Hit(k) /\ c'[w].old = hash[k]
    BY <1>3 DEF Upd, Updates
  <2> QED BY <1>5, <1>7, <2>1, <2>2 DEF KeyOwn
<1>10. ClientOK(c'[w], item, cas_id)
  BY <1>3 DEF ClientOK
<1> QED BY <1>8, <1>9, <1>10, WorkerQuiet

LEMMA StoreItemStore ==
  ASSUME IInv, SInv, IInv', NEW w \in Workers, store_item(w) PROVE SInv' /\ StoreStep
<1>1. PICK cmd, unique :
        /\ Enter(w, "nread", c[w].key, [c[w] EXCEPT !.cmd = cmd, !.unique = unique])
        /\ unique \in IF MayUpdate /\ cmd \in {"cas", "append"} THEN 0..cas_id ELSE {0}
  BY DEF store_item
<1>2. IsConnection(c[w]) /\ WorkerOK(w) /\ c[w].pc = "nread" /\ ClientOK(c[w], item, cas_id)
  BY DEF IInv, TypesOK, SInv, store_item, Running
<1>3. PICK k \in Keys : k = c[w].key
  BY <1>2 DEF WorkerOK, ConnectionOK
<1>4. PICK conn : conn = [c[w] EXCEPT !.cmd = cmd, !.unique = unique]
  OBVIOUS
<1>5. IsConnection(conn) /\ conn.key = k /\ conn.told = None /\ conn.unique = unique
  <2>1. c[w].told = None
    BY <1>2 DEF ClientOK
  <2> QED BY <1>2, <1>3, <1>4, <2>1 DEF IsConnection, Fields
<1>6. unique \in 0..cas_id
  <2>1. cas_id \in Nat
    BY DEF IInv, TypesOK
  <2> QED BY <1>1, <2>1
<1>7. Enter(w, "nread", k, conn)
  BY <1>1, <1>3, <1>4
<1> QED BY <1>5, <1>6, <1>7, EnterStore

LEMMA AddDeltaStore ==
  ASSUME IInv, SInv, IInv', NEW w \in Workers, NEW k \in Keys, add_delta(w, k) PROVE SInv' /\ StoreStep
<1>1. PICK unique \in 0..cas_id :
        Enter(w, "new_cmd", k, [Connection EXCEPT !.cmd = "incr", !.key = k, !.unique = unique])
  BY DEF add_delta
<1>2. PICK conn : conn = [Connection EXCEPT !.cmd = "incr", !.key = k, !.unique = unique]
  OBVIOUS
<1>3. IsConnection(conn) /\ conn.key = k /\ conn.told = None /\ conn.unique \in 0..cas_id
  BY <1>2 DEF Connection, IsConnection, Fields
<1>4. Enter(w, "new_cmd", k, conn)
  BY <1>1, <1>2
<1> QED BY <1>3, <1>4, EnterStore

\* do_item_alloc: nobody has seen a free chunk.
LEMMA AllocUploadStore ==
  ASSUME IInv, SInv, IInv', NEW w \in Workers, Running(w, "alloc"), c[w].old = None,
         NEW i \in Free, NEW v \in SetValues,
         item' = [item EXCEPT ![i] = AllocHeader(c[w].key, v, FALSE)],
         c' = [c EXCEPT ![w].pc = "nread", ![w].it = i, ![w].tries = 0],
         UNCHANGED <<settings, hash, queue, cas_id, item_lock, lru_lock, pull, crawlers>>
  PROVE  SInv' /\ StoreStep
<1>1. /\ IsTable(c) /\ IsConnection(c[w]) /\ WorkerOK(w) /\ ClientOK(c[w], item, cas_id)
      /\ item \in [Chunks -> AnyHeaders] /\ cas_id \in Nat
  BY HeadersAny DEF IInv, TypesOK, SInv
<1>2. /\ OthersStay(w) /\ c[w].pc = "alloc" /\ c'[w].pc = "nread" /\ c'[w].old = None
      /\ c'[w].told = c[w].told /\ c'[w].unique = c[w].unique
  BY <1>1 DEF Running, OthersStay, IsTable, IsConnection, Fields
<1>3. PICK k \in Keys : k = c[w].key
  BY <1>1, <1>2 DEF WorkerOK, ConnectionOK
<1>4. PICK h : h \in AnyHeaders /\ ~h.linked /\ h.ver = 0 /\ item' = [item EXCEPT ![i] = h]
  <2>1. v \in (0..MaxVal) \cup {Empty}
    BY ItemsAssumption
  <2>2. PICK e \in BOOLEAN : e = FALSE
    OBVIOUS
  <2>3. PICK h : /\ h = AllocHeader(k, v, e)
                 /\ h \in Headers /\ h.key = k /\ h.lru \in Queues /\ ~h.linked /\ h.refcount = 1
                 /\ h.val = v /\ h.cas = 0 /\ h.ver = 0
    BY <2>1, <2>2, AllocHeaderType
  <2>4. h \in AnyHeaders
    BY <2>3 DEF Headers, AnyHeaders
  <2> QED BY <1>3, <2>2, <2>3, <2>4
<1>5. i \in Chunks /\ item[i].key = None
  BY DEF Free, Slabbed
<1>6. Carries(item, item')
  <2>1. /\ item' \in [Chunks -> AnyHeaders] /\ item'[i] = h
        /\ \A j \in Chunks \ {i} : item'[j] = item[j]
    BY <1>1, <1>4, <1>5
  <2>2. ASSUME NEW j \in Chunks
        PROVE  \/ None \in {item[j].key, item'[j].key} /\ item'[j].ver = 0 /\ ~item'[j].linked
               \/ SameData(item'[j], item[j]) /\ (item'[j].linked => item[j].linked)
    <3>1. CASE j = i
      BY <1>4, <1>5, <2>1, <3>1
    <3>2. CASE j # i
      BY <2>1, <3>2 DEF SameData
    <3> QED BY <3>1, <3>2
  <2> QED BY <2>1, <2>2 DEF Carries
<1>7. \A l \in Keys : KeySame(w, l)
  BY <1>2 DEF KeySame, Upd, Updates
<1>8. c'[w].told = None
  BY <1>1, <1>2 DEF ClientOK
<1>9. ClientOK(c'[w], item', cas_id) /\ Answer(w)' = None
  <2>1. Answer(w)' = None
    BY <1>8 DEF Answer
  <2>2. ClientOK(c'[w], item', cas_id)
    BY <1>1, <1>2, <1>8 DEF ClientOK
  <2> QED BY <2>1, <2>2
<1> QED BY <1>2, <1>6, <1>7, <1>9, QuietStep

LEMMA AllocReplaceStore ==
  ASSUME IInv, SInv, IInv', NEW w \in Workers, Running(w, "alloc"), c[w].old # None, NEW i \in Free,
         item' = [item EXCEPT
           ![i] = AllocHeader(c[w].key, Successor(item[c[w].old].val), item[c[w].old].expired),
           ![c[w].old].linked = FALSE],
         hash' = [hash EXCEPT ![c[w].key] = None],
         c' = [c EXCEPT ![w].pc = "swap", ![w].new = i, ![w].tries = 0],
         UNCHANGED <<settings, queue, cas_id, item_lock, lru_lock, pull, crawlers>>
  PROVE  SInv' /\ StoreStep
<1>1. /\ IsTable(c) /\ IsConnection(c[w]) /\ WorkerOK(w) /\ ClientOK(c[w], item, cas_id)
      /\ item \in [Chunks -> AnyHeaders] /\ cas_id \in Nat
  BY HeadersAny DEF IInv, TypesOK, SInv
<1>2. /\ OthersStay(w) /\ c[w].pc = "alloc" /\ c'[w].pc = "swap" /\ c'[w].old = c[w].old
      /\ c'[w].told = c[w].told /\ c'[w].unique = c[w].unique /\ c'[w].cmd = c[w].cmd
      /\ c'[w].key = c[w].key /\ c'[w].new = i
  BY <1>1 DEF Running, OthersStay, IsTable, IsConnection, Fields
<1>3. PICK k \in Keys, old \in Chunks :
        k = c[w].key /\ old = c[w].old /\ item_lock[k] = w /\ Upd(w, k) /\ item[old].linked
  BY <1>2, FoundUpd
<1>4. i \in Chunks /\ item[i].key = None /\ i # old /\ i # None
  BY <1>3, FreeChunk, ItemsAssumption DEF Free, Slabbed
<1>5. PICK h : h \in AnyHeaders /\ ~h.linked /\ h.ver = 0 /\ h.val = Successor(item[old].val)
               /\ h = AllocHeader(k, Successor(item[old].val), item[old].expired)
  <2>1. item[old].val \in (0..MaxVal) \cup {Empty} /\ item[old].expired \in BOOLEAN
    BY <1>1 DEF AnyHeaders
  <2>2. PICK v \in 0..MaxVal, e \in BOOLEAN : v = Successor(item[old].val) /\ e = item[old].expired
    BY <2>1, SuccessorType
  <2>3. v \in (0..MaxVal) \cup {Empty}
    BY <2>2
  <2>4. PICK h : /\ h = AllocHeader(k, v, e)
                 /\ h \in Headers /\ h.key = k /\ h.lru \in Queues /\ ~h.linked /\ h.refcount = 1
                 /\ h.val = v /\ h.cas = 0 /\ h.ver = 0
    BY <2>2, <2>3, AllocHeaderType
  <2>5. h \in AnyHeaders
    BY <2>4 DEF Headers, AnyHeaders
  <2> QED BY <2>2, <2>4, <2>5
<1>6. PICK g : g = [item[old] EXCEPT !.linked = FALSE]
  OBVIOUS
<1>7. g \in AnyHeaders /\ SameData(g, item[old]) /\ ~g.linked
  BY <1>1, <1>6 DEF AnyHeaders, SameData
<1>8. /\ item'[i] = h /\ item'[old] = g /\ (\A j \in Chunks : j # i /\ j # old => item'[j] = item[j])
      /\ item' \in [Chunks -> AnyHeaders]
  <2>1. PICK J : J = [item EXCEPT ![i] = h]
    OBVIOUS
  <2>2. J \in [Chunks -> AnyHeaders] /\ J[i] = h /\ \A j \in Chunks \ {i} : J[j] = item[j]
    BY <1>1, <1>4, <1>5, <2>1
  <2>3. item' = [J EXCEPT ![old] = g]
    BY <1>1, <1>3, <1>4, <1>5, <1>6, <2>1
  <2> QED BY <1>3, <1>4, <1>7, <2>2, <2>3, SMTT(30)
<1>9. Carries(item, item')
  <2>1. ASSUME NEW j \in Chunks
        PROVE  \/ None \in {item[j].key, item'[j].key} /\ item'[j].ver = 0 /\ ~item'[j].linked
               \/ SameData(item'[j], item[j]) /\ (item'[j].linked => item[j].linked)
    <3>1. CASE j = i
      BY <1>4, <1>5, <1>8, <3>1
    <3>2. CASE j = old
      BY <1>7, <1>8, <3>2
    <3>3. CASE j # i /\ j # old
      BY <1>8, <3>3 DEF SameData
    <3> QED BY <3>1, <3>2, <3>3
  <2> QED BY <1>8, <2>1 DEF Carries
<1>10. hash'[k] = None /\ \A l \in Keys \ {k} : hash'[l] = hash[l]
  BY <1>3 DEF IInv, TypesOK
<1>11. \A l \in Keys \ {k} : KeySame(w, l)
  BY <1>2, <1>3, <1>10 DEF KeySame, Upd, Updates
<1>12. KeyOwn(w, k)
  BY <1>2, <1>3, <1>10 DEF KeyOwn
<1>13. c'[w].told = None
  BY <1>1, <1>2 DEF ClientOK
<1>14. ClientOK(c'[w], item', cas_id) /\ Answer(w)' = None
  <2>1. Answer(w)' = None
    BY <1>13 DEF Answer
  <2>2. c[w].cmd = "append" \/ (c[w].cmd = "incr" /\ item'[old].val # Empty)
    BY <1>1, <1>2, <1>3, <1>7, <1>8 DEF ClientOK, WorkerOK, ConnectionOK, SameData
  <2>3. item'[i].val = Successor(item'[old].val)
    BY <1>5, <1>7, <1>8 DEF SameData
  <2>4. c[w].unique \in 0..cas_id
    BY <1>1 DEF ClientOK
  <2>5. c[w].unique \in {0, item'[old].ver}
    BY <1>1, <1>2, <1>3, <1>7, <1>8 DEF ClientOK, SameData
  <2> QED BY <1>2, <1>3, <1>4, <1>13, <2>1, <2>2, <2>3, <2>4, <2>5 DEF ClientOK
<1> QED BY <1>2, <1>9, <1>11, <1>12, <1>14, QuietStep

LEMMA AllocStore ==
  ASSUME IInv, SInv, IInv', NEW w \in Workers, slabs_alloc(w) PROVE SInv' /\ StoreStep
<1>1. PICK i \in Free :
        \/ /\ c[w].old = None
           /\ \E v \in SetValues : item' = [item EXCEPT ![i] = AllocHeader(c[w].key, v, FALSE)]
           /\ c' = [c EXCEPT ![w].pc = "nread", ![w].it = i, ![w].tries = 0]
           /\ UNCHANGED hash
        \/ /\ c[w].old # None
           /\ item' = [item EXCEPT
                ![i] = AllocHeader(c[w].key, Successor(item[c[w].old].val), item[c[w].old].expired),
                ![c[w].old].linked = FALSE]
           /\ hash' = [hash EXCEPT ![c[w].key] = None]
           /\ c' = [c EXCEPT ![w].pc = "swap", ![w].new = i, ![w].tries = 0]
  BY DEF slabs_alloc, AllocHeader
<1>2. Running(w, "alloc") /\ UNCHANGED <<settings, queue, cas_id, item_lock, lru_lock, pull, crawlers>>
  BY DEF slabs_alloc
<1>3. CASE c[w].old = None
  BY <1>1, <1>2, <1>3, AllocUploadStore
<1>4. CASE c[w].old # None
  BY <1>1, <1>2, <1>4, AllocReplaceStore
<1> QED BY <1>3, <1>4

-----------------------------------------------------------------------------
(* The steps that store a version. *)

\* Worker w writes item i under its key k; nobody else has that item.
Writes(w, k, i) ==
  /\ OthersStay(w) /\ UNCHANGED item_lock /\ cas_id' = cas_id + 1
  /\ c[w].key = k /\ c'[w].key = k /\ c'[w].pc \in {"release", "refresh"}
  /\ c'[w].unique = c[w].unique
  /\ item_lock[k] = w /\ hash'[k] = i /\ \A l \in Keys \ {k} : hash'[l] = hash[l]
  /\ item[i].key = k
  /\ \A v \in Workers \ {w} : i \notin {c[v].it, c[v].old, c[v].new}
  /\ item'[i].ver = cas_id + 1 /\ item'[i].cas = cas_id + 1
  /\ \A j \in Chunks \ {i} :
       /\ item'[j].val = item[j].val /\ item'[j].ver = item[j].ver
       /\ item'[j].expired = item[j].expired /\ item'[j].linked = item[j].linked
       /\ item[j].linked => item'[j].cas = item[j].cas

LEMMA WriteClients ==
  ASSUME IInv, SInv, IInv', NEW w \in Workers, NEW k \in Keys, NEW i \in Chunks, Writes(w, k, i),
         NEW told, c'[w].told = told, told.res = "stored"
  PROVE  SInv' /\ \A v \in Workers \ {w} : Answer(v)' = Answer(v)
<1>1. cas_id \in Nat /\ cas_id' = cas_id + 1
  BY DEF IInv, TypesOK, Writes
<1>2. ASSUME NEW v \in Workers \ {w}
      PROVE  ClientOK(c'[v], item', cas_id') /\ Answer(v)' = Answer(v)
  <2>1. c'[v] = c[v] /\ v \in Workers /\ DataStays(v)
    BY DEF Writes, OthersStay, DataStays
  <2>2. ClientOK(c[v], item, cas_id)
    BY DEF SInv
  <2>3. cas_id' \in Nat /\ cas_id' >= cas_id
    BY <1>1
  <2>4. ClientOK(c'[v], item', cas_id')
    BY <2>1, <2>2, <2>3, ClientKept
  <2>5. Answer(v)' = Answer(v)
    BY <2>1, <2>2, AnswerKept DEF DataStays
  <2> QED BY <2>4, <2>5
<1>3. ClientOK(c'[w], item', cas_id')
  <2>1. c[w].unique \in 0..cas_id
    BY DEF SInv, ClientOK
  <2>2. c'[w].unique \in 0..cas_id'
    BY <1>1, <2>1 DEF Writes
  <2> QED BY <2>2 DEF Writes, ClientOK
<1>4. ASSUME NEW j \in Chunks PROVE VersionOK(j)'
  <2>1. item'[j].linked => item'[j].ver = item'[j].cas
    <3>1. CASE j = i
      BY <3>1 DEF Writes
    <3>2. CASE j # i
      BY <3>2 DEF Writes, SInv, VersionOK
    <3> QED BY <3>1, <3>2
  <2>2. \A m \in Chunks : item[m].ver \in Nat /\ item[m].ver <= cas_id
    BY DEF IInv, TypesOK, Headers, CasOf
  <2>3. ASSUME NEW m \in Chunks, item'[j].ver = item'[m].ver, item'[j].ver > 0 PROVE j = m
    <3>1. CASE j = i \/ m = i
      BY <1>1, <2>2, <2>3, <3>1 DEF Writes
    <3>2. CASE j # i /\ m # i
      BY <2>3, <3>2 DEF Writes, SInv, VersionOK
    <3> QED BY <3>1, <3>2
  <2> QED BY <2>1, <2>3 DEF VersionOK
<1> QED BY <1>2, <1>3, <1>4 DEF SInv

LEMMA WriteStores ==
  ASSUME IInv, IInv', NEW w \in Workers, NEW k \in Keys, NEW i \in Chunks, Writes(w, k, i)
  PROVE  /\ StoredVersion(k)' \in {version(i)', None}
         /\ \A l \in Keys \ {k} : StoredVersion(l)' = StoredVersion(l)
<1>1. (\A l \in Keys : StoredBy(l)) /\ (\A l \in Keys : StoredBy(l)')
  BY StoredIs, StoredIsNext
<1>2. StoredVersion(k)' \in {version(i)', None}
  <2>1. \A v \in Workers : Updates(v, k)' => v = w
    BY DEF Writes, Updates, Holds
  <2>2. CASE Updates(w, k)'
    <3>1. c'[w].old = i
      BY <2>2, ItemsAssumption DEF Writes, Updates
    <3>2. StoredVersion(k)' = version(c[w].old)'
      BY <1>1, <2>2 DEF StoredBy
    <3> QED BY <3>1, <3>2 DEF version
  <2>3. CASE ~Updates(w, k)'
    <3>1. \A v \in Workers : ~Updates(v, k)'
      BY <2>1, <2>3
    <3>2. StoredVersion(k)' = IF Hit(k)' THEN version(hash[k])' ELSE None
      BY <1>1, <3>1 DEF StoredBy
    <3> QED BY <3>2 DEF Writes, version
  <2> QED BY <2>2, <2>3
<1>3. ASSUME NEW l \in Keys \ {k} PROVE StoredVersion(l)' = StoredVersion(l)
  <2>1. \A v \in Workers : /\ Updates(v, l)' <=> Updates(v, l)
                           /\ Updates(v, l) => v # w /\ c'[v].old = c[v].old
    BY DEF Writes, OthersStay, Updates, Holds
  <2>2. CASE \E v \in Workers : Updates(v, l)
    <3>1. PICK v \in Workers : Updates(v, l)
      BY <2>2
    <3>2. Updates(v, l)' /\ v # w /\ c'[v].old = c[v].old
      BY <2>1, <3>1
    <3>3. StoredVersion(l) = version(c[v].old) /\ StoredVersion(l)' = version(c[v].old)'
      BY <1>1, <3>1, <3>2 DEF StoredBy
    <3>4. c[v].old \in Chunks /\ c[v].old # i
      BY <3>1, <3>2 DEF Writes, Updates, IInv, WorkerOK, ConnectionOK
    <3>5. version(c[v].old)' = version(c[v].old)
      BY <3>2, <3>4 DEF Writes, version
    <3> QED BY <3>3, <3>5
  <2>3. CASE \A v \in Workers : ~Updates(v, l)
    <3>1. \A v \in Workers : ~Updates(v, l)'
      BY <2>1, <2>3
    <3>2. /\ StoredVersion(l)' = IF Hit(l)' THEN version(hash[l])' ELSE None
          /\ StoredVersion(l) = IF Hit(l) THEN version(hash[l]) ELSE None
      BY <1>1, <2>3, <3>1 DEF StoredBy
    <3>3. hash'[l] = hash[l]
      BY DEF Writes
    <3>4. CASE hash[l] = None
      BY <3>2, <3>3, <3>4 DEF Hit
    <3>5. CASE hash[l] # None
      <4>1. hash[l] \in Chunks /\ hash[l] # i
        BY <3>5, Keyed DEF TableKeyed, Writes
      <4>2. version(hash[l])' = version(hash[l]) /\ item'[hash[l]].expired = item[hash[l]].expired
        BY <3>3, <4>1 DEF Writes, version
      <4> QED BY <3>2, <3>3, <4>2 DEF Hit, Expired
    <3> QED BY <3>4, <3>5
  <2> QED BY <2>2, <2>3
<1> QED BY <1>2, <1>3

LEMMA WriteStep ==
  ASSUME IInv, SInv, IInv', NEW w \in Workers, NEW k \in Keys, NEW i \in Chunks, Writes(w, k, i),
         NEW v \in (0..MaxVal) \cup {Empty}, NEW cmd \in {"set", "add", "replace", "append", "incr", "cas"},
         Promised!Allowed(cmd, k, c[w].unique), item'[i].val = Promised!Written(cmd, k, v),
         c[w].told = None,
         c'[w].told = [res |-> "stored", cmd |-> cmd, key |-> k, unique |-> c[w].unique,
                       version |-> [val |-> item'[i].val, ver |-> cas_id + 1]]
  PROVE  SInv' /\ StoreStep
<1> DEFINE store == [l \in Keys |-> StoredVersion(l)]
           answer == [u \in Workers |-> Answer(u)]
<1>1. SInv' /\ \A u \in Workers \ {w} : Answer(u)' = Answer(u)
  <2>1. PICK told : told = c'[w].told
    OBVIOUS
  <2>2. told.res = "stored" /\ c'[w].told = told
    BY <2>1
  <2> QED BY <2>2, WriteClients
<1>2. StoredVersion(k)' \in {version(i)', None} /\ \A l \in Keys \ {k} : StoredVersion(l)' = StoredVersion(l)
  BY WriteStores
<1>3. version(i)' = [val |-> Promised!Written(cmd, k, v), ver |-> cas_id + 1]
  BY DEF version, Writes
<1>4. answer[w] = None
  BY DEF Answer
<1>5. answer' = [answer EXCEPT ![w] = [res |-> "stored", cmd |-> cmd, key |-> k,
                   version |-> version(i)', unique |-> c[w].unique]]
  <2>1. Answer(w)' = c'[w].told
    BY DEF Answer
  <2>2. Answer(w)' = [res |-> "stored", cmd |-> cmd, key |-> k, version |-> version(i)', unique |-> c[w].unique]
    BY <1>3, <2>1
  <2> QED BY <1>1, <2>2
<1>6. \E s \in {version(i)', None} : store' = [store EXCEPT ![k] = s]
  BY <1>2
<1>7. cas_id' = cas_id + 1 /\ c[w].unique \in 0..cas_id
  BY DEF Writes, SInv, ClientOK
<1>8. Promised!Write(w, cmd, k, v, c[w].unique)
  BY <1>3, <1>4, <1>5, <1>6, <1>7 DEF Promised!Write, Promised!Answer
<1> QED BY <1>1, <1>7, <1>8 DEF StoreStep, Promised!Next

\* Two references to an item in the table: the table's and this command's.
LEMMA OnlyHolder ==
  ASSUME IInv, NEW w \in Workers, NEW i \in Chunks, c[w].old = i, item[i].linked, item[i].refcount = 2
  PROVE  \A v \in Workers \ {w} : i \notin {c[v].it, c[v].old, c[v].new}
<1> SUFFICES ASSUME NEW v \in Workers \ {w}, i \in {c[v].it, c[v].old, c[v].new} PROVE FALSE
  OBVIOUS
<1>1. Its(i) \in SUBSET Workers /\ Olds(i) \in SUBSET Workers /\ News(i) \in SUBSET Workers
  BY DEF Its, Olds, News
<1>2. \A S \in SUBSET Workers : /\ IsFiniteSet(S) /\ Cardinality(S) \in Nat
                                /\ S # {} => Cardinality(S) >= 1
  <2> TAKE S \in SUBSET Workers
  <2>1. IsFiniteSet(S)
    BY ItemsAssumption, FS_Subset
  <2> QED BY <2>1, FS_CardinalityType, FS_EmptySet
<1>3. Cardinality(Its(i)) + Cardinality(Olds(i)) + Cardinality(News(i)) <= 1
  <2>1. item[i].refcount >= Hands(i) + Pulled(i) + Linked(i)
    BY DEF IInv, Counted, Refs
  <2>2. Linked(i) = 1
    BY DEF Linked
  <2>3. Hands(i) \in Nat /\ Pulled(i) \in Nat
    BY CountTypes
  <2>4. Hands(i) <= 1
    BY <2>1, <2>2, <2>3
  <2> QED BY <2>4 DEF Hands
<1>4. Cardinality(Olds(i)) >= 1
  BY <1>1, <1>2 DEF Olds
<1>5. CASE c[v].it = i \/ c[v].new = i
  <2>1. Its(i) # {} \/ News(i) # {}
    BY <1>5 DEF Its, News
  <2>2. Cardinality(Its(i)) >= 1 \/ Cardinality(News(i)) >= 1
    BY <1>1, <1>2, <2>1
  <2> QED BY <1>1, <1>2, <1>3, <1>4, <2>2
<1>6. CASE c[v].old = i
  <2> DEFINE R == Olds(i) \ {w}
  <2>1. w \in Olds(i) /\ v \in R /\ R \in SUBSET Workers
    BY <1>1, <1>6 DEF Olds
  <2>2. Cardinality(R) = Cardinality(Olds(i)) - 1
    BY <1>1, <1>2, <2>1, FS_RemoveElement
  <2>3. Cardinality(R) >= 1
    BY <1>2, <2>1
  <2> HIDE DEF R
  <2> QED BY <1>1, <1>2, <1>3, <2>2, <2>3
<1> QED BY <1>5, <1>6

LEMMA DeltaInPlaceStore ==
  ASSUME IInv, SInv, IInv', NEW w \in Workers, delta_in_place(w) PROVE SInv' /\ StoreStep
<1>1. /\ IsTable(c) /\ IsConnection(c[w]) /\ WorkerOK(w) /\ ClientOK(c[w], item, cas_id)
      /\ item \in [Chunks -> AnyHeaders] /\ cas_id \in Nat
  BY HeadersAny DEF IInv, TypesOK, SInv
<1>2. PICK told : told = Stored(w, Successor(item[c[w].old].val))
  OBVIOUS
<1>3. /\ OthersStay(w) /\ c[w].pc = "found" /\ c[w].cmd = "incr" /\ ~Refused(w)
      /\ c'[w].pc \in {"release", "refresh"}
      /\ c'[w].key = c[w].key /\ c'[w].unique = c[w].unique /\ c'[w].told = told
  <2>1. PICK pc \in AfterUpdate : c' = [c EXCEPT ![w].told = told, ![w].pc = pc]
    BY <1>2 DEF delta_in_place
  <2> QED BY <1>1, <2>1 DEF delta_in_place, AfterUpdate, Found, Running, OthersStay, IsTable, IsConnection, Fields
<1>4. /\ UNCHANGED <<hash, item_lock>> /\ cas_id' = cas_id + 1
      /\ item' = [item EXCEPT ![c[w].old].val = Successor(@), ![c[w].old].cas = cas_id + 1,
                              ![c[w].old].ver = cas_id + 1]
      /\ item[c[w].old].val # Empty /\ item[c[w].old].refcount = 2
  BY DEF delta_in_place, InPlace
<1>5. PICK k \in Keys, i \in Chunks :
        /\ k = c[w].key /\ i = c[w].old /\ i # None /\ item_lock[k] = w /\ hash[k] = i /\ item[i].linked
  BY <1>3, FoundUpd DEF Refused
<1>6. item[i].key = k
  BY <1>1, <1>5 DEF WorkerOK
<1>7. PICK n \in Nat, v \in 0..MaxVal : n = cas_id + 1 /\ v = Successor(item[i].val)
  <2>1. item[i].val \in (0..MaxVal) \cup {Empty}
    BY <1>1 DEF AnyHeaders
  <2>2. Successor(item[i].val) \in 0..MaxVal
    BY <2>1, SuccessorType
  <2>3. cas_id + 1 \in Nat
    BY <1>1
  <2> QED BY <2>2, <2>3
<1>8. /\ item'[i].val = v /\ item'[i].ver = n /\ item'[i].cas = n
      /\ \A j \in Chunks \ {i} : item'[j] = item[j]
  <2>1. item' = [item EXCEPT ![i] = [item[i] EXCEPT !.val = v, !.cas = n, !.ver = n]]
    BY <1>1, <1>4, <1>5, <1>7
  <2>2. item'[i] = [item[i] EXCEPT !.val = v, !.cas = n, !.ver = n] /\ \A j \in Chunks \ {i} : item'[j] = item[j]
    BY <1>1, <2>1
  <2> QED BY <1>1, <2>2 DEF AnyHeaders
<1>9. \A u \in Workers \ {w} : i \notin {c[u].it, c[u].old, c[u].new}
  BY <1>4, <1>5, OnlyHolder
<1>10. Writes(w, k, i)
  BY <1>3, <1>4, <1>5, <1>6, <1>7, <1>8, <1>9 DEF Writes
<1>11. StoredVersion(k) = version(i) /\ StoredVersion(k) # None
  BY <1>3, <1>5, FoundStored
<1>12. Promised!Allowed("incr", k, c[w].unique) /\ v = Promised!Written("incr", k, v)
  <2>1. StoredVersion(k).val = item[i].val /\ StoredVersion(k).ver = item[i].ver
    BY <1>11 DEF version
  <2>2. c[w].unique \in {0, item[i].ver}
    <3>1. c[w].unique \in {0, item[i].cas}
      BY <1>3, <1>5 DEF Refused
    <3> QED BY <1>5, <3>1 DEF SInv, VersionOK
  <2> QED BY <1>4, <1>5, <1>7, <1>11, <2>1, <2>2 DEF Promised!Allowed, Promised!Written, Successor
<1>13. c[w].told = None
  BY <1>1, <1>3 DEF ClientOK
<1>14. told = [res |-> "stored", cmd |-> "incr", key |-> k, unique |-> c[w].unique,
               version |-> [val |-> item'[i].val, ver |-> cas_id + 1]]
  BY <1>2, <1>3, <1>5, <1>7, <1>8 DEF Stored, NextVersion
<1>15. v \in (0..MaxVal) \cup {Empty} /\ item'[i].val = Promised!Written("incr", k, v)
  BY <1>8, <1>12
<1> QED BY <1>3, <1>10, <1>12, <1>13, <1>14, <1>15, WriteStep

LEMMA LinkStore ==
  ASSUME IInv, SInv, IInv', NEW w \in Workers, do_item_link(w) PROVE SInv' /\ StoreStep
<1>1. /\ IsTable(c) /\ IsConnection(c[w]) /\ WorkerOK(w) /\ ClientOK(c[w], item, cas_id)
      /\ item \in [Chunks -> AnyHeaders] /\ cas_id \in Nat
  BY HeadersAny DEF IInv, TypesOK, SInv
<1>2. PICK i, told : /\ i = IF c[w].new # None THEN c[w].new ELSE c[w].it
                     /\ told = Stored(w, item[i].val)
  OBVIOUS
<1>3. /\ OthersStay(w) /\ c[w].pc = "link" /\ c'[w].pc = "release"
      /\ c'[w].key = c[w].key /\ c'[w].unique = c[w].unique /\ c'[w].told = told
  <2>1. c' = [c EXCEPT ![w].told = told, ![w].pc = "release"]
    BY <1>2 DEF do_item_link
  <2>2. c[w].pc = "link"
    BY DEF do_item_link, Running
  <2> QED BY <1>1, <2>1, <2>2 DEF OthersStay, IsTable, IsConnection, Fields
<1>4. PICK n \in Nat : n = cas_id + 1
  BY <1>1
<1>5. PICK L : L = [item EXCEPT ![i].linked = TRUE, ![i].cas = n, ![i].ver = n, ![i].refcount = @ + 1]
  OBVIOUS
<1>6. /\ item' = IF c[w].cmd = "incr" THEN [L EXCEPT ![c[w].old].cas = n] ELSE L
      /\ cas_id' = n /\ hash' = [hash EXCEPT ![c[w].key] = i] /\ UNCHANGED item_lock
  BY <1>2, <1>4, <1>5 DEF do_item_link
<1>7. /\ c[w].key \in Keys /\ item_lock[c[w].key] = w /\ hash[c[w].key] = None
      /\ i \in Chunks /\ i \in {c[w].it, c[w].new} /\ i # None
      /\ c[w].new # None => c[w].old # None /\ i = c[w].new
      /\ c[w].new = None => c[w].cmd # "incr" /\ i = c[w].it
      /\ c[w].old # None => c[w].old \in Chunks /\ c[w].old # i
  <2>1. ConnectionOK(c[w]) /\ item_lock[c[w].key] = w /\ hash[c[w].key] = None
    BY <1>1, <1>3 DEF WorkerOK, Commands, Locked
  <2> QED BY <1>2, <1>3, <2>1 DEF ConnectionOK
<1>8. PICK k \in Keys : k = c[w].key /\ item[i].key = k
  BY <1>1, <1>7 DEF WorkerOK
<1>9. PICK h : /\ h = [item[i] EXCEPT !.linked = TRUE, !.cas = n, !.ver = n, !.refcount = @ + 1]
               /\ h.val = item[i].val /\ h.ver = n /\ h.cas = n /\ h \in AnyHeaders
  <2>1. item[i] \in AnyHeaders
    BY <1>1, <1>7
  <2>2. PICK m \in Int : m = item[i].refcount + 1
    BY <2>1 DEF AnyHeaders
  <2>3. PICK h : h = [item[i] EXCEPT !.linked = TRUE, !.cas = n, !.ver = n, !.refcount = m]
    OBVIOUS
  <2>4. h.val = item[i].val /\ h.ver = n /\ h.cas = n /\ h \in AnyHeaders
    BY <2>1, <2>3 DEF AnyHeaders
  <2> QED BY <2>2, <2>3, <2>4
<1>10. L \in [Chunks -> AnyHeaders] /\ L[i] = h /\ \A j \in Chunks \ {i} : L[j] = item[j]
  <2>1. L = [item EXCEPT ![i] = h]
    BY <1>5, <1>9
  <2> QED BY <1>1, <1>7, <1>9, <2>1
<1>11. c[w].old # None => ~item[c[w].old].linked
  BY <1>1, <1>7, <1>8 DEF WorkerOK, IInv, TableOK, Tabled
<1>12. /\ item'[i].val = item[i].val /\ item'[i].ver = n /\ item'[i].cas = n
       /\ \A j \in Chunks \ {i} :
            /\ item'[j].val = item[j].val /\ item'[j].ver = item[j].ver
            /\ item'[j].expired = item[j].expired /\ item'[j].linked = item[j].linked
            /\ item[j].linked => item'[j].cas = item[j].cas
  <2>1. CASE c[w].cmd # "incr"
    <3>1. item' = L
      BY <1>6, <2>1
    <3> QED BY <1>9, <1>10, <3>1
  <2>2. CASE c[w].cmd = "incr"
    <3>1. PICK o \in Chunks : o = c[w].old /\ o # i /\ ~item[o].linked
      BY <1>7, <1>11, <2>2
    <3>2. PICK g : g = [L[o] EXCEPT !.cas = n]
      OBVIOUS
    <3>3. item' = [L EXCEPT ![o] = g]
      BY <1>6, <2>2, <3>1, <3>2
    <3>4. item'[o] = g /\ \A j \in Chunks \ {o} : item'[j] = L[j]
      BY <1>10, <3>3
    <3>5. /\ g.val = item[o].val /\ g.ver = item[o].ver /\ g.expired = item[o].expired
          /\ g.linked = item[o].linked
      BY <1>1, <1>10, <3>1, <3>2 DEF AnyHeaders
    <3>6. item'[i] = h
      BY <1>7, <1>10, <3>1, <3>4
    <3>7. ASSUME NEW j \in Chunks \ {i}
          PROVE  /\ item'[j].val = item[j].val /\ item'[j].ver = item[j].ver
                 /\ item'[j].expired = item[j].expired /\ item'[j].linked = item[j].linked
                 /\ item[j].linked => item'[j].cas = item[j].cas
      <4>1. CASE j = o
        BY <3>1, <3>4, <3>5, <4>1
      <4>2. CASE j # o
        <5>1. item'[j] = item[j]
          BY <1>10, <3>4, <4>2
        <5> QED BY <5>1
      <4> QED BY <4>1, <4>2
    <3> QED BY <1>9, <3>6, <3>7
  <2> QED BY <2>1, <2>2
<1>13. \A u \in Workers \ {w} : i \notin {c[u].it, c[u].old, c[u].new}
  <2>1. Fresh(w, i)
    BY <1>3, <1>7 DEF Fresh
  <2> QED BY <1>7, <2>1 DEF IInv, Placed
<1>14. hash'[k] = i /\ \A l \in Keys \ {k} : hash'[l] = hash[l]
  BY <1>6, <1>8 DEF IInv, TypesOK
<1>15. Writes(w, k, i)
  BY <1>3, <1>4, <1>6, <1>7, <1>8, <1>12, <1>13, <1>14 DEF Writes
<1>16. /\ c[w].old # None => StoredVersion(k) = version(c[w].old) /\ StoredVersion(k) # None
       /\ c[w].old = None => StoredVersion(k) = None
  BY <1>3, <1>8, FoundStored
<1>17. c[w].old # None => /\ StoredVersion(k).val = item[c[w].old].val
                          /\ StoredVersion(k).ver = item[c[w].old].ver
  BY <1>16 DEF version
<1>18. PICK v \in (0..MaxVal) \cup {Empty} : v = item[i].val
  BY <1>1, <1>7 DEF AnyHeaders
<1>19. PICK cmd \in {"set", "add", "replace", "append", "incr", "cas"} :
         /\ cmd = c[w].cmd /\ Promised!Allowed(cmd, k, c[w].unique)
         /\ v = Promised!Written(cmd, k, v)
  <2>1. CASE c[w].new = None
    <3>1. \/ c[w].cmd = "set" \/ (c[w].cmd = "add" /\ c[w].old = None)
          \/ c[w].old # None /\ (c[w].cmd = "replace" \/ (c[w].cmd = "cas" /\ item[c[w].old].ver = c[w].unique))
      BY <1>1, <1>3, <2>1 DEF ClientOK
    <3>2. Promised!Allowed(c[w].cmd, k, c[w].unique)
      BY <1>16, <1>17, <3>1 DEF Promised!Allowed
    <3>3. c[w].cmd \in {"set", "add", "replace", "cas"}
      BY <3>1
    <3>4. v = Promised!Written(c[w].cmd, k, v)
      BY <3>3 DEF Promised!Written
    <3> QED BY <3>2, <3>3, <3>4
  <2>2. CASE c[w].new # None
    <3>1. /\ c[w].cmd = "append" \/ (c[w].cmd = "incr" /\ item[c[w].old].val # Empty)
          /\ item[i].val = Successor(item[c[w].old].val) /\ c[w].old # None
          /\ c[w].unique \in {0, item[c[w].old].ver}
      BY <1>1, <1>3, <1>7, <2>2 DEF ClientOK
    <3>2. Promised!Allowed(c[w].cmd, k, c[w].unique)
      BY <1>16, <1>17, <3>1 DEF Promised!Allowed
    <3>3. v = Promised!Written(c[w].cmd, k, v)
      BY <1>17, <1>18, <3>1 DEF Promised!Written, Successor
    <3> QED BY <3>1, <3>2, <3>3
  <2> QED BY <2>1, <2>2
<1>20. c[w].told = None
  BY <1>1, <1>3 DEF ClientOK
<1>21. told = [res |-> "stored", cmd |-> cmd, key |-> k, unique |-> c[w].unique,
               version |-> [val |-> item'[i].val, ver |-> cas_id + 1]]
  BY <1>2, <1>8, <1>12, <1>19 DEF Stored, NextVersion
<1>22. item'[i].val = Promised!Written(cmd, k, v)
  BY <1>12, <1>18, <1>19
<1>23. c'[w].told = [res |-> "stored", cmd |-> cmd, key |-> k, unique |-> c[w].unique,
                    version |-> [val |-> item'[i].val, ver |-> cas_id + 1]]
  BY <1>3, <1>21
<1>24. /\ i \in Chunks /\ cmd \in {"set", "add", "replace", "append", "incr", "cas"}
       /\ v \in (0..MaxVal) \cup {Empty}
  BY <1>7, <1>18, <1>19
<1> QED BY <1>15, <1>19, <1>20, <1>22, <1>23, <1>24, WriteStep

-----------------------------------------------------------------------------
(* Walkers, the crawler and time, which change no connection. *)

\* The thread may change what it has the lock of, or could have, but for its own command's.
Aside(t, k) ==
  /\ UNCHANGED c /\ Quiet
  /\ {item_lock[k], item_lock'[k]} \subseteq {None, t} /\ hash'[k] \in {hash[k], None}
  /\ t \in Workers => c[t].old = None \/ c[t].key # k
  /\ \A l \in Keys \ {k} : hash'[l] = hash[l] /\ item_lock'[l] = item_lock[l]

LEMMA AsideStep ==
  ASSUME IInv, SInv, IInv', NEW t, NEW k \in Keys, Aside(t, k) PROVE SInv' /\ StoreStep
<1>1. OthersStay(t) /\ cas_id' = cas_id /\ Carries(item, item')
  BY LeavesCarries DEF Aside, OthersStay, Quiet
<1>2. ~Upd(t, k) /\ ~Upd(t, k)'
  BY DEF Upd, Updates, Aside
<1>3. KeyOwn(t, k)
  BY <1>2 DEF KeyOwn, Aside
<1>4. \A l \in Keys \ {k} : KeySame(t, l)
  BY DEF KeySame, Aside, Upd, Updates, Holds
<1>5. ASSUME t \in Workers PROVE ClientOK(c'[t], item', cas_id) /\ Answer(t)' \in {Answer(t), None}
  <2>1. c'[t] = c[t] /\ ClientOK(c[t], item, cas_id) /\ cas_id \in Nat
    BY <1>5 DEF Aside, SInv, IInv, TypesOK
  <2>2. DataStays(t)
    BY <1>1, <1>5, <2>1, CarriedStays
  <2>3. Answer(t)' = Answer(t)
    BY <1>5, <2>1, <2>2, AnswerKept DEF DataStays
  <2>4. cas_id' \in Nat /\ cas_id' >= cas_id
    BY <1>1, <2>1
  <2>5. ClientOK(c'[t], item', cas_id')
    BY <1>5, <2>1, <2>2, <2>4, ClientKept
  <2> QED BY <1>1, <2>3, <2>5
<1> QED BY <1>1, <1>3, <1>4, <1>5, QuietStep

LEMMA SameStep ==
  ASSUME IInv, SInv, IInv', UNCHANGED <<item, hash, cas_id, item_lock, c>> PROVE SInv' /\ StoreStep
<1>1. PICK t : t = "crawler" /\ t \notin Workers
  BY ItemsAssumption
<1>2. OthersStay(t) /\ Carries(item, item')
  <2>1. item \in [Chunks -> AnyHeaders]
    BY HeadersAny DEF IInv
  <2> QED BY <2>1, LeavesSame, LeavesCarries DEF OthersStay
<1>3. \A k \in Keys : KeySame(t, k)
  BY <1>1 DEF KeySame, Upd
<1> QED BY <1>1, <1>2, <1>3, QuietStep

LEMMA ReapedLeaves ==
  ASSUME NEW I \in [Chunks -> AnyHeaders], NEW s \in Chunks
  PROVE  Leaves(I, do_item_remove(Unlinked(refcount_incr(I, s), s), s))
<1>1. PICK J : J = refcount_incr(I, s)
  OBVIOUS
<1>2. Leaves(I, J) /\ J \in [Chunks -> AnyHeaders]
  BY <1>1, RefLeaves DEF Leaves
<1>3. PICK K : K = Unlinked(J, s)
  OBVIOUS
<1>4. Leaves(J, K) /\ K \in [Chunks -> AnyHeaders]
  BY <1>2, <1>3, UnlinkedLeaves DEF Leaves
<1>5. Leaves(K, do_item_remove(K, s))
  BY <1>4, RemoveLeaves
<1> QED BY <1>1, <1>2, <1>3, <1>4, <1>5, LeavesTrans

LEMMA PullSame ==
  ASSUME IInv, SInv, IInv', NEW t \in Walkers, PullSkip(t) PROVE SInv' /\ StoreStep
BY SameStep DEF PullSkip

\* A walker that looks at an item of a key which is not its command's.
LEMMA TriedAside ==
  ASSUME IInv, NEW t \in Walkers, Tried(t)
  PROVE  \E s \in Chunks, k \in Keys :
           /\ s = pull[t].search /\ k = item[s].key /\ item_lock[k] = None
           /\ t \in Workers => c[t].old = None \/ c[t].key # k
<1>1. PICK s \in Chunks, k \in Keys, q \in Queues :
        /\ s = pull[t].search /\ k = item[s].key /\ q = pull[t].q
        /\ Looking(t) /\ item_lock[k] = None /\ lru_lock[q] = t /\ pull[t].cur # k
  BY TriedItem
<1>2. ASSUME t \in Workers, c[t].old # None PROVE c[t].key # k
  <2>1. Commands(t)
    BY <1>1, <1>2 DEF Looking, Commands, IInv, WorkerOK
  <2> QED BY <1>1, <1>2, <2>1 DEF Looking, IInv, WalkerOK
<1> QED BY <1>1, <1>2

LEMMA PullReapStore ==
  ASSUME IInv, SInv, IInv', NEW t \in Walkers, PullReap(t) PROVE SInv' /\ StoreStep
<1>1. PICK s \in Chunks, k \in Keys :
        /\ s = pull[t].search /\ k = item[s].key /\ item_lock[k] = None
        /\ t \in Workers => c[t].old = None \/ c[t].key # k
  BY TriedAside DEF PullReap
<1>2. /\ UNCHANGED <<cas_id, item_lock, c>> /\ hash' = [hash EXCEPT ![k] = None]
      /\ item' = do_item_remove(Unlinked(refcount_incr(item, s), s), s)
  BY <1>1 DEF PullReap
<1>3. item \in [Chunks -> AnyHeaders] /\ hash \in [Keys -> Chunks \cup {None}]
  BY HeadersAny DEF IInv, TypesOK
<1>4. Quiet
  BY <1>2, <1>3, ReapedLeaves DEF Quiet
<1>5. Aside(t, k)
  BY <1>1, <1>2, <1>3, <1>4 DEF Aside
<1> QED BY <1>5, AsideStep

LEMMA PullActiveStore ==
  ASSUME IInv, SInv, IInv', NEW t \in Walkers, PullActive(t) PROVE SInv' /\ StoreStep
<1>1. PICK s \in Chunks, k \in Keys :
        /\ s = pull[t].search /\ k = item[s].key /\ item_lock[k] = None
        /\ t \in Workers => c[t].old = None \/ c[t].key # k
  BY TriedAside DEF PullActive
<1>2. UNCHANGED <<cas_id, item_lock, c, hash>> /\ item' = [item EXCEPT ![s].active = FALSE]
  BY <1>1 DEF PullActive
<1>3. item \in [Chunks -> AnyHeaders]
  BY HeadersAny DEF IInv
<1>4. Quiet
  BY <1>2, <1>3, ActiveLeaves DEF Quiet
<1>5. Aside(t, k)
  BY <1>1, <1>2, <1>4 DEF Aside
<1> QED BY <1>5, AsideStep

LEMMA PullTakeStore ==
  ASSUME IInv, SInv, IInv', NEW t \in Walkers, PullTake(t) PROVE SInv' /\ StoreStep
<1>1. PICK s \in Chunks, k \in Keys :
        /\ s = pull[t].search /\ k = item[s].key /\ item_lock[k] = None
        /\ t \in Workers => c[t].old = None \/ c[t].key # k
  BY TriedAside DEF PullTake
<1>2. item \in [Chunks -> AnyHeaders] /\ hash \in [Keys -> Chunks \cup {None}]
  BY HeadersAny DEF IInv, TypesOK
<1>3. PICK J : J = refcount_incr(item, s)
  OBVIOUS
<1>4. Leaves(item, J) /\ J \in [Chunks -> AnyHeaders]
  BY <1>2, <1>3, RefLeaves DEF Leaves
<1>5. PICK active \in BOOLEAN, evicts \in BOOLEAN :
        /\ UNCHANGED <<cas_id, c>> /\ Lock(t, k)
        /\ item' = IF evicts THEN Unlinked([J EXCEPT ![s].active = active], s)
                             ELSE [J EXCEPT ![s].active = active]
        /\ hash' = IF evicts THEN [hash EXCEPT ![k] = None] ELSE hash
  <2>1. PICK m : m = CASE Full(pull[t].q) -> "cold"
                       [] pull[t].q = "cold" /\ ~pull[t].evict /\ item[s].active /\ settings.lru_maintainer_thread -> "warm"
                       [] OTHER -> None
    OBVIOUS
  <2>2. PICK active \in BOOLEAN : active = IF m = "warm" THEN FALSE ELSE J[s].active
    BY <1>4 DEF AnyHeaders
  <2>3. PICK evicts \in BOOLEAN : evicts = (pull[t].q = "cold" /\ pull[t].evict)
    OBVIOUS
  <2>4. [J EXCEPT ![s].active = IF m = "warm" THEN FALSE ELSE @] = [J EXCEPT ![s].active = active]
    BY <2>2
  <2> QED BY <1>1, <1>3, <2>1, <2>3, <2>4 DEF PullTake
<1>6. Quiet
  <2>1. PICK T : T = [J EXCEPT ![s].active = active]
    OBVIOUS
  <2>2. Leaves(J, T) /\ T \in [Chunks -> AnyHeaders]
    BY <1>4, <2>1, ActiveLeaves DEF Leaves
  <2>3. Leaves(T, Unlinked(T, s))
    BY <2>2, UnlinkedLeaves
  <2>4. Leaves(item, T) /\ Leaves(item, Unlinked(T, s))
    BY <1>4, <2>2, <2>3, LeavesTrans
  <2> QED BY <1>5, <2>1, <2>4 DEF Quiet
<1>7. /\ {item_lock[k], item_lock'[k]} \subseteq {None, t}
      /\ \A l \in Keys \ {k} : item_lock'[l] = item_lock[l]
  BY <1>5, LockSteps
<1>8. hash'[k] \in {hash[k], None} /\ \A l \in Keys \ {k} : hash'[l] = hash[l]
  BY <1>2, <1>5
<1>9. Aside(t, k)
  BY <1>1, <1>5, <1>6, <1>7, <1>8 DEF Aside
<1> QED BY <1>9, AsideStep

LEMMA PullFinishStore ==
  ASSUME IInv, SInv, IInv', NEW t \in Walkers, PullFinish(t) PROVE SInv' /\ StoreStep
<1>1. pull[t] \in PullRecord /\ pull[t] # None /\ item \in [Chunks -> AnyHeaders]
  BY HeadersAny DEF PullFinish, IInv, TypesOK
<1>2. PICK s \in Chunks, m \in Queues \cup {None} : s = pull[t].it /\ m = pull[t].move
  BY <1>1 DEF PullFinish, PullRecord
<1>3. PICK k \in Keys : /\ k = item[s].key /\ item_lock[k] = t
                        /\ t \in Workers /\ Commands(t) => k # c[t].key
  BY <1>1, <1>2, InItsHand DEF InHandOf
<1>4. /\ UNCHANGED <<hash, cas_id, c>> /\ Unlock(k)
      /\ \/ item' = do_item_remove(item, s)
         \/ m \in Queues /\ item' = do_item_remove([item EXCEPT ![s].lru = m], s)
  BY <1>2, <1>3 DEF PullFinish
<1>5. Quiet
  <2>1. CASE item' = do_item_remove(item, s)
    BY <1>1, <1>4, <2>1, RemoveLeaves DEF Quiet
  <2>2. CASE m \in Queues /\ item' = do_item_remove([item EXCEPT ![s].lru = m], s)
    <3>1. PICK J : J = [item EXCEPT ![s].lru = m]
      OBVIOUS
    <3>2. Leaves(item, J) /\ J \in [Chunks -> AnyHeaders]
      BY <1>1, <2>2, <3>1, LruLeaves DEF Leaves
    <3> QED BY <1>4, <2>2, <3>1, <3>2, RemoveLeaves, LeavesTrans DEF Quiet
  <2> QED BY <1>4, <2>1, <2>2
<1>6. t \in Workers => c[t].old = None \/ c[t].key # k
  BY <1>1, <1>3 DEF Commands, IInv, WorkerOK
<1>7. /\ {item_lock[k], item_lock'[k]} \subseteq {None, t}
      /\ \A l \in Keys \ {k} : item_lock'[l] = item_lock[l]
  BY <1>3, <1>4, LockSteps
<1>8. Aside(t, k)
  BY <1>4, <1>5, <1>6, <1>7 DEF Aside
<1> QED BY <1>8, AsideStep
LEMMA CrawlReapStore ==
  ASSUME IInv, SInv, IInv', NEW q \in Queues, CrawlReap(q) PROVE SInv' /\ StoreStep
<1>1. PICK s : s = Before(q, "crawler") /\ s # None
  BY DEF CrawlReap
<1>2. /\ UNCHANGED <<cas_id, item_lock, c>> /\ Crawling(q) /\ item_lock[item[s].key] = None
      /\ hash' = [hash EXCEPT ![item[s].key] = None]
      /\ item' = do_item_remove(Unlinked(refcount_incr(item, s), s), s)
  BY <1>1 DEF CrawlReap, Exclusive
<1>3. s \in Chunks /\ s \in At(q)
  BY <1>1, <1>2, CrawlSwap
<1>4. PICK k \in Keys : k = item[s].key /\ item_lock[k] = None
  BY <1>2, <1>3, InQueue
<1>5. PICK t \in Threads : t = "crawler" /\ t \notin Workers /\ t \notin Walkers
  BY Crawler
<1>6. item \in [Chunks -> AnyHeaders] /\ hash \in [Keys -> Chunks \cup {None}]
  BY HeadersAny DEF IInv, TypesOK
<1>7. Quiet
  BY <1>2, <1>3, <1>6, ReapedLeaves DEF Quiet
<1>8. Aside(t, k)
  BY <1>2, <1>4, <1>5, <1>6, <1>7 DEF Aside
<1> QED BY <1>8, AsideStep

LEMMA CrawlStore ==
  ASSUME IInv, SInv, IInv', NEW q \in Queues, Crawl(q) PROVE SInv' /\ StoreStep
<1>1. CASE CrawlReap(q)
  BY <1>1, CrawlReapStore
<1>2. CASE do_lru_crawler_start(q) \/ CrawlPass(q) \/ CrawlDone(q)
  BY <1>2, SameStep DEF do_lru_crawler_start, CrawlPass, CrawlDone
<1> QED BY <1>1, <1>2 DEF Crawl

\* What expires vanishes; what a worker has found stays what it is.
LEMMA AgeStore ==
  ASSUME IInv, SInv, IInv', NEW a \in Chunks, Age(a) PROVE SInv' /\ StoreStep
<1>1. /\ UNCHANGED <<hash, cas_id, item_lock, c>> /\ item' = [item EXCEPT ![a].expired = TRUE]
      /\ item \in [Chunks -> AnyHeaders] /\ cas_id \in Nat
  BY HeadersAny DEF Age, IInv, TypesOK
<1>2. ASSUME NEW i \in Chunks
      PROVE  /\ item'[i].val = item[i].val /\ item'[i].ver = item[i].ver /\ item'[i].cas = item[i].cas
             /\ item'[i].linked = item[i].linked /\ (item[i].expired => item'[i].expired)
  <2>1. PICK h : h = [item[a] EXCEPT !.expired = TRUE]
    OBVIOUS
  <2>2. item[a] \in AnyHeaders
    BY <1>1
  <2>3. /\ h.val = item[a].val /\ h.ver = item[a].ver /\ h.cas = item[a].cas
        /\ h.linked = item[a].linked /\ h.expired
    BY <2>1, <2>2 DEF AnyHeaders
  <2>4. item' = [item EXCEPT ![a] = h]
    BY <1>1, <2>1
  <2>5. item'[i] = IF i = a THEN h ELSE item[i]
    BY <1>1, <2>4
  <2> QED BY <2>3, <2>5
<1>3. ASSUME NEW w \in Workers PROVE ClientOK(c'[w], item', cas_id') /\ Answer(w)' = Answer(w)
  <2>1. DataStays(w) /\ c'[w] = c[w] /\ ClientOK(c[w], item, cas_id)
    BY <1>1, <1>2 DEF DataStays, SInv
  <2>2. cas_id' \in Nat /\ cas_id' >= cas_id
    BY <1>1
  <2> QED BY <2>1, <2>2, ClientKept, AnswerKept DEF DataStays
<1>4. SInv'
  <2>1. \A i \in Chunks : VersionOK(i)'
    BY <1>2 DEF SInv, VersionOK
  <2> QED BY <1>3, <2>1 DEF SInv
<1>5. ASSUME NEW k \in Keys PROVE StoredVersion(k)' \in {StoredVersion(k), None}
  <2>1. StoredBy(k) /\ StoredBy(k)'
    BY StoredIs, StoredIsNext
  <2>2. \A w \in Workers : Updates(w, k)' <=> Updates(w, k)
    BY <1>1 DEF Updates, Holds
  <2>3. \A i \in Chunks : version(i)' = version(i)
    BY <1>2 DEF version
  <2>4. CASE \E w \in Workers : Updates(w, k)
    <3>1. PICK w \in Workers : Updates(w, k)
      BY <2>4
    <3>2. StoredVersion(k) = version(c[w].old) /\ StoredVersion(k)' = version(c[w].old)'
      BY <2>1, <2>2, <3>1 DEF StoredBy
    <3>3. PICK i \in Chunks : i = c[w].old /\ i = c'[w].old
      BY <1>1, <3>1 DEF Updates, IInv, WorkerOK, ConnectionOK
    <3>4. version(c[w].old)' = version(c[w].old)
      BY <2>3, <3>3 DEF version
    <3> QED BY <3>2, <3>4
  <2>5. CASE \A w \in Workers : ~Updates(w, k)
    <3>1. /\ StoredVersion(k)' = IF Hit(k)' THEN version(hash[k])' ELSE None
          /\ StoredVersion(k) = IF Hit(k) THEN version(hash[k]) ELSE None
      BY <2>1, <2>2, <2>5 DEF StoredBy
    <3>2. SUFFICES ASSUME Hit(k)' PROVE Hit(k) /\ version(hash[k])' = version(hash[k])
      BY <3>1
    <3>3. PICK i \in Chunks : i = hash[k] /\ i = hash'[k]
      BY <1>1, <3>2, Keyed DEF TableKeyed, Hit
    <3>4. Hit(k)
      BY <1>1, <1>2, <3>2, <3>3 DEF Hit, Expired
    <3>5. version(hash[k])' = version(hash[k])
      BY <2>3, <3>3 DEF version
    <3> QED BY <3>4, <3>5
  <2> QED BY <2>4, <2>5
<1>6. PICK t : t = "crawler" /\ t \notin Workers
  BY ItemsAssumption
<1> QED BY <1>1, <1>3, <1>4, <1>5, <1>6, Lazy

-----------------------------------------------------------------------------
(* Every step. *)

LEMMA CommandStore ==
  ASSUME IInv, SInv, IInv', NEW w \in Workers, Command(w) PROVE SInv' /\ StoreStep
<1>1. CASE Abandon(w)
  BY <1>1, AbandonStore
<1>2. ASSUME NEW k \in Keys, Get(w, k) \/ Delete(w, k) \/ Update(w, k) \/ add_delta(w, k)
      PROVE  SInv' /\ StoreStep
  BY <1>2, FindStore, UpdateStore, AddDeltaStore
<1> QED BY <1>1, <1>2 DEF Command

LEMMA RelinkStore ==
  ASSUME IInv, SInv, IInv', NEW w \in Workers, Relink(w) \/ RelinkDone(w) PROVE SInv' /\ StoreStep
<1>1. CASE Relink(w)
  <2>1. c[w].pc = "got" \/ c[w].pc = "refresh"
    BY <1>1 DEF Relink, Running
  <2> QED BY <1>1, <2>1, RelinkGotStore, RefreshStore
<1>2. CASE RelinkDone(w)
  <2>1. c[w].pc = "relink_got" \/ c[w].pc = "relink_refresh"
    BY <1>2 DEF RelinkDone, Running
  <2> QED BY <1>2, <2>1, RelinkGotStore, RefreshStore
<1> QED BY <1>1, <1>2

LEMMA ServeStore ==
  ASSUME IInv, SInv, IInv', NEW w \in Workers, Serve(w) PROVE SInv' /\ StoreStep
<1>1. CASE Reap(w) \/ Format(w) \/ UnlinkDone(w) \/ item_remove(w) \/ Replied(w)
  BY <1>1, ReapStore, FormatStore, UnlinkDoneStore, ItemRemoveStore, RepliedStore
<1>2. CASE Relink(w) \/ RelinkDone(w)
  BY <1>2, RelinkStore
<1>3. CASE item_unlink(w) \/ UnlinkStale(w)
  BY <1>3, ItemUnlinkStore, UnlinkStaleStore
<1>4. CASE AllocPull(w) \/ slabs_alloc(w) \/ slabs_alloc_fails(w) \/ OutOfMemory(w)
  BY <1>4, AllocStore, AllocFailsStore, OutOfMemoryStore
<1>5. CASE store_item(w) \/ store_refused(w) \/ store_link(w) \/ store_append(w)
  BY <1>5, StoreItemStore, RefusedStore, StoreLinkStore, CombineStore
<1>6. CASE delta_empty(w) \/ delta_in_place(w) \/ delta_replace(w)
  BY <1>6, DeltaEmptyStore, DeltaInPlaceStore, CombineStore
<1>7. CASE Swap(w) \/ do_item_link(w) \/ Release(w)
  BY <1>7, SwapStore, LinkStore, ReleaseStore
<1> QED BY <1>1, <1>2, <1>3, <1>4, <1>5, <1>6, <1>7 DEF Serve

LEMMA NextStore == IInv /\ SInv /\ IInv' /\ [Next]_vars => SInv' /\ StoreStep
<1> SUFFICES ASSUME IInv, SInv, IInv', [Next]_vars PROVE SInv' /\ StoreStep
  OBVIOUS
<1>1. ASSUME NEW w \in Workers, Command(w) \/ Serve(w) PROVE SInv' /\ StoreStep
  BY <1>1, CommandStore, ServeStore
<1>2. ASSUME NEW t \in DOMAIN pull, lru_pull_tail(t) PROVE SInv' /\ StoreStep
  <2>1. t \in Walkers
    BY <1>2 DEF IInv, TypesOK
  <2> QED BY <1>2, <2>1, PullSame, PullReapStore, PullActiveStore, PullTakeStore, PullFinishStore
          DEF lru_pull_tail
<1>3. CASE lru_maintainer_juggle
  BY <1>3, SameStep DEF lru_maintainer_juggle
<1>4. CASE lru_crawler_start
  BY <1>4, SameStep DEF lru_crawler_start
<1>5. ASSUME NEW q \in Queues, Crawl(q) PROVE SInv' /\ StoreStep
  BY <1>5, CrawlStore
<1>6. ASSUME NEW i \in Chunks, Age(i) PROVE SInv' /\ StoreStep
  BY <1>6, AgeStore
<1>7. CASE UNCHANGED vars
  BY <1>7, SameStep DEF vars
<1> QED BY <1>1, <1>2, <1>3, <1>4, <1>5, <1>6, <1>7 DEF Next

LEMMA InitStore == Init => SInv /\ Promised!Init
<1> SUFFICES ASSUME Init PROVE SInv /\ Promised!Init
  OBVIOUS
<1>1. /\ item = [i \in Chunks |-> Slabbed] /\ hash = [k \in Keys |-> None] /\ cas_id = 0
      /\ c = [w \in Workers |-> Connection]
  BY DEF Init
<1>2. ASSUME NEW w \in Workers PROVE c[w] = Connection /\ Answer(w) = None
  BY <1>1 DEF Answer, Connection
<1>3. ASSUME NEW w \in Workers PROVE ClientOK(c[w], item, cas_id)
  BY <1>1, <1>2 DEF ClientOK, Connection
<1>4. ASSUME NEW i \in Chunks PROVE VersionOK(i)
  BY <1>1 DEF VersionOK, Slabbed
<1>5. ASSUME NEW k \in Keys PROVE StoredVersion(k) = None
  <2>1. \A w \in Workers : ~Updates(w, k)
    BY <1>2 DEF Updates, Connection
  <2>2. ~Hit(k)
    BY <1>1 DEF Hit
  <2> QED BY <2>1, <2>2, StoredIs DEF StoredBy
<1>6. Promised!Init
  BY <1>1, <1>2, <1>5 DEF Promised!Init
<1> QED BY <1>3, <1>4, <1>6 DEF SInv

\* Whatever the workers, keys, chunks and settings, clients see a store of versions, one command
\* after the other: what eviction, expiry and the crawler do meanwhile shows as a version that
\* vanishes, never as one that comes back or is overwritten unseen.
THEOREM StoreIsVersionedHolds == Spec => StoreIsVersioned
<1>1. Init => IInv /\ SInv /\ Promised!Init
  BY InitInv, InitStore
<1>2. IInv /\ SInv /\ [Next]_vars => IInv' /\ SInv' /\ [Promised!Next]_(Promised!storeVars)
  BY NextInv, NextStore DEF StoreStep
<1> QED BY <1>1, <1>2, PTL DEF Spec, StoreIsVersioned, Promised!Spec
=============================================================================
