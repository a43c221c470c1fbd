------------------------ MODULE SlabDealloc_proofs ------------------------
(***************************************************************************)
(* The safety of SlabDealloc, for every number of workers, classes, pages, *)
(* chunks, limits and calls.  IndInv is inductive when pages are either    *)
(* moved by slabs reassign or removed by slabs_deallocate; the rest of the *)
(* hypotheses are the assumptions of SlabDealloc.                          *)
(***************************************************************************)
EXTENDS SlabDealloc, TLAPS, SequenceTheorems, FiniteSetTheorems

-----------------------------------------------------------------------------
(* The page lists of the slab classes (slabclass[c].slab_list): what dropping  *)
(* a page, appending one and moving one from a list to another preserve.       *)

Lists == [Classes -> Seq(Pages)]

OwnedOnce(list) ==
  \A c, d \in Classes : \A i \in DOMAIN list[c], j \in DOMAIN list[d] :
     list[c][i] = list[d][j] => c = d /\ i = j

In(page, seq) == \E i \in DOMAIN seq : seq[i] = page
Held(list)    == UNION {{list[c][i] : i \in DOMAIN list[c]} : c \in Classes}

Without(list, s, i) == [list EXCEPT ![s] = RemoveAt(@, i)]
With(list, d, page) == [list EXCEPT ![d] = Append(@, page)]
Moved(list, s, i, d) ==
  [list EXCEPT ![s] = RemoveAt(@, i), ![d] = Append(@, list[s][i])]

\* RemoveAt takes the i-th element out and shifts the later ones down.
LEMMA RemoveAtFacts ==
  ASSUME NEW S, NEW s \in Seq(S), NEW i \in 1..Len(s)
  PROVE  /\ RemoveAt(s, i) \in Seq(S)
         /\ Len(RemoveAt(s, i)) = Len(s) - 1
         /\ \A j \in 1..(Len(s) - 1) :
              RemoveAt(s, i)[j] = IF j < i THEN s[j] ELSE s[j + 1]
<1> DEFINE left  == SubSeq(s, 1, i - 1)
           right == SubSeq(s, i + 1, Len(s))
<1>1. /\ left \in Seq(S) /\ Len(left) = i - 1
      /\ \A j \in 1..(i - 1) : left[j] = s[j]
  BY SubSeqProperties, ElementOfSeq
<1>2. /\ right \in Seq(S) /\ Len(right) = Len(s) - i
      /\ \A j \in 1..(Len(s) - i) : right[j] = s[i + j]
  <2>1. \A j \in (i + 1)..Len(s) : s[j] \in S
    BY ElementOfSeq
  <2>2. /\ right \in Seq(S)
        /\ Len(right) = IF i + 1 <= Len(s) THEN Len(s) - (i + 1) + 1 ELSE 0
        /\ \A j \in 1..(Len(s) - (i + 1) + 1) : right[j] = s[i + 1 + j - 1]
    BY <2>1, SubSeqProperties
  <2> QED BY <2>2
<1>3. /\ left \o right \in Seq(S)
      /\ Len(left \o right) = Len(s) - 1
      /\ \A j \in 1..(Len(s) - 1) :
           (left \o right)[j] = IF j <= i - 1 THEN left[j] ELSE right[j - (i - 1)]
  <2> HIDE DEF left, right
  <2>1. /\ left \o right \in Seq(S)
        /\ Len(left \o right) = Len(left) + Len(right)
        /\ \A j \in 1..(Len(left) + Len(right)) :
             (left \o right)[j] = IF j <= Len(left) THEN left[j] ELSE right[j - Len(left)]
    BY <1>1, <1>2, ConcatProperties
  <2>2. Len(left) = i - 1 /\ Len(left) + Len(right) = Len(s) - 1
    BY <1>1, <1>2
  <2> QED BY <2>1, <2>2
<1> HIDE DEF left, right
<1>4. \A j \in 1..(Len(s) - 1) :
         (left \o right)[j] = IF j < i THEN s[j] ELSE s[j + 1]
  BY <1>1, <1>2, <1>3
<1>5. RemoveAt(s, i) = left \o right
  BY DEF RemoveAt, left, right
<1> QED BY <1>3, <1>4, <1>5

\* The page pool gives away its last page: a special case of removal.
LEMMA FrontIsRemoveAt ==
  ASSUME NEW S, NEW s \in Seq(S), s # <<>>
  PROVE  /\ Len(s) \in 1..Len(s)
         /\ Front(s) = RemoveAt(s, Len(s))
         /\ Last(s) = s[Len(s)]
<1>1. Len(s) \in Nat /\ Len(s) >= 1 BY EmptySeq
<1>2. Front(s) \in Seq(S)
  BY <1>1, SubSeqProperties, ElementOfSeq DEF Front
<1>3. SubSeq(s, Len(s) + 1, Len(s)) = <<>>
  BY <1>1, SubSeqEmpty
<1>4. Front(s) \o <<>> = Front(s)
  BY <1>2, ConcatEmptySeq
<1> QED BY <1>1, <1>3, <1>4 DEF RemoveAt, Front, Last

\* Dropping a page leaves every other page where it was owned.
LEMMA DropPageFacts ==
  ASSUME NEW list \in Lists, NEW s \in Classes, NEW i \in 1..Len(list[s]),
         OwnedOnce(list)
  PROVE  /\ Without(list, s, i) \in Lists
         /\ OwnedOnce(Without(list, s, i))
         /\ Held(Without(list, s, i)) = Held(list) \ {list[s][i]}
         /\ \A c \in Classes : \A p :
              In(p, list[c]) /\ p # list[s][i] => In(p, Without(list, s, i)[c])
<1> DEFINE after == Without(list, s, i)
<1>1. /\ RemoveAt(list[s], i) \in Seq(Pages)
      /\ Len(RemoveAt(list[s], i)) = Len(list[s]) - 1
      /\ \A j \in 1..(Len(list[s]) - 1) :
           RemoveAt(list[s], i)[j] = IF j < i THEN list[s][j] ELSE list[s][j + 1]
  <2>1. list[s] \in Seq(Pages) BY DEF Lists
  <2> QED BY <2>1, RemoveAtFacts
<1> HIDE DEF after
<1>2. after \in Lists
  BY <1>1 DEF Lists, Without, after
<1>3. \A c \in Classes : /\ DOMAIN list[c] = 1..Len(list[c]) /\ Len(list[c]) \in Nat
                         /\ DOMAIN after[c] = 1..Len(after[c]) /\ Len(after[c]) \in Nat
  BY <1>2, LenProperties DEF Lists
<1>4. \A c \in Classes : c # s => after[c] = list[c]
  BY DEF Lists, Without, after
<1>5. /\ Len(after[s]) = Len(list[s]) - 1
      /\ \A j \in 1..(Len(list[s]) - 1) :
           after[s][j] = IF j < i THEN list[s][j] ELSE list[s][j + 1]
  BY <1>1 DEF Lists, Without, after
<1>6. /\ Len(list[s]) \in Nat /\ i \in 1..Len(list[s])
      /\ DOMAIN list[s] = 1..Len(list[s]) /\ DOMAIN after[s] = 1..(Len(list[s]) - 1)
  BY <1>3, <1>5
<1>7. \A c \in Classes : \A j \in DOMAIN after[c] :
         \E k \in DOMAIN list[c] : /\ after[c][j] = list[c][k]
                                   /\ c = s => k # i
                                   /\ k = IF c = s /\ j >= i THEN j + 1 ELSE j
  <2> SUFFICES ASSUME NEW c \in Classes, NEW j \in DOMAIN after[c]
               PROVE  \E k \in DOMAIN list[c] :
                         /\ after[c][j] = list[c][k]
                         /\ c = s => k # i
                         /\ k = IF c = s /\ j >= i THEN j + 1 ELSE j
    OBVIOUS
  <2>1. CASE c # s BY <2>1, <1>4
  <2>2. CASE c = s /\ j < i
    BY <2>2, <1>5, <1>6
  <2>3. CASE c = s /\ j >= i
    <3>1. j \in 1..(Len(list[s]) - 1)
      BY <2>3, <1>6
    <3>2. j + 1 \in DOMAIN list[s] /\ after[s][j] = list[s][j + 1]
      BY <3>1, <2>3, <1>5, <1>6
    <3> QED BY <3>1, <3>2, <2>3
  <2>4. c = s => j \in Int /\ i \in Int
    BY <1>6
  <2> QED BY <2>1, <2>2, <2>3, <2>4
<1>8. \A c \in Classes : \A k \in DOMAIN list[c] : (c = s => k # i) =>
         \E j \in DOMAIN after[c] : after[c][j] = list[c][k]
  <2> SUFFICES ASSUME NEW c \in Classes, NEW k \in DOMAIN list[c], c = s => k # i
               PROVE  \E j \in DOMAIN after[c] : after[c][j] = list[c][k]
    OBVIOUS
  <2>1. CASE c # s BY <2>1, <1>4
  <2>2. CASE c = s /\ k < i BY <2>2, <1>5, <1>6
  <2>3. CASE c = s /\ k > i
    <3>1. k - 1 \in 1..(Len(list[s]) - 1) /\ ~(k - 1 < i) /\ k - 1 + 1 = k
      BY <2>3, <1>6
    <3>2. after[s][k - 1] = list[s][k]
      BY <3>1, <1>5
    <3> QED BY <3>1, <3>2, <1>6, <2>3
  <2>4. c = s => k \in Int /\ i \in Int
    BY <1>6
  <2> QED BY <2>1, <2>2, <2>3, <2>4
<1>9. OwnedOnce(after)
  <2> SUFFICES ASSUME NEW c \in Classes, NEW d \in Classes,
                      NEW j \in DOMAIN after[c], NEW k \in DOMAIN after[d],
                      after[c][j] = after[d][k]
               PROVE  c = d /\ j = k
    BY DEF OwnedOnce
  <2>1. PICK m \in DOMAIN list[c] :
           after[c][j] = list[c][m] /\ m = IF c = s /\ j >= i THEN j + 1 ELSE j
    BY <1>7
  <2>2. PICK n \in DOMAIN list[d] :
           after[d][k] = list[d][n] /\ n = IF d = s /\ k >= i THEN k + 1 ELSE k
    BY <1>7
  <2>3. list[c][m] = list[d][n]
    BY <2>1, <2>2
  <2>4. c = d /\ m = n
    BY <2>3 DEF OwnedOnce
  <2>5. c = s => j \in Int /\ k \in Int /\ i \in Int
    BY <1>6, <2>4
  <2> QED BY <2>1, <2>2, <2>4, <2>5
<1>10. Held(after) = Held(list) \ {list[s][i]}
  <2>1. ASSUME NEW p \in Held(after) PROVE p \in Held(list) /\ p # list[s][i]
    <3>1. PICK c \in Classes : \E j \in DOMAIN after[c] : p = after[c][j]
      BY DEF Held
    <3>2. \E k \in DOMAIN list[c] : p = list[c][k] /\ (c = s => k # i)
      BY <3>1, <1>7
    <3>3. i \in DOMAIN list[s] BY <1>3
    <3> QED BY <3>2, <3>3 DEF Held, OwnedOnce
  <2>2. ASSUME NEW p \in Held(list), p # list[s][i] PROVE p \in Held(after)
    <3>1. PICK c \in Classes : \E k \in DOMAIN list[c] : p = list[c][k]
      BY DEF Held
    <3>2. \E j \in DOMAIN after[c] : after[c][j] = p
      BY <3>1, <2>2, <1>8
    <3> QED BY <3>2 DEF Held
  <2> QED BY <2>1, <2>2
<1>11. \A c \in Classes : \A p : In(p, list[c]) /\ p # list[s][i] => In(p, after[c])
  BY <1>8 DEF In
<1> QED BY <1>2, <1>9, <1>10, <1>11 DEF after

\* A page nobody owns can be appended to a list, and moves no other page.
LEMMA AppendPageFacts ==
  ASSUME NEW list \in Lists, NEW d \in Classes, NEW page \in Pages,
         OwnedOnce(list), page \notin Held(list)
  PROVE  /\ With(list, d, page) \in Lists
         /\ OwnedOnce(With(list, d, page))
         /\ Held(With(list, d, page)) = Held(list) \cup {page}
         /\ \A c \in Classes : \A p : In(p, list[c]) => In(p, With(list, d, page)[c])
         /\ \A c \in Classes : \A j \in DOMAIN list[c] :
              /\ j \in DOMAIN With(list, d, page)[c]
              /\ With(list, d, page)[c][j] = list[c][j]
         /\ In(page, With(list, d, page)[d]) /\ Last(With(list, d, page)[d]) = page
<1> DEFINE after == With(list, d, page)
<1> HIDE DEF after
<1>1. /\ after[d] \in Seq(Pages)
      /\ Len(after[d]) = Len(list[d]) + 1
      /\ \A i \in 1..Len(list[d]) : after[d][i] = list[d][i]
      /\ after[d][Len(list[d]) + 1] = page
  <2>1. list[d] \in Seq(Pages) /\ after[d] = Append(list[d], page) BY DEF Lists, With, after
  <2> QED BY <2>1, AppendProperties
<1>2. \A c \in Classes : c # d => after[c] = list[c]
  BY DEF Lists, With, after
<1>3. after \in Lists
  <2>1. Append(list[d], page) \in Seq(Pages)
    <3>1. list[d] \in Seq(Pages) BY DEF Lists
    <3> QED BY <3>1, AppendProperties
  <2> QED BY <2>1 DEF Lists, With, after
<1>4. \A c \in Classes : /\ DOMAIN list[c] = 1..Len(list[c]) /\ Len(list[c]) \in Nat
                         /\ DOMAIN after[c] = 1..Len(after[c]) /\ Len(after[c]) \in Nat
  BY <1>3, LenProperties DEF Lists
<1>5. \A c \in Classes : \A j \in DOMAIN list[c] :
         j \in DOMAIN after[c] /\ after[c][j] = list[c][j]
  BY <1>1, <1>2, <1>4
<1>6. \A c \in Classes : \A j \in DOMAIN after[c] :
         \/ j \in DOMAIN list[c] /\ after[c][j] = list[c][j]
         \/ c = d /\ j = Len(list[d]) + 1 /\ after[c][j] = page
  BY <1>1, <1>2, <1>4
<1>7. \A c \in Classes : \A j \in DOMAIN list[c] : list[c][j] # page
  BY DEF Held
<1>8. OwnedOnce(after)
  BY <1>6, <1>7 DEF OwnedOnce
<1>9. Len(list[d]) + 1 \in DOMAIN after[d]
  BY <1>1, <1>4
<1>10. Held(after) = Held(list) \cup {page}
  <2>1. ASSUME NEW p \in Held(after) PROVE p \in Held(list) \cup {page}
    <3>1. PICK c \in Classes : \E j \in DOMAIN after[c] : p = after[c][j]
      BY DEF Held
    <3> QED BY <3>1, <1>6 DEF Held
  <2>2. ASSUME NEW p \in Held(list) PROVE p \in Held(after)
    <3>1. PICK c \in Classes : \E j \in DOMAIN list[c] : p = list[c][j]
      BY DEF Held
    <3> QED BY <3>1, <1>5 DEF Held
  <2>3. page \in Held(after)
    BY <1>1, <1>9 DEF Held
  <2> QED BY <2>1, <2>2, <2>3
<1>11. \A c \in Classes : \A p : In(p, list[c]) => In(p, after[c])
  BY <1>5 DEF In
<1>12. In(page, after[d]) /\ Last(after[d]) = page
  BY <1>1, <1>9 DEF In, Last
<1> QED BY <1>3, <1>5, <1>8, <1>10, <1>11, <1>12 DEF after

\* A page that changes class is dropped from one list and appended to the other.
LEMMA MovePageFacts ==
  ASSUME NEW list \in Lists, NEW s \in Classes, NEW d \in Classes, s # d,
         NEW i \in 1..Len(list[s]), OwnedOnce(list)
  PROVE  /\ Moved(list, s, i, d) \in Lists
         /\ OwnedOnce(Moved(list, s, i, d))
         /\ Held(Moved(list, s, i, d)) = Held(list)
         /\ \A c \in Classes : \A p :
              In(p, list[c]) /\ p # list[s][i] => In(p, Moved(list, s, i, d)[c])
         /\ \A c \in Classes \ {s} : \A j \in DOMAIN list[c] :
              /\ j \in DOMAIN Moved(list, s, i, d)[c]
              /\ Moved(list, s, i, d)[c][j] = list[c][j]
         /\ In(list[s][i], Moved(list, s, i, d)[d])
         /\ Last(Moved(list, s, i, d)[d]) = list[s][i]
<1> DEFINE page    == list[s][i]
           between == Without(list, s, i)
           after   == With(between, d, page)
<1>1. page \in Pages /\ page \in Held(list)
  <2>1. list[s] \in Seq(Pages) BY DEF Lists
  <2>2. DOMAIN list[s] = 1..Len(list[s]) BY <2>1, LenProperties
  <2> QED BY <2>1, <2>2, ElementOfSeq DEF Held
<1>2. Moved(list, s, i, d) = after
  BY DEF Lists, With, Without, Moved
<1> HIDE DEF between, page
<1>3. /\ between \in Lists /\ OwnedOnce(between)
      /\ Held(between) = Held(list) \ {page}
      /\ \A c \in Classes : \A p : In(p, list[c]) /\ p # page => In(p, between[c])
      /\ \A c \in Classes \ {s} : between[c] = list[c]
  BY DropPageFacts DEF between, page, Without, Lists
<1>4. /\ after \in Lists /\ OwnedOnce(after)
      /\ Held(after) = Held(between) \cup {page}
      /\ \A c \in Classes : \A p : In(p, between[c]) => In(p, after[c])
      /\ \A c \in Classes : \A j \in DOMAIN between[c] :
           j \in DOMAIN after[c] /\ after[c][j] = between[c][j]
      /\ In(page, after[d]) /\ Last(after[d]) = page
  <2>1. page \notin Held(between)
    BY <1>3
  <2> QED BY <1>1, <1>3, <2>1, AppendPageFacts
<1> HIDE DEF after
<1> QED BY <1>1, <1>2, <1>3, <1>4 DEF page

-----------------------------------------------------------------------------
(* The vocabulary of the proof. *)

RebalType ==
  [s_clsid : Classes, d_clsid : Classes \cup {Removal}, slab_start : Pages \cup {NoPage},
   slab_index : Nat, slab_pos : 0..PerSlab, busy_items : 0..PerSlab, done : BOOLEAN]

ListInv == PagesOwnedOnce /\ MemoryCounted

-----------------------------------------------------------------------------
(* What the steps of the threads rely on. *)

\* The invariant in the vocabulary of the lemmas on lists.
LEMMA ListView ==
  ASSUME IndInv
  PROVE  /\ slab_list \in Lists /\ OwnedOnce(slab_list)
         /\ Malloced = Held(slab_list)
         /\ IsFiniteSet(Malloced) /\ Cardinality(Malloced) \in Nat /\ mem_malloced \in Nat
         /\ mem_malloced - Cardinality(Malloced) \in 0..MaxFailedMallocs
         /\ \A c \in Classes : /\ Len(slab_list[c]) \in Nat
                               /\ DOMAIN slab_list[c] = 1..Len(slab_list[c])
         /\ \A c, p : p \in PagesOf(c) <=> In(p, slab_list[c])
<1>1. slab_list \in Lists
  BY DEF IndInv, TypeOK, Lists
<1>2. OwnedOnce(slab_list)
  BY DEF IndInv, PagesOwnedOnce, OwnedOnce
<1>3. Malloced = Held(slab_list)
  BY DEF Malloced, PagesOf, Held
<1>4. \A c \in Classes : /\ Len(slab_list[c]) \in Nat
                         /\ DOMAIN slab_list[c] = 1..Len(slab_list[c])
                         /\ \A i \in DOMAIN slab_list[c] : slab_list[c][i] \in Pages
  BY <1>1, LenProperties, ElementOfSeq DEF Lists
<1>5. Held(slab_list) \in SUBSET Pages
  BY <1>4 DEF Held
<1>6. IsFiniteSet(Malloced)
  BY <1>3, <1>5, PagesAssumption, FS_Subset
<1>7. \A c, p : p \in PagesOf(c) <=> In(p, slab_list[c])
  BY DEF PagesOf, In
<1>8. Cardinality(Malloced) \in Nat
  BY <1>6, FS_CardinalityType
<1>9. mem_malloced \in Nat /\ mem_malloced - Cardinality(Malloced) \in 0..MaxFailedMallocs
  BY DEF IndInv, TypeOK, MemoryCounted
<1> QED BY <1>1, <1>2, <1>3, <1>4, <1>6, <1>7, <1>8, <1>9

LEMMA ListInvUnchanged ==
  ASSUME ListInv, UNCHANGED classVars
  PROVE  ListInv'
BY DEF ListInv, PagesOwnedOnce, MemoryCounted, Malloced, PagesOf, classVars

\* Lists that own every page once, and hardly more pages counted than owned.
LEMMA ListInvNext ==
  ASSUME slab_list' \in Lists, OwnedOnce(slab_list'),
         mem_malloced' - Cardinality(Held(slab_list')) \in 0..MaxFailedMallocs
  PROVE  ListInv'
BY DEF ListInv, PagesOwnedOnce, OwnedOnce, MemoryCounted, Malloced, PagesOf, Held

\* Nobody refers to a page whose chunks have all been cleared.
LEMMA PageClear ==
  ASSUME IndInv
  PROVE  PageClearAtFinish
<1> SUFFICES ASSUME rpc \in {"finish", "finishing"}
             PROVE  cleared = Chunks /\ \A w \in Workers : ref[w].page # slab_rebal.slab_start
  BY DEF PageClearAtFinish
<1>1. slab_rebalance_signal = 2
  BY DEF IndInv, SignalInStep
<1>2. cleared = Chunks /\ slab_rebal.slab_start # NoPage
  BY <1>1 DEF IndInv, SweepProgress
<1>3. ASSUME NEW w \in Workers PROVE ref[w].page # slab_rebal.slab_start
  <2>1. CASE ref[w] = NoItem
    BY <2>1, <1>2 DEF NoItem
  <2>2. CASE ref[w] # NoItem
    <3>1. ref[w] \in Items /\ ref[w].chunk \in Chunks
      BY <2>2 DEF IndInv, TypeOK, Items
    <3> QED BY <3>1, <2>2, <1>2 DEF IndInv, ClearedUnreferenced, IsCleared
  <2> QED BY <2>1, <2>2
<1> QED BY <1>2, <1>3

\* While pages are monitored nobody moves a page between classes.
LEMMA MonitoringMeansRemoval ==
  ASSUME OneMoverUser, IndInv, slab_rebalance_signal # 0, monitoring_slabs
  PROVE  slab_rebal.d_clsid = Removal
BY DEF IndInv, RequestSound, MonitoringInStep, OneMoverUser, TypeOK

-----------------------------------------------------------------------------
(* Facts on single actions. *)

\* Two fields of slab_rebal change when a page is asked for.
LEMMA RequestType ==
  ASSUME NEW r \in RebalType, NEW src \in Classes, NEW dst \in Classes \cup {Removal}
  PROVE  /\ [r EXCEPT !.s_clsid = src, !.d_clsid = dst] \in RebalType
         /\ [r EXCEPT !.s_clsid = src, !.d_clsid = dst].s_clsid = src
         /\ [r EXCEPT !.s_clsid = src, !.d_clsid = dst].d_clsid = dst
BY DEF RebalType

\* slab_rebal after a page has been moved or removed.
LEMMA RebalDoneType ==
  ASSUME slab_rebal \in RebalType
  PROVE  /\ RebalDone \in RebalType
         /\ RebalDone.slab_start = NoPage /\ RebalDone.busy_items = 0
<1>1. 0 \in Classes /\ 0 \in 0..PerSlab
  BY ClassesAssumption, PerSlabAssumption DEF Classes
<1>2. NoRebal \in RebalType
  BY <1>1 DEF NoRebal, RebalType
<1>3. slab_rebal.slab_index \in Nat
  BY DEF RebalType
<1> QED BY <1>2, <1>3 DEF RebalDone, RebalType, NoRebal

\* A new page: no page of a slab class is touched.
LEMMA NewSlabFacts ==
  ASSUME IndInv, NEW id \in 1..PowerLargest, do_slabs_newslab(id)
  PROVE  /\ slab_list' \in Lists /\ ListInv' /\ mem_malloced' \in Nat
         /\ ~monitoring_slabs
         /\ \A c \in 1..PowerLargest : \A j \in DOMAIN slab_list[c] :
              j \in DOMAIN slab_list'[c] /\ slab_list'[c][j] = slab_list[c][j]
         /\ In(Last(slab_list'[id]), slab_list'[id]) /\ Last(slab_list'[id]) \in Pages
         /\ \A c \in 1..PowerLargest : ~In(Last(slab_list'[id]), slab_list[c])
<1> USE ListView
<1>1. id \in Classes /\ Pool \in Classes /\ id # Pool /\ 1..PowerLargest \subseteq Classes \ {Pool}
  BY ClassesAssumption DEF Classes, Pool
<1>2. mem_malloced \in Nat
  BY DEF IndInv, TypeOK
<1>3. CASE PageFromPool(id)
  <2> DEFINE n == Len(slab_list[Pool])
  <2>1. /\ slab_list[Pool] \in Seq(Pages) /\ slab_list[Pool] # <<>>
        /\ n \in 1..n /\ Last(slab_list[Pool]) = slab_list[Pool][n]
        /\ Front(slab_list[Pool]) = RemoveAt(slab_list[Pool], n)
    BY <1>1, <1>3, FrontIsRemoveAt DEF PageFromPool, Lists
  <2>2. slab_list' = Moved(slab_list, Pool, n, id)
    BY <1>3, <2>1 DEF PageFromPool, Moved
  <2>3. n \in 1..Len(slab_list[Pool])
    BY <2>1
  <2> HIDE DEF n
  <2>4. /\ slab_list' \in Lists /\ OwnedOnce(slab_list')
        /\ Held(slab_list') = Held(slab_list)
        /\ \A c \in Classes \ {Pool} : \A j \in DOMAIN slab_list[c] :
             j \in DOMAIN slab_list'[c] /\ slab_list'[c][j] = slab_list[c][j]
        /\ In(slab_list[Pool][n], slab_list'[id])
        /\ Last(slab_list'[id]) = slab_list[Pool][n]
    BY <1>1, <2>2, <2>3, MovePageFacts
  <2>5. mem_malloced' = mem_malloced /\ ~monitoring_slabs
    BY <1>3 DEF PageFromPool, do_slabs_newslab
  <2>6. ListInv'
    BY <1>2, <2>4, <2>5, ListInvNext
  <2>7. slab_list[Pool][n] \in Pages
    BY <2>1, <2>3, ElementOfSeq
  <2>8. \A c \in Classes \ {Pool} : ~In(slab_list[Pool][n], slab_list[c])
    BY <1>1, <2>3 DEF In, OwnedOnce
  <2> QED BY <1>1, <1>2, <2>4, <2>5, <2>6, <2>7, <2>8
<1>4. CASE \E page \in Pages : PageFromMalloc(id, page)
  <2>1. PICK page \in Pages : PageFromMalloc(id, page)
    BY <1>4
  <2>2. slab_list' = With(slab_list, id, page) /\ page \notin Held(slab_list)
    BY <2>1 DEF PageFromMalloc, With
  <2>3. /\ slab_list' \in Lists /\ OwnedOnce(slab_list')
        /\ Held(slab_list') = Held(slab_list) \cup {page}
        /\ \A c \in Classes : \A j \in DOMAIN slab_list[c] :
             j \in DOMAIN slab_list'[c] /\ slab_list'[c][j] = slab_list[c][j]
        /\ In(page, slab_list'[id]) /\ Last(slab_list'[id]) = page
    BY <1>1, <2>2, AppendPageFacts
  <2>4. Cardinality(Held(slab_list')) = Cardinality(Held(slab_list)) + 1
    <3>1. IsFiniteSet(Held(slab_list))
      OBVIOUS
    <3>2. Cardinality(Held(slab_list) \cup {page}) =
            IF page \in Held(slab_list) THEN Cardinality(Held(slab_list))
                                        ELSE Cardinality(Held(slab_list)) + 1
      BY <3>1, FS_AddElement
    <3> QED BY <2>2, <2>3, <3>2
  <2>5. mem_malloced' = mem_malloced + 1 /\ ~monitoring_slabs
    BY <2>1 DEF PageFromMalloc, do_slabs_newslab
  <2>6. ListInv'
    <3>1. mem_malloced' - Cardinality(Held(slab_list')) = mem_malloced - Cardinality(Malloced)
      BY <1>2, <2>4, <2>5
    <3> QED BY <2>3, <3>1, ListInvNext
  <2>7. \A c \in Classes : ~In(page, slab_list[c])
    BY <2>2 DEF In, Held
  <2> QED BY <1>1, <1>2, <2>3, <2>5, <2>6, <2>7
<1> QED BY <1>3, <1>4 DEF do_slabs_newslab

\* The index chosen by slab_rebalance_start.
LEMMA StartedRebal ==
  ASSUME OneMoverUser, IndInv, RebalanceStart
  PROVE  /\ slab_rebal' \in RebalType
         /\ slab_rebal'.s_clsid = slab_rebal.s_clsid /\ slab_rebal'.d_clsid = slab_rebal.d_clsid
         /\ slab_rebal'.slab_pos = 0 /\ slab_rebal'.busy_items = 0
         /\ slab_rebal'.slab_index \in DOMAIN slab_list[slab_rebal.s_clsid]
         /\ slab_rebal'.slab_start = slab_list[slab_rebal.s_clsid][slab_rebal'.slab_index]
         /\ slab_rebal'.slab_start \in Pages
         /\ slab_rebal.d_clsid # Removal => slab_rebal'.slab_index = 1
<1> USE DEF IndInv
<1>1. slab_rebalance_signal = 1 /\ slab_rebal.busy_items = 0 /\ slab_rebal \in RebalType
  BY DEF RebalanceStart, SignalInStep, SweepProgress, TypeOK, RebalType
<1>2. PICK i \in VictimIndices(slab_rebal.s_clsid) :
         /\ i \in DOMAIN slab_list[slab_rebal.s_clsid]
         /\ slab_rebal' = [slab_rebal EXCEPT
                             !.slab_start = slab_list[slab_rebal.s_clsid][i],
                             !.slab_index = i, !.slab_pos = 0, !.done = FALSE]
  BY DEF RebalanceStart
<1>3. slab_list[slab_rebal.s_clsid] \in Seq(Pages)
  BY <1>1 DEF TypeOK, RebalType
<1>4. i \in Nat /\ slab_list[slab_rebal.s_clsid][i] \in Pages
  BY <1>2, <1>3, LenProperties, ElementOfSeq
<1>5. slab_rebal.d_clsid # Removal => i = 1
  BY <1>1, <1>2, MonitoringMeansRemoval DEF VictimIndices
<1> QED BY <1>1, <1>2, <1>4, <1>5, PerSlabAssumption DEF RebalType

\* One chunk further in a sweep: no chunk is passed over unless a busy one is counted.
LEMMA AdvanceFacts ==
  ASSUME IndInv, slab_rebalance_signal = 2, rpc \in {"loop", "unlinking"},
         NEW busy \in {0, 1}, Advance(busy),
         cleared \subseteq cleared', cleared' \subseteq Chunks,
         busy = 1 \/ slab_rebal.slab_pos \in cleared',
         UNCHANGED <<slab_rebalance_signal, slab_list>>
  PROVE  /\ slab_rebal' \in RebalType /\ rpc' \in {"loop", "finish"}
         /\ slab_rebal'.s_clsid = slab_rebal.s_clsid /\ slab_rebal'.d_clsid = slab_rebal.d_clsid
         /\ slab_rebal'.slab_start = slab_rebal.slab_start
         /\ slab_rebal'.slab_index = slab_rebal.slab_index
         /\ SweepProgress'
<1> DEFINE p == slab_rebal.slab_pos
           b == slab_rebal.busy_items
           n == b + busy
           last == p + 1 = PerSlab
<1> USE DEF IndInv
<1>1. slab_rebal \in RebalType
  BY DEF TypeOK, RebalType
<1>2. /\ p \in 0..(PerSlab - 1) /\ b \in 0..p
      /\ b = 0 => 0..(p - 1) \subseteq cleared
  BY <1>1, PerSlabAssumption DEF SweepProgress, RebalType
<1>3. /\ slab_rebal'.slab_pos = IF last /\ n > 0 THEN 0 ELSE p + 1
      /\ slab_rebal'.busy_items = IF last THEN 0 ELSE n
      /\ slab_rebal'.done = (last /\ n = 0)
      /\ slab_rebal' \in [s_clsid : Classes, d_clsid : Classes \cup {Removal},
                          slab_start : Pages \cup {NoPage}, slab_index : Nat,
                          slab_pos : {slab_rebal'.slab_pos},
                          busy_items : {slab_rebal'.busy_items}, done : {slab_rebal'.done}]
      /\ slab_rebal'.s_clsid = slab_rebal.s_clsid /\ slab_rebal'.d_clsid = slab_rebal.d_clsid
      /\ slab_rebal'.slab_start = slab_rebal.slab_start
      /\ slab_rebal'.slab_index = slab_rebal.slab_index
      /\ rpc' = IF last /\ n = 0 THEN "finish" ELSE "loop"
  BY <1>1 DEF Advance, RebalType
<1>4. slab_rebal'.slab_pos \in 0..PerSlab /\ slab_rebal'.busy_items \in 0..PerSlab
      /\ slab_rebal'.done \in BOOLEAN
  BY <1>2, <1>3, PerSlabAssumption
<1>5. slab_rebal' \in RebalType
  BY <1>3, <1>4 DEF RebalType
<1>6. n = 0 => 0..p \subseteq cleared'
  <2> SUFFICES ASSUME n = 0, NEW k \in 0..p PROVE k \in cleared'
    OBVIOUS
  <2>1. b = 0 /\ p \in cleared'
    BY <1>2
  <2>2. k = p \/ k \in 0..(p - 1)
    <3>1. \A m \in Nat : \A j \in 0..m : j = m \/ j \in 0..(m - 1)
      OBVIOUS
    <3>2. p \in Nat
      BY <1>2, PerSlabAssumption
    <3> HIDE DEF p
    <3> QED BY <3>1, <3>2
  <2> QED BY <2>1, <2>2, <1>2
<1>7. CASE last /\ n = 0
  <2>1. cleared' = Chunks
    <3>1. Chunks = 0..p
      BY <1>2, <1>7, PerSlabAssumption DEF Chunks
    <3> QED BY <1>6, <1>7, <3>1
  <2> QED BY <1>3, <1>5, <1>7, <2>1 DEF SweepProgress, HasSparePage
<1>8. CASE ~(last /\ n = 0)
  <2>1. /\ slab_rebal'.slab_pos < PerSlab /\ slab_rebal'.busy_items <= slab_rebal'.slab_pos
        /\ slab_rebal'.busy_items = 0 => 0..(slab_rebal'.slab_pos - 1) \subseteq cleared'
    BY <1>2, <1>3, <1>6, <1>8, PerSlabAssumption
  <2> QED BY <1>3, <1>5, <1>8, <2>1 DEF SweepProgress, HasSparePage
<1> QED BY <1>3, <1>5, <1>7, <1>8

\* set_slab_active changes a sketch, and no list of sketches.
LEMMA HllsAfterActive ==
  ASSUME IndInv, NEW w \in Workers, SetSlabActive(w)
  PROVE  /\ hlls' \in [Classes -> Seq(0..MaxEstimate)]
         /\ \A c \in Classes : Len(hlls'[c]) = Len(hlls[c])
<1>1. hlls \in [Classes -> Seq(0..MaxEstimate)] /\ ref[w].cls \in Classes
  <2>1. ref[w] \in Items \cup {NoItem} /\ hlls \in [Classes -> Seq(0..MaxEstimate)]
    BY DEF IndInv, TypeOK
  <2>2. 0 \in Classes /\ 1..PowerLargest \subseteq Classes
    BY ClassesAssumption DEF Classes
  <2> QED BY <2>1, <2>2 DEF Items, NoItem
<1>2. CASE UNCHANGED hlls
  BY <1>1, <1>2
<1>3. CASE ~UNCHANGED hlls
  <2> DEFINE c == ref[w].cls
             i == ActiveIndex(ref[w])
  <2>1. /\ i \in DOMAIN hlls[c] /\ hlls[c][i] < MaxEstimate
        /\ hlls' = [hlls EXCEPT ![c][i] = @ + 1]
    <3>1. i \in DOMAIN hlls[c] /\ hlls[c][i] < MaxEstimate
      BY <1>3 DEF SetSlabActive, HasSketch
    <3>2. hlls' = [hlls EXCEPT ![c][i] = @ + 1]
      BY <1>3 DEF SetSlabActive
    <3> QED BY <3>1, <3>2
  <2> HIDE DEF i
  <2>2. hlls[c] \in Seq(0..MaxEstimate) /\ i \in 1..Len(hlls[c])
    BY <1>1, <2>1, LenProperties
  <2>3. hlls[c][i] + 1 \in 0..MaxEstimate
    BY <2>1, <2>2, ElementOfSeq, BoundsAssumption
  <2> DEFINE sketches == [hlls[c] EXCEPT ![i] = hlls[c][i] + 1]
  <2>4. sketches \in Seq(0..MaxEstimate) /\ Len(sketches) = Len(hlls[c])
    BY <2>2, <2>3, ExceptSeq
  <2>5. hlls' = [hlls EXCEPT ![c] = sketches]
    BY <2>1
  <2> HIDE DEF sketches
  <2> QED BY <1>1, <2>4, <2>5
<1> QED BY <1>2, <1>3

-----------------------------------------------------------------------------
(* Every action keeps the invariant. *)

LEMMA SlabsAllocLockInv ==
  ASSUME IndInv, NEW w \in Workers, SlabsAllocLock(w)
  PROVE  IndInv'
<1> USE DEF IndInv
<1>1. TypeOK'
  BY WorkersAssumption
  DEF TypeOK, SlabsAllocLock, classVars, monVars, rebalVars, condVars, provVars
<1>2. LocksHeld'
  BY WorkersAssumption
  DEF TypeOK, LocksHeld, SlabsAllocLock, classVars, monVars, rebalVars, condVars, provVars
<1>3. /\ SignalInStep' /\ RequestSound' /\ MonitoringInStep' /\ SweepProgress'
      /\ SweptPageInPlace' /\ ClearedUnreferenced' /\ ListInv' /\ NoDanglingItem'
      /\ MonitorConsistent'
  BY ListInvUnchanged
  DEF SignalInStep, RequestSound, MonitoringInStep, SweepProgress, HasSparePage,
      SweptPageInPlace, ClearedUnreferenced, IsCleared, NoDanglingItem, PagesOf,
      MonitorConsistent, SlabsAllocLock, classVars, monVars, rebalVars, condVars, provVars,
      ListInv
<1> QED BY <1>1, <1>2, <1>3 DEF ListInv

LEMMA SlabsAllocFreeInv ==
  ASSUME IndInv, NEW w \in Workers, SlabsAllocFree(w)
  PROVE  IndInv'
<1> USE DEF IndInv
<1>1. TypeOK'
  BY WorkersAssumption
  DEF TypeOK, SlabsAllocFree, SlabsAllocEnd, FreeChunk, Items, classVars, monVars,
      rebalVars, condVars, provVars
<1>2. LocksHeld'
  BY WorkersAssumption
  DEF TypeOK, LocksHeld, SlabsAllocFree, SlabsAllocEnd, FreeChunk, Items, classVars,
      monVars, rebalVars, condVars, provVars
<1>3. ClearedUnreferenced'
  BY DEF TypeOK, ClearedUnreferenced, IsCleared, SlabsAllocFree, SlabsAllocEnd, FreeChunk,
         Items, classVars, monVars, rebalVars, condVars, provVars
<1>4. NoDanglingItem'
  <2> SUFFICES ASSUME NEW v \in Workers, ref'[v] # NoItem
               PROVE  In(ref'[v].page, slab_list[ref'[v].cls])
    BY DEF NoDanglingItem, PagesOf, In, SlabsAllocFree, classVars, SlabsAllocEnd
  <2>1. CASE v = w
    <3>1. PICK id \in ItemClasses, it \in Items :
             FreeChunk(id, it) /\ ref' = [ref EXCEPT ![w] = it]
      BY DEF SlabsAllocFree
    <3>2. ref'[v] = it
      BY <2>1, <3>1 DEF TypeOK
    <3> QED BY <3>1, <3>2 DEF FreeChunk, PagesOf, In
  <2>2. CASE v # w
    <3>1. ref'[v] = ref[v]
      BY <2>2 DEF SlabsAllocFree, TypeOK
    <3> QED BY <3>1 DEF NoDanglingItem, PagesOf, In
  <2> QED BY <2>1, <2>2
<1>5. /\ SignalInStep' /\ RequestSound' /\ MonitoringInStep' /\ SweepProgress'
      /\ SweptPageInPlace' /\ ListInv' /\ MonitorConsistent'
  BY ListInvUnchanged
  DEF SignalInStep, RequestSound, MonitoringInStep, SweepProgress, HasSparePage,
      SweptPageInPlace, MonitorConsistent, SlabsAllocFree, SlabsAllocEnd, classVars,
      monVars, rebalVars, condVars, provVars, ListInv
<1> QED BY <1>1, <1>2, <1>3, <1>4, <1>5 DEF ListInv

LEMMA SlabsAllocNewSlabInv ==
  ASSUME IndInv, NEW w \in Workers, SlabsAllocNewSlab(w)
  PROVE  IndInv'
<1> USE DEF IndInv
<1>1. PICK id \in ItemClasses :
         /\ do_slabs_newslab(id)
         /\ ref' = [ref EXCEPT ![w] = [cls |-> id, page |-> Last(slab_list'[id]),
                                       chunk |-> PerSlab - 1]]
  BY DEF SlabsAllocNewSlab
<1> DEFINE page == Last(slab_list'[id])
<1>2. id \in 1..PowerLargest
  BY ClassesAssumption
<1>3. /\ slab_list' \in Lists /\ ListInv' /\ mem_malloced' \in Nat
      /\ ~monitoring_slabs
      /\ \A c \in 1..PowerLargest : \A j \in DOMAIN slab_list[c] :
           j \in DOMAIN slab_list'[c] /\ slab_list'[c][j] = slab_list[c][j]
      /\ In(page, slab_list'[id]) /\ page \in Pages
      /\ \A c \in 1..PowerLargest : ~In(page, slab_list[c])
  BY <1>1, <1>2, NewSlabFacts
<1> HIDE DEF page
<1>4. ref' = [ref EXCEPT ![w] = [cls |-> id, page |-> page, chunk |-> PerSlab - 1]]
  BY <1>1 DEF page
<1>5. PerSlab - 1 \in Chunks
  BY PerSlabAssumption DEF Chunks
<1>6. TypeOK'
  <2>1. [cls |-> id, page |-> page, chunk |-> PerSlab - 1] \in Items
    BY <1>2, <1>3, <1>5 DEF Items
  <2>2. ref' \in [Workers -> Items \cup {NoItem}]
    BY <1>4, <2>1 DEF TypeOK
  <2>3. slab_list' \in [Classes -> Seq(Pages)] /\ mem_malloced' \in Nat
    BY <1>3 DEF Lists
  <2>4. /\ mon_slabs_lock' = "none" /\ wpc' = [wpc EXCEPT ![w] = "idle"]
        /\ UNCHANGED <<sorted_list, hlls, mon_slabs, monitoring_slabs, slab_rebalance_signal,
                       slab_rebal, cleared, slabs_rebalance_lock, waiting, ppc, mem_limit,
                       rounds, rpc>>
    BY DEF SlabsAllocNewSlab, SlabsAllocEnd, monVars, rebalVars, condVars, provVars
  <2>5. wpc' \in [Workers -> {"idle", "alloc", "get", "active", "crashed", "aborted"}]
    BY <2>4 DEF TypeOK
  <2> QED BY <2>2, <2>3, <2>4, <2>5, SMTT(30) DEF TypeOK
<1>7. /\ LocksHeld' /\ SignalInStep' /\ RequestSound' /\ MonitoringInStep'
      /\ MonitorConsistent'
  BY <1>3, WorkersAssumption
  DEF LocksHeld, SignalInStep, RequestSound, MonitoringInStep, MonitorConsistent, TypeOK,
      SlabsAllocNewSlab, SlabsAllocEnd, monVars, rebalVars, condVars, provVars
<1>8. UNCHANGED <<slab_rebalance_signal, slab_rebal, cleared, rpc>>
  BY DEF SlabsAllocNewSlab, SlabsAllocEnd, rebalVars
<1>9. slab_rebalance_signal = 2 => /\ slab_rebal.s_clsid \in 1..PowerLargest
                                   /\ In(slab_rebal.slab_start, slab_list[slab_rebal.s_clsid])
  BY DEF RequestSound, SweptPageInPlace, In, TypeOK, Classes, Pool
<1>10. SweptPageInPlace'
  BY <1>3, <1>8, <1>9 DEF SweptPageInPlace
<1>11. SweepProgress'
  <2>1. ASSUME NEW c \in 1..PowerLargest, HasSparePage(c) PROVE HasSparePage(c)'
    <3>1. slab_list[c] \in Seq(Pages) /\ slab_list'[c] \in Seq(Pages)
      <4>1. c \in Classes
        BY ClassesAssumption DEF Classes
      <4> QED BY <1>3, <4>1 DEF TypeOK, Lists
    <3>2. /\ DOMAIN slab_list[c] = 1..Len(slab_list[c]) /\ Len(slab_list[c]) \in Nat
          /\ DOMAIN slab_list'[c] = 1..Len(slab_list'[c]) /\ Len(slab_list'[c]) \in Nat
      BY <3>1, LenProperties
    <3>3. 2 \in DOMAIN slab_list[c]
      BY <2>1, <3>2 DEF HasSparePage
    <3>4. 2 \in DOMAIN slab_list'[c]
      BY <1>3, <3>3
    <3> QED BY <3>2, <3>4 DEF HasSparePage
  <2>2. slab_rebalance_signal = 2 => HasSparePage(slab_rebal.s_clsid)'
    BY <1>8, <1>9, <2>1 DEF SweepProgress
  <2> QED BY <1>8, <2>2 DEF SweepProgress
<1>12. ClearedUnreferenced'
  <2> SUFFICES ASSUME NEW v \in Workers, ref'[v] # NoItem
               PROVE  ~(ref'[v].page = slab_rebal.slab_start /\ ref'[v].chunk \in cleared)
    BY <1>8 DEF ClearedUnreferenced, IsCleared
  <2>1. CASE v = w
    <3>1. ref'[v].page = page
      BY <1>4, <2>1 DEF TypeOK
    <3>2. slab_rebalance_signal # 2 => cleared = {}
      BY DEF SweepProgress
    <3> QED BY <1>3, <1>9, <3>1, <3>2
  <2>2. CASE v # w
    BY <1>4, <2>2 DEF ClearedUnreferenced, IsCleared, TypeOK
  <2> QED BY <2>1, <2>2
<1>13. NoDanglingItem'
  <2> SUFFICES ASSUME NEW v \in Workers, ref'[v] # NoItem
               PROVE  In(ref'[v].page, slab_list'[ref'[v].cls])
    BY DEF NoDanglingItem, PagesOf, In
  <2>1. CASE v = w
    BY <1>3, <1>4, <2>1 DEF TypeOK
  <2>2. CASE v # w
    <3>1. ref'[v] = ref[v]
      BY <1>4, <2>2 DEF TypeOK
    <3>2. ref[v] \in Items /\ ref[v] # NoItem
      BY <3>1 DEF TypeOK
    <3>3. ref[v].cls \in 1..PowerLargest
      BY <3>2 DEF Items
    <3>4. In(ref[v].page, slab_list[ref[v].cls])
      BY <3>2 DEF NoDanglingItem, PagesOf, In
    <3> QED BY <1>3, <3>1, <3>3, <3>4 DEF In
  <2> QED BY <2>1, <2>2
<1> QED BY <1>3, <1>6, <1>7, <1>10, <1>11, <1>12, <1>13 DEF ListInv

LEMMA SlabsAllocNoMemoryInv ==
  ASSUME IndInv, NEW w \in Workers, SlabsAllocNoMemory(w)
  PROVE  IndInv'
<1> USE DEF IndInv
<1>1. /\ mem_malloced - Cardinality(Malloced) < MaxFailedMallocs
      /\ mem_malloced' = mem_malloced + 1
      /\ mon_slabs_lock' = "none" /\ wpc' = [wpc EXCEPT ![w] = "idle"]
      /\ UNCHANGED <<slab_list, ref, monVars, rebalVars, condVars, provVars, rpc>>
  BY DEF SlabsAllocNoMemory, SlabsAllocEnd
<1>2. ListInv' /\ mem_malloced' \in Nat
  <2>1. slab_list' \in Lists /\ OwnedOnce(slab_list') /\ Held(slab_list') = Malloced
    BY <1>1, ListView
  <2>2. mem_malloced' - Cardinality(Held(slab_list')) \in 0..MaxFailedMallocs
    BY <1>1, <2>1, ListView, BoundsAssumption
  <2>3. mem_malloced' \in Nat
    BY <1>1, ListView
  <2> QED BY <2>1, <2>2, <2>3, ListInvNext
<1>3. TypeOK'
  <2>1. wpc' \in [Workers -> {"idle", "alloc", "get", "active", "crashed", "aborted"}]
    BY <1>1 DEF TypeOK
  <2>2. UNCHANGED <<slab_list, ref, sorted_list, hlls, mon_slabs, monitoring_slabs,
                    slab_rebalance_signal, slab_rebal, cleared, slabs_rebalance_lock, waiting,
                    ppc, mem_limit, rounds, rpc>>
    BY <1>1 DEF monVars, rebalVars, condVars, provVars
  <2>3. mem_malloced' \in Nat /\ mon_slabs_lock' = "none"
    BY <1>1, <1>2
  <2> QED BY <2>1, <2>2, <2>3 DEF TypeOK
<1>4. LocksHeld'
  <2>1. \A v \in Workers : wpc'[v] \in {"alloc", "active"} => v # w /\ wpc[v] \in {"alloc", "active"}
    BY <1>1 DEF TypeOK
  <2>2. wpc[w] = "alloc"
    BY DEF SlabsAllocNoMemory
  <2>3. mon_slabs_lock = w
    BY <2>2 DEF LocksHeld
  <2> QED BY <1>1, <2>1, <2>3, WorkersAssumption DEF LocksHeld, condVars, provVars
<1>5. /\ SignalInStep' /\ RequestSound' /\ MonitoringInStep' /\ SweepProgress'
      /\ SweptPageInPlace' /\ ClearedUnreferenced' /\ NoDanglingItem' /\ MonitorConsistent'
  BY <1>1
  DEF SignalInStep, RequestSound, MonitoringInStep, SweepProgress, HasSparePage,
      SweptPageInPlace, ClearedUnreferenced, IsCleared, NoDanglingItem, PagesOf,
      MonitorConsistent, monVars, rebalVars, condVars, provVars
<1> QED BY <1>2, <1>3, <1>4, <1>5 DEF ListInv

LEMMA SlabsAllocFailInv ==
  ASSUME IndInv, NEW w \in Workers, SlabsAllocFail(w)
  PROVE  IndInv'
<1> USE DEF IndInv
<1>1. TypeOK'
  BY WorkersAssumption
  DEF TypeOK, SlabsAllocFail, SlabsAllocEnd, classVars, monVars, rebalVars, condVars,
      provVars
<1>2. LocksHeld'
  BY WorkersAssumption
  DEF TypeOK, LocksHeld, SlabsAllocFail, SlabsAllocEnd, classVars, monVars, rebalVars,
      condVars, provVars
<1>3. /\ SignalInStep' /\ RequestSound' /\ MonitoringInStep' /\ SweepProgress'
      /\ SweptPageInPlace' /\ ClearedUnreferenced' /\ ListInv' /\ NoDanglingItem'
      /\ MonitorConsistent'
  BY ListInvUnchanged
  DEF SignalInStep, RequestSound, MonitoringInStep, SweepProgress, HasSparePage,
      SweptPageInPlace, ClearedUnreferenced, IsCleared, NoDanglingItem, PagesOf,
      MonitorConsistent, SlabsAllocFail, SlabsAllocEnd, classVars, monVars, rebalVars,
      condVars, provVars, ListInv
<1> QED BY <1>1, <1>2, <1>3 DEF ListInv

LEMMA ItemGetInv ==
  ASSUME IndInv, NEW w \in Workers, ItemGet(w)
  PROVE  IndInv'
<1> USE DEF IndInv
<1>1. TypeOK'
  BY WorkersAssumption
  DEF TypeOK, ItemGet, Items, classVars, monVars, rebalVars, condVars, provVars
<1>2. LocksHeld'
  BY WorkersAssumption
  DEF TypeOK, LocksHeld, ItemGet, Items, classVars, monVars, rebalVars, condVars, provVars
<1>3. ClearedUnreferenced'
  BY DEF TypeOK, ClearedUnreferenced, IsCleared, ItemGet, Items, classVars, monVars,
         rebalVars, condVars, provVars
<1>4. NoDanglingItem'
  <2> SUFFICES ASSUME NEW v \in Workers, ref'[v] # NoItem
               PROVE  In(ref'[v].page, slab_list[ref'[v].cls])
    BY DEF NoDanglingItem, PagesOf, In, ItemGet, classVars
  <2>1. CASE v = w
    BY <2>1 DEF ItemGet, PagesOf, In, TypeOK
  <2>2. CASE v # w
    <3>1. ref'[v] = ref[v]
      BY <2>2 DEF ItemGet, TypeOK
    <3> QED BY <3>1 DEF NoDanglingItem, PagesOf, In
  <2> QED BY <2>1, <2>2
<1>5. /\ SignalInStep' /\ RequestSound' /\ MonitoringInStep' /\ SweepProgress'
      /\ SweptPageInPlace' /\ ListInv' /\ MonitorConsistent'
  BY ListInvUnchanged
  DEF SignalInStep, RequestSound, MonitoringInStep, SweepProgress, HasSparePage,
      SweptPageInPlace, MonitorConsistent, ItemGet, classVars, monVars, rebalVars, condVars,
      provVars, ListInv
<1> QED BY <1>1, <1>2, <1>3, <1>4, <1>5 DEF ListInv

LEMMA SetSlabActiveLockInv ==
  ASSUME IndInv, NEW w \in Workers, SetSlabActiveLock(w)
  PROVE  IndInv'
<1> USE DEF IndInv
<1>1. TypeOK'
  BY WorkersAssumption
  DEF TypeOK, SetSlabActiveLock, classVars, monVars, rebalVars, condVars, provVars
<1>2. LocksHeld'
  BY WorkersAssumption
  DEF TypeOK, LocksHeld, SetSlabActiveLock, classVars, monVars, rebalVars, condVars,
      provVars
<1>3. /\ SignalInStep' /\ RequestSound' /\ MonitoringInStep' /\ SweepProgress'
      /\ SweptPageInPlace' /\ ClearedUnreferenced' /\ ListInv' /\ NoDanglingItem'
      /\ MonitorConsistent'
  BY ListInvUnchanged
  DEF SignalInStep, RequestSound, MonitoringInStep, SweepProgress, HasSparePage,
      SweptPageInPlace, ClearedUnreferenced, IsCleared, NoDanglingItem, PagesOf,
      MonitorConsistent, SetSlabActiveLock, classVars, monVars, rebalVars, condVars,
      provVars, ListInv
<1> QED BY <1>1, <1>2, <1>3 DEF ListInv

LEMMA SetSlabActiveInv ==
  ASSUME IndInv, NEW w \in Workers, SetSlabActive(w)
  PROVE  IndInv'
<1> USE DEF IndInv
<1>1. /\ hlls' \in [Classes -> Seq(0..MaxEstimate)]
      /\ \A c \in Classes : Len(hlls'[c]) = Len(hlls[c])
  BY HllsAfterActive
<1>2. /\ wpc[w] = "active" /\ mon_slabs_lock' = "none" /\ wpc' = [wpc EXCEPT ![w] = "idle"]
      /\ UNCHANGED <<classVars, sorted_list, mon_slabs, monitoring_slabs, rebalVars, condVars,
                     provVars, ref, rpc>>
  BY DEF SetSlabActive
<1>3. TypeOK'
  BY <1>1, <1>2 DEF TypeOK, classVars, rebalVars, condVars, provVars
<1>4. LocksHeld'
  BY <1>2, WorkersAssumption DEF TypeOK, LocksHeld, condVars, provVars
<1>5. MonitorConsistent'
  <2>1. MonClasses \subseteq Classes
    BY ClassesAssumption DEF MonClasses, Classes
  <2> QED BY <1>1, <1>2, <2>1 DEF MonitorConsistent, classVars
<1>6. SignalInStep' /\ RequestSound' /\ MonitoringInStep'
  BY <1>2 DEF SignalInStep, RequestSound, MonitoringInStep, rebalVars, provVars
<1>7. SweepProgress' /\ SweptPageInPlace' /\ ClearedUnreferenced'
  BY <1>2 DEF SweepProgress, SweptPageInPlace, ClearedUnreferenced, HasSparePage, IsCleared,
              classVars, rebalVars
<1>8. ListInv' /\ NoDanglingItem'
  BY <1>2, ListInvUnchanged DEF ListInv, NoDanglingItem, PagesOf, classVars
<1> QED BY <1>3, <1>4, <1>5, <1>6, <1>7, <1>8 DEF ListInv

LEMMA SetSlabActiveSegfaultInv ==
  ASSUME IndInv, NEW w \in Workers, SetSlabActiveSegfault(w)
  PROVE  IndInv'
<1> USE DEF IndInv
<1>1. /\ wpc' = [wpc EXCEPT ![w] = "crashed"]
      /\ UNCHANGED <<classVars, monVars, rebalVars, condVars, provVars, ref, mon_slabs_lock, rpc>>
  BY DEF SetSlabActiveSegfault
<1>2. TypeOK' /\ LocksHeld'
  BY <1>1 DEF TypeOK, LocksHeld, classVars, monVars, rebalVars, condVars, provVars
<1>3. /\ SignalInStep' /\ RequestSound' /\ MonitoringInStep' /\ SweepProgress'
      /\ SweptPageInPlace' /\ ClearedUnreferenced' /\ ListInv' /\ NoDanglingItem'
      /\ MonitorConsistent'
  BY <1>1, ListInvUnchanged
  DEF SignalInStep, RequestSound, MonitoringInStep, SweepProgress, HasSparePage,
      SweptPageInPlace, ClearedUnreferenced, IsCleared, NoDanglingItem, PagesOf,
      MonitorConsistent, classVars, monVars, rebalVars, condVars, provVars, ListInv
<1> QED BY <1>2, <1>3 DEF ListInv

LEMMA SetSlabActiveAbortsInv ==
  ASSUME IndInv, NEW w \in Workers, SetSlabActiveAborts(w)
  PROVE  IndInv'
<1> USE DEF IndInv
<1>1. /\ wpc' = [wpc EXCEPT ![w] = "aborted"]
      /\ UNCHANGED <<classVars, monVars, rebalVars, condVars, provVars, ref, mon_slabs_lock, rpc>>
  BY DEF SetSlabActiveAborts
<1>2. TypeOK' /\ LocksHeld'
  BY <1>1 DEF TypeOK, LocksHeld, classVars, monVars, rebalVars, condVars, provVars
<1>3. /\ SignalInStep' /\ RequestSound' /\ MonitoringInStep' /\ SweepProgress'
      /\ SweptPageInPlace' /\ ClearedUnreferenced' /\ ListInv' /\ NoDanglingItem'
      /\ MonitorConsistent'
  BY <1>1, ListInvUnchanged
  DEF SignalInStep, RequestSound, MonitoringInStep, SweepProgress, HasSparePage,
      SweptPageInPlace, ClearedUnreferenced, IsCleared, NoDanglingItem, PagesOf,
      MonitorConsistent, classVars, monVars, rebalVars, condVars, provVars, ListInv
<1> QED BY <1>2, <1>3 DEF ListInv

LEMMA ItemRemoveInv ==
  ASSUME IndInv, NEW w \in Workers, ItemRemove(w)
  PROVE  IndInv'
<1> USE DEF IndInv
<1>1. TypeOK'
  BY WorkersAssumption
  DEF TypeOK, ItemRemove, classVars, monVars, rebalVars, condVars, provVars
<1>2. ClearedUnreferenced'
  BY DEF TypeOK, ClearedUnreferenced, IsCleared, ItemRemove, classVars, monVars, rebalVars,
         condVars, provVars
<1>3. NoDanglingItem'
  <2> SUFFICES ASSUME NEW v \in Workers, ref'[v] # NoItem
               PROVE  In(ref'[v].page, slab_list[ref'[v].cls])
    BY DEF NoDanglingItem, PagesOf, In, ItemRemove, classVars
  <2>1. CASE v = w
    BY <2>1 DEF ItemRemove, PagesOf, In, TypeOK
  <2>2. CASE v # w
    <3>1. ref'[v] = ref[v]
      BY <2>2 DEF ItemRemove, TypeOK
    <3> QED BY <3>1 DEF NoDanglingItem, PagesOf, In
  <2> QED BY <2>1, <2>2
<1>4. /\ LocksHeld' /\ SignalInStep' /\ RequestSound' /\ MonitoringInStep'
      /\ SweepProgress' /\ SweptPageInPlace' /\ ListInv' /\ MonitorConsistent'
  BY ListInvUnchanged
  DEF LocksHeld, SignalInStep, RequestSound, MonitoringInStep, SweepProgress, HasSparePage,
      SweptPageInPlace, MonitorConsistent, ItemRemove, classVars, monVars, rebalVars,
      condVars, provVars, ListInv
<1> QED BY <1>1, <1>2, <1>3, <1>4 DEF ListInv

LEMMA RebalancerBootInv ==
  ASSUME IndInv, RebalancerBoot
  PROVE  IndInv'
<1> USE DEF IndInv
<1>1. TypeOK'
  BY WorkersAssumption
  DEF TypeOK, RebalancerBoot, classVars, monVars, rebalVars, provVars, workVars
<1>2. LocksHeld'
  BY WorkersAssumption
  DEF TypeOK, LocksHeld, RebalancerBoot, classVars, monVars, rebalVars, provVars, workVars
<1>3. SignalInStep'
  BY DEF TypeOK, SignalInStep, RebalancerBoot, classVars, monVars, rebalVars, provVars,
         workVars
<1>4. SweepProgress'
  BY DEF SweepProgress, SignalInStep, HasSparePage, RebalancerBoot, classVars, rebalVars
<1>5. /\ RequestSound' /\ MonitoringInStep' /\ SweptPageInPlace'
      /\ ClearedUnreferenced' /\ ListInv' /\ NoDanglingItem' /\ MonitorConsistent'
  BY ListInvUnchanged
  DEF RequestSound, MonitoringInStep, SweptPageInPlace, ClearedUnreferenced, IsCleared,
      NoDanglingItem, PagesOf, MonitorConsistent, RebalancerBoot, classVars, monVars,
      rebalVars, provVars, workVars, ListInv
<1> QED BY <1>1, <1>2, <1>3, <1>4, <1>5 DEF ListInv

LEMMA RebalancerWaitInv ==
  ASSUME IndInv, RebalancerWait
  PROVE  IndInv'
<1> USE DEF IndInv
<1>1. TypeOK'
  BY WorkersAssumption
  DEF TypeOK, RebalancerWait, classVars, monVars, rebalVars, provVars, workVars
<1>2. LocksHeld'
  BY WorkersAssumption
  DEF TypeOK, LocksHeld, RebalancerWait, classVars, monVars, rebalVars, provVars, workVars
<1>3. SignalInStep'
  BY DEF TypeOK, SignalInStep, RebalancerWait, classVars, monVars, rebalVars, provVars,
         workVars
<1>4. SweepProgress'
  BY DEF TypeOK, SweepProgress, HasSparePage, RebalancerWait, classVars, monVars, rebalVars,
         provVars, workVars
<1>5. /\ RequestSound' /\ MonitoringInStep' /\ SweptPageInPlace'
      /\ ClearedUnreferenced' /\ ListInv' /\ NoDanglingItem' /\ MonitorConsistent'
  BY ListInvUnchanged
  DEF RequestSound, MonitoringInStep, SweptPageInPlace, ClearedUnreferenced, IsCleared,
      NoDanglingItem, PagesOf, MonitorConsistent, RebalancerWait, classVars, monVars,
      rebalVars, provVars, workVars, ListInv
<1> QED BY <1>1, <1>2, <1>3, <1>4, <1>5 DEF ListInv

LEMMA RebalancerWakeInv ==
  ASSUME IndInv, RebalancerWake
  PROVE  IndInv'
<1> USE DEF IndInv
<1>1. TypeOK'
  BY WorkersAssumption
  DEF TypeOK, RebalancerWake, classVars, monVars, rebalVars, provVars, workVars
<1>2. LocksHeld'
  BY WorkersAssumption
  DEF TypeOK, LocksHeld, RebalancerWake, classVars, monVars, rebalVars, provVars, workVars
<1>3. SignalInStep'
  BY DEF TypeOK, SignalInStep, RebalancerWake, classVars, monVars, rebalVars, provVars,
         workVars
<1>4. SweepProgress'
  BY DEF SweepProgress, SignalInStep, HasSparePage, RebalancerWake, classVars, rebalVars
<1>5. /\ RequestSound' /\ MonitoringInStep' /\ SweptPageInPlace'
      /\ ClearedUnreferenced' /\ ListInv' /\ NoDanglingItem' /\ MonitorConsistent'
  BY ListInvUnchanged
  DEF RequestSound, MonitoringInStep, SweptPageInPlace, ClearedUnreferenced, IsCleared,
      NoDanglingItem, PagesOf, MonitorConsistent, RebalancerWake, classVars, monVars,
      rebalVars, provVars, workVars, ListInv
<1> QED BY <1>1, <1>2, <1>3, <1>4, <1>5 DEF ListInv

LEMMA RebalanceStartLockInv ==
  ASSUME IndInv, RebalanceStartLock
  PROVE  IndInv'
<1> USE DEF IndInv
<1>1. TypeOK'
  BY WorkersAssumption
  DEF TypeOK, RebalanceStartLock, classVars, monVars, rebalVars, condVars, provVars,
      workVars
<1>2. LocksHeld'
  BY WorkersAssumption
  DEF TypeOK, LocksHeld, RebalanceStartLock, classVars, monVars, rebalVars, condVars,
      provVars, workVars
<1>3. SignalInStep'
  BY DEF TypeOK, SignalInStep, RebalanceStartLock, classVars, monVars, rebalVars, condVars,
         provVars, workVars
<1>4. SweepProgress'
  BY DEF TypeOK, SweepProgress, HasSparePage, RebalanceStartLock, classVars, monVars,
         rebalVars, condVars, provVars, workVars
<1>5. /\ RequestSound' /\ MonitoringInStep' /\ SweptPageInPlace'
      /\ ClearedUnreferenced' /\ ListInv' /\ NoDanglingItem' /\ MonitorConsistent'
  BY ListInvUnchanged
  DEF RequestSound, MonitoringInStep, SweptPageInPlace, ClearedUnreferenced, IsCleared,
      NoDanglingItem, PagesOf, MonitorConsistent, RebalanceStartLock, classVars, monVars,
      rebalVars, condVars, provVars, workVars, ListInv
<1> QED BY <1>1, <1>2, <1>3, <1>4, <1>5 DEF ListInv

LEMMA RebalanceStartNoGoInv ==
  ASSUME IndInv, RebalanceStartNoGo
  PROVE  IndInv'
<1> USE DEF IndInv
<1>1. TypeOK'
  BY WorkersAssumption
  DEF TypeOK, RebalanceStartNoGo, classVars, monVars, condVars, provVars, workVars
<1>2. LocksHeld'
  BY WorkersAssumption
  DEF TypeOK, LocksHeld, RebalanceStartNoGo, classVars, monVars, condVars, provVars,
      workVars
<1>3. SignalInStep'
  BY DEF TypeOK, SignalInStep, RebalanceStartNoGo, classVars, monVars, condVars, provVars,
         workVars
<1>4. RequestSound'
  BY DEF TypeOK, RequestSound, RebalanceStartNoGo, classVars, monVars, condVars, provVars,
         workVars
<1>5. SweepProgress'
  BY DEF SweepProgress, SignalInStep, RebalanceStartNoGo
<1>6. SweptPageInPlace'
  BY DEF TypeOK, SweptPageInPlace, RebalanceStartNoGo, classVars, monVars, condVars,
         provVars, workVars
<1>7. /\ MonitoringInStep' /\ ClearedUnreferenced' /\ ListInv' /\ NoDanglingItem'
      /\ MonitorConsistent'
  BY ListInvUnchanged
  DEF MonitoringInStep, ClearedUnreferenced, IsCleared, NoDanglingItem, PagesOf,
      MonitorConsistent, RebalanceStartNoGo, classVars, monVars, condVars, provVars,
      workVars, ListInv
<1> QED BY <1>1, <1>2, <1>3, <1>4, <1>5, <1>6, <1>7 DEF ListInv

LEMMA RebalanceStartAbortsInv ==
  ASSUME IndInv, RebalanceStartAborts
  PROVE  IndInv'
<1> USE DEF IndInv
<1>1. /\ rpc = "starting" /\ rpc' = "aborted"
      /\ UNCHANGED <<classVars, monVars, rebalVars, condVars, provVars, workVars, mon_slabs_lock>>
  BY DEF RebalanceStartAborts
<1>2. slab_rebalance_signal = 1
  BY <1>1 DEF SignalInStep
<1>3. TypeOK' /\ LocksHeld' /\ SignalInStep'
  BY <1>1, <1>2
  DEF TypeOK, LocksHeld, SignalInStep, classVars, monVars, rebalVars, condVars, provVars,
      workVars
<1>4. SweepProgress' /\ SweptPageInPlace' /\ ClearedUnreferenced'
  BY <1>1, <1>2
  DEF SweepProgress, SweptPageInPlace, ClearedUnreferenced, IsCleared, HasSparePage,
      classVars, rebalVars, workVars
<1>5. /\ RequestSound' /\ MonitoringInStep' /\ ListInv' /\ NoDanglingItem' /\ MonitorConsistent'
  BY <1>1, ListInvUnchanged
  DEF RequestSound, MonitoringInStep, NoDanglingItem, PagesOf, MonitorConsistent, classVars,
      monVars, rebalVars, provVars, workVars, ListInv
<1> QED BY <1>3, <1>4, <1>5 DEF ListInv

LEMMA RebalanceStartInv ==
  ASSUME OneMoverUser, IndInv, RebalanceStart
  PROVE  IndInv'
<1> USE DEF IndInv
<1>1. /\ rpc = "starting" /\ slab_rebalance_signal = 1
      /\ HasSparePage(slab_rebal.s_clsid)
      /\ slab_rebalance_signal' = 2 /\ mon_slabs_lock' = "none" /\ rpc' = "loop"
      /\ UNCHANGED <<classVars, monVars, cleared, condVars, provVars, workVars>>
  BY DEF RebalanceStart, SignalInStep
<1>2. /\ slab_rebal' \in RebalType
      /\ slab_rebal'.s_clsid = slab_rebal.s_clsid /\ slab_rebal'.d_clsid = slab_rebal.d_clsid
      /\ slab_rebal'.slab_pos = 0 /\ slab_rebal'.busy_items = 0
      /\ slab_rebal'.slab_index \in DOMAIN slab_list[slab_rebal.s_clsid]
      /\ slab_rebal'.slab_start = slab_list[slab_rebal.s_clsid][slab_rebal'.slab_index]
      /\ slab_rebal'.slab_start \in Pages
      /\ slab_rebal.d_clsid # Removal => slab_rebal'.slab_index = 1
  BY StartedRebal
<1>3. cleared = {}
  BY <1>1 DEF SweepProgress
<1>4. TypeOK'
  BY <1>1, <1>2 DEF TypeOK, RebalType, classVars, monVars, condVars, provVars, workVars
<1>5. LocksHeld' /\ SignalInStep' /\ RequestSound' /\ MonitoringInStep'
  BY <1>1, <1>2, WorkersAssumption
  DEF LocksHeld, SignalInStep, RequestSound, MonitoringInStep, monVars, condVars, provVars, workVars
<1>6. SweepProgress'
  <2>1. slab_rebal'.slab_start # NoPage
    BY <1>2, PagesAssumption DEF NoPage
  <2>2. Len(slab_list'[slab_rebal'.s_clsid]) >= 2
    BY <1>1, <1>2 DEF HasSparePage, classVars
  <2>3. 0..(slab_rebal'.slab_pos - 1) = {} /\ slab_rebal'.slab_pos < PerSlab
    BY <1>2, PerSlabAssumption
  <2> QED BY <1>1, <1>2, <2>1, <2>2, <2>3 DEF SweepProgress, HasSparePage
<1>7. SweptPageInPlace' /\ ClearedUnreferenced'
  BY <1>1, <1>2, <1>3
  DEF SweptPageInPlace, ClearedUnreferenced, IsCleared, classVars, workVars
<1>8. ListInv' /\ NoDanglingItem' /\ MonitorConsistent'
  BY <1>1, ListInvUnchanged
  DEF ListInv, NoDanglingItem, PagesOf, MonitorConsistent, classVars, monVars, workVars
<1> QED BY <1>4, <1>5, <1>6, <1>7, <1>8 DEF ListInv

LEMMA SweepPassInv ==
  ASSUME IndInv, SweepPass
  PROVE  IndInv'
<1> USE DEF IndInv
<1>1. slab_rebalance_signal = 2 /\ rpc \in {"loop", "unlinking"} /\ Advance(0)
  BY DEF Sweeping, SweepPass
<1>0. slab_rebal.slab_pos \in Chunks
  BY <1>1, PerSlabAssumption DEF SweepProgress, TypeOK, Chunks
<1>2. /\ cleared \subseteq cleared' /\ cleared' \subseteq Chunks
      /\ UNCHANGED <<slab_rebalance_signal, slab_list>>
      /\ 0 = 1 \/ slab_rebal.slab_pos \in cleared'
  BY <1>0, <1>1 DEF Sweeping, SweepPass, TypeOK, classVars
<1>3. /\ slab_rebal' \in RebalType /\ rpc' \in {"loop", "finish"}
      /\ slab_rebal'.s_clsid = slab_rebal.s_clsid /\ slab_rebal'.d_clsid = slab_rebal.d_clsid
      /\ slab_rebal'.slab_start = slab_rebal.slab_start
      /\ slab_rebal'.slab_index = slab_rebal.slab_index
      /\ SweepProgress'
  BY <1>1, <1>2, AdvanceFacts
<1>4. TypeOK'
  BY <1>2, <1>3
  DEF TypeOK, RebalType, SweepPass, classVars, monVars, condVars, provVars, workVars
<1>5. LocksHeld' /\ SignalInStep' /\ RequestSound' /\ MonitoringInStep'
  BY <1>1, <1>2, <1>3
  DEF LocksHeld, SignalInStep, RequestSound, MonitoringInStep, SweepPass, monVars, condVars, provVars,
      workVars
<1>6. SweptPageInPlace' /\ ClearedUnreferenced'
  BY <1>1, <1>2, <1>3
  DEF SweptPageInPlace, ClearedUnreferenced, IsCleared, SweepPass, workVars
<1>7. ListInv' /\ NoDanglingItem' /\ MonitorConsistent'
  BY ListInvUnchanged
  DEF ListInv, NoDanglingItem, PagesOf, MonitorConsistent, SweepPass, classVars, monVars, workVars
<1> QED BY <1>3, <1>4, <1>5, <1>6, <1>7 DEF ListInv

LEMMA SweepFromSlabInv ==
  ASSUME IndInv, SweepFromSlab
  PROVE  IndInv'
<1> USE DEF IndInv
<1>1. slab_rebalance_signal = 2 /\ rpc \in {"loop", "unlinking"} /\ Advance(0)
  BY DEF Sweeping, SweepFromSlab
<1>0. slab_rebal.slab_pos \in Chunks
  BY <1>1, PerSlabAssumption DEF SweepProgress, TypeOK, Chunks
<1>2. /\ cleared \subseteq cleared' /\ cleared' \subseteq Chunks
      /\ UNCHANGED <<slab_rebalance_signal, slab_list>>
      /\ 0 = 1 \/ slab_rebal.slab_pos \in cleared'
  BY <1>0, <1>1 DEF Sweeping, SweepFromSlab, TypeOK, classVars
<1>3. /\ slab_rebal' \in RebalType /\ rpc' \in {"loop", "finish"}
      /\ slab_rebal'.s_clsid = slab_rebal.s_clsid /\ slab_rebal'.d_clsid = slab_rebal.d_clsid
      /\ slab_rebal'.slab_start = slab_rebal.slab_start
      /\ slab_rebal'.slab_index = slab_rebal.slab_index
      /\ SweepProgress'
  BY <1>1, <1>2, AdvanceFacts
<1>4. TypeOK'
  BY <1>2, <1>3
  DEF TypeOK, RebalType, SweepFromSlab, classVars, monVars, condVars, provVars, workVars
<1>5. LocksHeld' /\ SignalInStep' /\ RequestSound' /\ MonitoringInStep'
  BY <1>1, <1>2, <1>3
  DEF LocksHeld, SignalInStep, RequestSound, MonitoringInStep, SweepFromSlab, monVars, condVars, provVars,
      workVars
<1>6. SweptPageInPlace' /\ ClearedUnreferenced'
  BY <1>1, <1>2, <1>3
  DEF SweptPageInPlace, ClearedUnreferenced, IsCleared, SweepFromSlab, workVars, Referenced, IsReferenced
<1>7. ListInv' /\ NoDanglingItem' /\ MonitorConsistent'
  BY ListInvUnchanged
  DEF ListInv, NoDanglingItem, PagesOf, MonitorConsistent, SweepFromSlab, classVars, monVars, workVars
<1> QED BY <1>3, <1>4, <1>5, <1>6, <1>7 DEF ListInv

LEMMA SweepBusyInv ==
  ASSUME IndInv, SweepBusy
  PROVE  IndInv'
<1> USE DEF IndInv
<1>1. slab_rebalance_signal = 2 /\ rpc \in {"loop", "unlinking"} /\ Advance(1)
  BY DEF Sweeping, SweepBusy
<1>0. slab_rebal.slab_pos \in Chunks
  BY <1>1, PerSlabAssumption DEF SweepProgress, TypeOK, Chunks
<1>2. /\ cleared \subseteq cleared' /\ cleared' \subseteq Chunks
      /\ UNCHANGED <<slab_rebalance_signal, slab_list>>
      /\ 1 = 1 \/ slab_rebal.slab_pos \in cleared'
  BY <1>0, <1>1 DEF Sweeping, SweepBusy, TypeOK, classVars
<1>3. /\ slab_rebal' \in RebalType /\ rpc' \in {"loop", "finish"}
      /\ slab_rebal'.s_clsid = slab_rebal.s_clsid /\ slab_rebal'.d_clsid = slab_rebal.d_clsid
      /\ slab_rebal'.slab_start = slab_rebal.slab_start
      /\ slab_rebal'.slab_index = slab_rebal.slab_index
      /\ SweepProgress'
  BY <1>1, <1>2, AdvanceFacts
<1>4. TypeOK'
  BY <1>2, <1>3
  DEF TypeOK, RebalType, SweepBusy, classVars, monVars, condVars, provVars, workVars
<1>5. LocksHeld' /\ SignalInStep' /\ RequestSound' /\ MonitoringInStep'
  BY <1>1, <1>2, <1>3
  DEF LocksHeld, SignalInStep, RequestSound, MonitoringInStep, SweepBusy, monVars, condVars, provVars,
      workVars
<1>6. SweptPageInPlace' /\ ClearedUnreferenced'
  BY <1>1, <1>2, <1>3
  DEF SweptPageInPlace, ClearedUnreferenced, IsCleared, SweepBusy, workVars
<1>7. ListInv' /\ NoDanglingItem' /\ MonitorConsistent'
  BY ListInvUnchanged
  DEF ListInv, NoDanglingItem, PagesOf, MonitorConsistent, SweepBusy, classVars, monVars, workVars
<1> QED BY <1>3, <1>4, <1>5, <1>6, <1>7 DEF ListInv

LEMMA SweepFromLRUInv ==
  ASSUME IndInv, SweepFromLRU
  PROVE  IndInv'
<1> USE DEF IndInv
<1>1. TypeOK'
  <2>0. slab_rebal.slab_pos \in Chunks
    BY PerSlabAssumption DEF TypeOK, Sweeping, SweepProgress, SweepFromLRU, Chunks
  <2>1. cleared' \subseteq Chunks
    BY <2>0 DEF TypeOK, SweepFromLRU, InlineReclaims
  <2> QED BY <2>1
      DEF TypeOK, SweepFromLRU, classVars, monVars, rebalVars, condVars, provVars, workVars
<1>2. LocksHeld'
  BY WorkersAssumption
  DEF TypeOK, LocksHeld, SweepFromLRU, Sweeping, InlineReclaims, Referenced, IsReferenced,
      classVars, monVars, condVars, provVars, workVars
<1>3. SignalInStep'
  BY DEF TypeOK, SignalInStep, SweepFromLRU, Sweeping, InlineReclaims, Referenced,
         IsReferenced, classVars, monVars, condVars, provVars, workVars
<1>4. SweepProgress'
  BY DEF TypeOK, SweepProgress, HasSparePage, SweepFromLRU, Sweeping, InlineReclaims,
         Referenced, IsReferenced, classVars, monVars, condVars, provVars, workVars
<1>5. ClearedUnreferenced'
  BY DEF TypeOK, ClearedUnreferenced, IsCleared, SweepFromLRU, Sweeping, InlineReclaims,
         Referenced, IsReferenced, classVars, monVars, condVars, provVars, workVars
<1>6. /\ RequestSound' /\ MonitoringInStep' /\ SweptPageInPlace' /\ ListInv'
      /\ NoDanglingItem' /\ MonitorConsistent'
  BY ListInvUnchanged
  DEF RequestSound, MonitoringInStep, SweptPageInPlace, NoDanglingItem, PagesOf,
      MonitorConsistent, SweepFromLRU, classVars, monVars, condVars, provVars, workVars,
      ListInv
<1> QED BY <1>1, <1>2, <1>3, <1>4, <1>5, <1>6 DEF ListInv

LEMMA SweepUnlinkedInv ==
  ASSUME IndInv, SweepUnlinked
  PROVE  IndInv'
<1> USE DEF IndInv
<1>1. slab_rebalance_signal = 2 /\ rpc \in {"loop", "unlinking"} /\ Advance(0)
  BY DEF SweepUnlinked, SignalInStep
<1>0. slab_rebal.slab_pos \in Chunks
  BY <1>1, PerSlabAssumption DEF SweepProgress, TypeOK, Chunks
<1>2. /\ cleared \subseteq cleared' /\ cleared' \subseteq Chunks
      /\ UNCHANGED <<slab_rebalance_signal, slab_list>>
      /\ 0 = 1 \/ slab_rebal.slab_pos \in cleared'
  BY <1>0, <1>1 DEF SweepUnlinked, SignalInStep, SweepProgress, TypeOK, classVars
<1>3. /\ slab_rebal' \in RebalType /\ rpc' \in {"loop", "finish"}
      /\ slab_rebal'.s_clsid = slab_rebal.s_clsid /\ slab_rebal'.d_clsid = slab_rebal.d_clsid
      /\ slab_rebal'.slab_start = slab_rebal.slab_start
      /\ slab_rebal'.slab_index = slab_rebal.slab_index
      /\ SweepProgress'
  BY <1>1, <1>2, AdvanceFacts
<1>4. TypeOK'
  BY <1>2, <1>3
  DEF TypeOK, RebalType, SweepUnlinked, classVars, monVars, condVars, provVars, workVars
<1>5. LocksHeld' /\ SignalInStep' /\ RequestSound' /\ MonitoringInStep'
  BY <1>1, <1>2, <1>3
  DEF LocksHeld, SignalInStep, RequestSound, MonitoringInStep, SweepUnlinked, monVars, condVars, provVars,
      workVars
<1>6. SweptPageInPlace' /\ ClearedUnreferenced'
  BY <1>1, <1>2, <1>3
  DEF SweptPageInPlace, ClearedUnreferenced, IsCleared, SweepUnlinked, workVars
<1>7. ListInv' /\ NoDanglingItem' /\ MonitorConsistent'
  BY ListInvUnchanged
  DEF ListInv, NoDanglingItem, PagesOf, MonitorConsistent, SweepUnlinked, classVars, monVars, workVars
<1> QED BY <1>3, <1>4, <1>5, <1>6, <1>7 DEF ListInv

LEMMA FinishLockInv ==
  ASSUME IndInv, FinishLock
  PROVE  IndInv'
<1> USE DEF IndInv
<1>1. TypeOK'
  BY WorkersAssumption
  DEF TypeOK, FinishLock, classVars, monVars, rebalVars, condVars, provVars, workVars
<1>2. LocksHeld'
  BY WorkersAssumption
  DEF TypeOK, LocksHeld, FinishLock, classVars, monVars, rebalVars, condVars, provVars,
      workVars
<1>3. SignalInStep'
  BY DEF TypeOK, SignalInStep, FinishLock, classVars, monVars, rebalVars, condVars,
         provVars, workVars
<1>4. SweepProgress'
  BY DEF TypeOK, SweepProgress, HasSparePage, FinishLock, classVars, monVars, rebalVars,
         condVars, provVars, workVars
<1>5. /\ RequestSound' /\ MonitoringInStep' /\ SweptPageInPlace'
      /\ ClearedUnreferenced' /\ ListInv' /\ NoDanglingItem' /\ MonitorConsistent'
  BY ListInvUnchanged
  DEF RequestSound, MonitoringInStep, SweptPageInPlace, ClearedUnreferenced, IsCleared,
      NoDanglingItem, PagesOf, MonitorConsistent, FinishLock, classVars, monVars, rebalVars,
      condVars, provVars, workVars, ListInv
<1> QED BY <1>1, <1>2, <1>3, <1>4, <1>5 DEF ListInv

LEMMA slab_remove_finishInv ==
  ASSUME IndInv, slab_remove_finish
  PROVE  IndInv'
<1> DEFINE s == slab_rebal.s_clsid
           i == slab_rebal.slab_index
           page == slab_rebal.slab_start
<1> USE DEF IndInv
<1>1. slab_rebalance_signal = 2 /\ mon_slabs_lock = "rebalancer" /\ rpc = "finishing"
  BY DEF SignalInStep, LocksHeld, slab_remove_finish
<1>2. slab_rebal.d_clsid = Removal /\ s \in MonClasses /\ monitoring_slabs
  BY <1>1 DEF SignalInStep, RequestSound, MonitoringInStep
<1>3. /\ s \in Classes /\ i \in 1..Len(slab_list[s]) /\ page = slab_list[s][i]
      /\ Len(slab_list[s]) >= 2
  BY <1>1, <1>2, ListView, ClassesAssumption
  DEF SweptPageInPlace, SweepProgress, HasSparePage, MonClasses, Classes
<1>4. /\ slab_list' = Without(slab_list, s, i)
      /\ hlls' = [hlls EXCEPT ![s] = RemoveAt(@, i)]
      /\ sorted_list' = [sorted_list EXCEPT ![s] = RemoveAt(@, i)]
      /\ mon_slabs' = [mon_slabs EXCEPT ![s] = @ - 1]
      /\ mem_malloced' = mem_malloced - 1
  BY <1>2 DEF slab_remove_finish, Without, DropPage, FreePage
<1>5. /\ slab_rebal' = RebalDone /\ cleared' = {} /\ slab_rebalance_signal' = 0
      /\ mon_slabs_lock' = "none" /\ rpc' = "loop" /\ waiting' \subseteq waiting
      /\ UNCHANGED <<monitoring_slabs, slabs_rebalance_lock, provVars, workVars>>
  BY DEF slab_remove_finish, CondSignal
<1> HIDE DEF s, i, page
<1>6. /\ slab_list' \in Lists /\ OwnedOnce(slab_list')
      /\ Held(slab_list') = Held(slab_list) \ {page}
      /\ \A c \in Classes : \A p : In(p, slab_list[c]) /\ p # page => In(p, slab_list'[c])
  BY <1>3, <1>4, ListView, DropPageFacts
<1>7. mem_malloced' - Cardinality(Held(slab_list')) \in 0..MaxFailedMallocs /\ mem_malloced' \in Nat
  <2>1. page \in Held(slab_list) /\ IsFiniteSet(Held(slab_list))
    <3>1. i \in DOMAIN slab_list[s]
      BY <1>3, ListView
    <3>2. page \in Held(slab_list)
      BY <1>3, <3>1 DEF Held
    <3> QED BY <3>2, ListView
  <2>2. Cardinality(Held(slab_list) \ {page}) = Cardinality(Held(slab_list)) - 1
    BY <2>1, FS_RemoveElement
  <2>3. IsFiniteSet(Held(slab_list'))
    BY <1>6, <2>1, FS_RemoveElement
  <2>4. Cardinality(Held(slab_list')) \in Nat
    BY <2>3, FS_CardinalityType
  <2>5. Cardinality(Held(slab_list')) = Cardinality(Malloced) - 1
    BY <1>6, <2>2, ListView
  <2> QED BY <1>4, <2>4, <2>5, ListView, BoundsAssumption
<1>8. ListInv'
  BY <1>6, <1>7, ListInvNext
<1>9. \A c \in Classes : c # s => /\ slab_list'[c] = slab_list[c] /\ hlls'[c] = hlls[c]
                                  /\ sorted_list'[c] = sorted_list[c]
                                  /\ mon_slabs'[c] = mon_slabs[c]
  BY <1>4 DEF Without, TypeOK
<1>10. /\ Len(slab_list'[s]) = Len(slab_list[s]) - 1
       /\ Len(hlls'[s]) = Len(slab_list[s]) - 1 /\ hlls'[s] \in Seq(0..MaxEstimate)
       /\ Len(sorted_list'[s]) = Len(slab_list[s]) - 1 /\ sorted_list'[s] \in Seq(Pages)
       /\ mon_slabs'[s] = Len(slab_list[s]) - 1
  <2>1. /\ Len(hlls[s]) = Len(slab_list[s]) /\ Len(sorted_list[s]) = Len(slab_list[s])
        /\ mon_slabs[s] = Len(slab_list[s])
        /\ s \in MonClasses
    BY <1>2 DEF MonitorConsistent, s
  <2>2. /\ slab_list[s] \in Seq(Pages) /\ sorted_list[s] \in Seq(Pages)
        /\ hlls[s] \in Seq(0..MaxEstimate)
    BY <1>3 DEF TypeOK
  <2>3. /\ slab_list'[s] = RemoveAt(slab_list[s], i) /\ hlls'[s] = RemoveAt(hlls[s], i)
        /\ sorted_list'[s] = RemoveAt(sorted_list[s], i)
        /\ mon_slabs'[s] = mon_slabs[s] - 1
    BY <1>3, <1>4 DEF TypeOK, Without
  <2> QED BY <1>3, <2>1, <2>2, <2>3, RemoveAtFacts, SMTT(20)
<1>11. MonitorConsistent'
  <2> SUFFICES ASSUME NEW c \in MonClasses
               PROVE  /\ mon_slabs'[c] = Len(slab_list'[c])
                      /\ Len(hlls'[c]) = Len(slab_list'[c])
                      /\ Len(sorted_list'[c]) = Len(slab_list'[c])
    BY DEF MonitorConsistent
  <2>1. CASE c = s
    BY <1>10, <2>1
  <2>2. CASE c # s
    <3>1. c \in Classes
      BY ClassesAssumption DEF MonClasses, Classes
    <3> QED BY <1>2, <1>9, <2>2, <3>1 DEF MonitorConsistent
  <2> QED BY <2>1, <2>2
<1>12. /\ hlls' \in [Classes -> Seq(0..MaxEstimate)] /\ sorted_list' \in [Classes -> Seq(Pages)]
       /\ mon_slabs' \in [Classes -> Nat]
  <2>1. Len(slab_list[s]) - 1 \in Nat
    BY <1>3, ListView
  <2> QED BY <1>4, <1>9, <1>10, <2>1, ZenonT(30) DEF TypeOK
<1>13. RebalDone \in RebalType
  BY RebalDoneType DEF TypeOK, RebalType
<1>14. TypeOK'
  <2>1. slab_rebal' \in RebalType /\ slab_list' \in [Classes -> Seq(Pages)]
    BY <1>5, <1>6, <1>13 DEF Lists
  <2>2. /\ cleared' \subseteq Chunks /\ waiting' \subseteq {"rebalancer", "provisioner"}
        /\ slab_rebalance_signal' \in 0..2
    BY <1>5 DEF TypeOK
  <2> QED BY <1>5, <1>7, <1>12, <2>1, <2>2 DEF TypeOK, RebalType, provVars, workVars
<1>15. LocksHeld' /\ SignalInStep' /\ RequestSound' /\ MonitoringInStep'
  BY <1>1, <1>5, WorkersAssumption
  DEF LocksHeld, SignalInStep, RequestSound, MonitoringInStep, provVars, workVars
<1>16. SweepProgress' /\ SweptPageInPlace' /\ ClearedUnreferenced'
  BY <1>5
  DEF SweepProgress, SweptPageInPlace, ClearedUnreferenced, IsCleared, RebalDone, NoRebal
<1>17. NoDanglingItem'
  <2> SUFFICES ASSUME NEW v \in Workers, ref[v] # NoItem
               PROVE  In(ref[v].page, slab_list'[ref[v].cls])
    BY <1>5 DEF NoDanglingItem, PagesOf, In, workVars
  <2>1. ref[v].page # page
    BY <1>1, PageClear DEF PageClearAtFinish, page
  <2>2. ref[v].cls \in Classes /\ In(ref[v].page, slab_list[ref[v].cls])
    BY DEF TypeOK, Items, Classes, NoDanglingItem, PagesOf, In
  <2> QED BY <1>6, <2>1, <2>2
<1> QED BY <1>8, <1>11, <1>14, <1>15, <1>16, <1>17 DEF ListInv

LEMMA slab_rebalance_finishInv ==
  ASSUME OneMoverUser, IndInv, slab_rebalance_finish
  PROVE  IndInv'
<1> DEFINE s == slab_rebal.s_clsid
           d == slab_rebal.d_clsid
           page == slab_rebal.slab_start
<1> USE DEF IndInv
<1>1. slab_rebalance_signal = 2 /\ rpc = "finish" /\ d # Removal
  BY DEF SignalInStep, slab_rebalance_finish
<1>2. ~monitoring_slabs
  BY <1>1, MonitoringMeansRemoval
<1>3. /\ s \in Classes /\ d \in Classes /\ s # d
      /\ 1 \in 1..Len(slab_list[s]) /\ page = slab_list[s][1]
  BY <1>1, ListView DEF RequestSound, SweptPageInPlace, SweepProgress, HasSparePage, TypeOK
<1>4. /\ slab_list' = Moved(slab_list, s, 1, d)
      /\ UNCHANGED <<mem_malloced, monVars, condVars, provVars, workVars, mon_slabs_lock>>
      /\ slab_rebal' = RebalDone /\ cleared' = {} /\ slab_rebalance_signal' = 0 /\ rpc' = "loop"
  BY <1>3 DEF slab_rebalance_finish, Moved, DropPage
<1> HIDE DEF s, d, page
<1>5. /\ slab_list' \in Lists /\ OwnedOnce(slab_list')
      /\ Held(slab_list') = Held(slab_list)
      /\ \A c \in Classes : \A p : In(p, slab_list[c]) /\ p # page => In(p, slab_list'[c])
  BY <1>3, <1>4, ListView, MovePageFacts
<1>6. ListInv'
  BY <1>4, <1>5, ListView, ListInvNext
<1>7. RebalDone \in RebalType
  BY RebalDoneType DEF TypeOK, RebalType
<1>8. TypeOK'
  <2>1. slab_rebal' \in RebalType /\ slab_list' \in [Classes -> Seq(Pages)]
    BY <1>4, <1>5, <1>7 DEF Lists
  <2>2. cleared' \subseteq Chunks /\ slab_rebalance_signal' \in 0..2
    BY <1>4
  <2> QED BY <1>4, <2>1, <2>2 DEF TypeOK, RebalType, monVars, condVars, provVars, workVars
<1>9. /\ LocksHeld' /\ SignalInStep' /\ RequestSound' /\ MonitoringInStep'
      /\ MonitorConsistent'
  BY <1>1, <1>2, <1>4
  DEF LocksHeld, SignalInStep, RequestSound, MonitoringInStep, MonitorConsistent, monVars,
      condVars, provVars, workVars
<1>10. SweepProgress' /\ SweptPageInPlace' /\ ClearedUnreferenced'
  BY <1>4
  DEF SweepProgress, SweptPageInPlace, ClearedUnreferenced, IsCleared, RebalDone, NoRebal
<1>11. NoDanglingItem'
  <2> SUFFICES ASSUME NEW v \in Workers, ref[v] # NoItem
               PROVE  In(ref[v].page, slab_list'[ref[v].cls])
    BY <1>4 DEF NoDanglingItem, PagesOf, In, workVars
  <2>1. ref[v].page # page
    BY <1>1, PageClear DEF PageClearAtFinish, page
  <2>2. ref[v].cls \in Classes /\ In(ref[v].page, slab_list[ref[v].cls])
    BY DEF TypeOK, Items, Classes, NoDanglingItem, PagesOf, In
  <2> QED BY <1>5, <2>1, <2>2
<1> QED BY <1>6, <1>8, <1>9, <1>10, <1>11 DEF ListInv

LEMMA StartSlabMonitorLockInv ==
  ASSUME IndInv, StartSlabMonitorLock
  PROVE  IndInv'
<1> USE DEF IndInv
<1>1. TypeOK'
  BY WorkersAssumption
  DEF TypeOK, StartSlabMonitorLock, classVars, monVars, rebalVars, condVars, workVars
<1>2. LocksHeld'
  BY WorkersAssumption
  DEF TypeOK, LocksHeld, StartSlabMonitorLock, classVars, monVars, rebalVars, condVars,
      workVars
<1>3. RequestSound'
  BY DEF TypeOK, RequestSound, StartSlabMonitorLock, classVars, monVars, rebalVars,
         condVars, workVars
<1>4. MonitoringInStep'
  BY DEF TypeOK, MonitoringInStep, StartSlabMonitorLock, classVars, monVars, rebalVars,
         condVars, workVars
<1>5. /\ SignalInStep' /\ SweepProgress' /\ SweptPageInPlace'
      /\ ClearedUnreferenced' /\ ListInv' /\ NoDanglingItem' /\ MonitorConsistent'
  BY ListInvUnchanged
  DEF SignalInStep, SweepProgress, HasSparePage, SweptPageInPlace, ClearedUnreferenced,
      IsCleared, NoDanglingItem, PagesOf, MonitorConsistent, StartSlabMonitorLock,
      classVars, monVars, rebalVars, condVars, workVars, ListInv
<1> QED BY <1>1, <1>2, <1>3, <1>4, <1>5 DEF ListInv

LEMMA start_slab_monitorInv ==
  ASSUME IndInv, start_slab_monitor
  PROVE  IndInv'
<1> USE DEF IndInv
<1>1. MonClasses \subseteq Classes
  BY ClassesAssumption DEF MonClasses, Classes
<1>2. PICK sorted \in [MonClasses -> UNION {Sortings(c) : c \in MonClasses}] :
         /\ \A c \in MonClasses : IsSorting(sorted[c], c)
         /\ sorted_list' = [c \in Classes |->
                              IF c \in MonClasses THEN sorted[c] ELSE sorted_list[c]]
  BY DEF start_slab_monitor
<1>3. ASSUME NEW c \in MonClasses
      PROVE  sorted[c] \in Seq(Pages) /\ Len(sorted[c]) = Len(slab_list[c])
  <2>1. DOMAIN sorted[c] = 1..Len(slab_list[c]) /\ Len(slab_list[c]) \in Nat
    BY <1>1, <1>2, ListView DEF IsSorting
  <2>2. PICK d \in MonClasses : sorted[c] \in [DOMAIN slab_list[d] -> PagesOf(d)]
    BY <1>2 DEF Sortings
  <2>3. PagesOf(d) \subseteq Pages
    <3>1. slab_list[d] \in Seq(Pages)
      BY <1>1 DEF TypeOK
    <3> QED BY <3>1, LenProperties, ElementOfSeq DEF PagesOf
  <2>4. sorted[c] \in [1..Len(slab_list[c]) -> Pages]
    BY <2>1, <2>2, <2>3
  <2> QED BY <2>1, <2>4
<1>4. ASSUME NEW c \in MonClasses
      PROVE  /\ [i \in DOMAIN slab_list[c] |-> 0] \in Seq(0..MaxEstimate)
             /\ Len([i \in DOMAIN slab_list[c] |-> 0]) = Len(slab_list[c])
  <2>1. DOMAIN slab_list[c] = 1..Len(slab_list[c]) /\ Len(slab_list[c]) \in Nat
    BY <1>1, ListView
  <2> QED BY <2>1, BoundsAssumption
<1>5. /\ mon_slabs' = [c \in Classes |->
                         IF c \in MonClasses THEN Len(slab_list[c]) ELSE mon_slabs[c]]
      /\ hlls' = [c \in Classes |->
                    IF c \in MonClasses THEN [i \in DOMAIN slab_list[c] |-> 0] ELSE hlls[c]]
      /\ monitoring_slabs' = TRUE /\ mon_slabs_lock' = "none" /\ ppc' = "limit" /\ ppc = "start"
      /\ UNCHANGED <<classVars, rebalVars, condVars, mem_limit, rounds, workVars, rpc>>
  BY DEF start_slab_monitor
<1>6. MonitorConsistent'
  BY <1>1, <1>2, <1>3, <1>4, <1>5 DEF MonitorConsistent, classVars
<1>7. TypeOK'
  <2>1. sorted_list' \in [Classes -> Seq(Pages)]
    BY <1>2, <1>3 DEF TypeOK
  <2>2. hlls' \in [Classes -> Seq(0..MaxEstimate)]
    BY <1>4, <1>5 DEF TypeOK
  <2>3. mon_slabs' \in [Classes -> Nat]
    BY <1>5, ListView DEF TypeOK
  <2> QED BY <1>5, <2>1, <2>2, <2>3 DEF TypeOK, classVars, rebalVars, condVars, workVars
<1>8. LocksHeld' /\ SignalInStep' /\ RequestSound' /\ MonitoringInStep'
  BY <1>5, WorkersAssumption
  DEF LocksHeld, SignalInStep, RequestSound, MonitoringInStep, TypeOK, rebalVars, condVars, workVars
<1>9. SweepProgress' /\ SweptPageInPlace' /\ ClearedUnreferenced'
  BY <1>5 DEF SweepProgress, SweptPageInPlace, ClearedUnreferenced, HasSparePage, IsCleared,
              classVars, rebalVars, workVars
<1>10. ListInv' /\ NoDanglingItem'
  BY <1>5, ListInvUnchanged DEF ListInv, NoDanglingItem, PagesOf, classVars, workVars
<1> QED BY <1>6, <1>7, <1>8, <1>9, <1>10 DEF ListInv

LEMMA SetMemLimitInv ==
  ASSUME IndInv, SetMemLimit
  PROVE  IndInv'
<1> USE DEF IndInv
<1>1. TypeOK'
  BY LimitsAssumption
  DEF TypeOK, SetMemLimit, classVars, monVars, rebalVars, condVars, workVars
<1>2. LocksHeld'
  BY WorkersAssumption
  DEF TypeOK, LocksHeld, SetMemLimit, classVars, monVars, rebalVars, condVars, workVars
<1>3. RequestSound'
  BY DEF TypeOK, RequestSound, SetMemLimit, classVars, monVars, rebalVars, condVars,
         workVars
<1>4. MonitoringInStep'
  BY DEF TypeOK, MonitoringInStep, SetMemLimit, classVars, monVars, rebalVars, condVars,
         workVars
<1>5. /\ SignalInStep' /\ SweepProgress' /\ SweptPageInPlace'
      /\ ClearedUnreferenced' /\ ListInv' /\ NoDanglingItem' /\ MonitorConsistent'
  BY ListInvUnchanged
  DEF SignalInStep, SweepProgress, HasSparePage, SweptPageInPlace, ClearedUnreferenced,
      IsCleared, NoDanglingItem, PagesOf, MonitorConsistent, SetMemLimit, classVars,
      monVars, rebalVars, condVars, workVars, ListInv
<1> QED BY <1>1, <1>2, <1>3, <1>4, <1>5 DEF ListInv

LEMMA DeallocateLockInv ==
  ASSUME IndInv, DeallocateLock
  PROVE  IndInv'
<1> USE DEF IndInv
<1>1. TypeOK'
  BY WorkersAssumption DEF TypeOK, DeallocateLock, classVars, monVars, rebalVars, workVars
<1>2. LocksHeld'
  BY WorkersAssumption
  DEF TypeOK, LocksHeld, DeallocateLock, classVars, monVars, rebalVars, workVars
<1>3. RequestSound'
  BY DEF TypeOK, RequestSound, DeallocateLock, classVars, monVars, rebalVars, workVars
<1>4. MonitoringInStep'
  BY DEF TypeOK, MonitoringInStep, DeallocateLock, classVars, monVars, rebalVars, workVars
<1>5. /\ SignalInStep' /\ SweepProgress' /\ SweptPageInPlace'
      /\ ClearedUnreferenced' /\ ListInv' /\ NoDanglingItem' /\ MonitorConsistent'
  BY ListInvUnchanged
  DEF SignalInStep, SweepProgress, HasSparePage, SweptPageInPlace, ClearedUnreferenced,
      IsCleared, NoDanglingItem, PagesOf, MonitorConsistent, DeallocateLock, classVars,
      monVars, rebalVars, workVars, ListInv
<1> QED BY <1>1, <1>2, <1>3, <1>4, <1>5 DEF ListInv

LEMMA DeallocateNothingInv ==
  ASSUME IndInv, DeallocateNothing
  PROVE  IndInv'
<1> USE DEF IndInv
<1>1. TypeOK'
  BY WorkersAssumption
  DEF TypeOK, DeallocateNothing, classVars, monVars, rebalVars, condVars, workVars
<1>2. LocksHeld'
  BY WorkersAssumption
  DEF TypeOK, LocksHeld, DeallocateNothing, classVars, monVars, rebalVars, condVars,
      workVars
<1>3. RequestSound'
  BY DEF TypeOK, RequestSound, DeallocateNothing, classVars, monVars, rebalVars, condVars,
         workVars
<1>4. MonitoringInStep'
  BY DEF TypeOK, MonitoringInStep, DeallocateNothing, classVars, monVars, rebalVars,
         condVars, workVars
<1>5. /\ SignalInStep' /\ SweepProgress' /\ SweptPageInPlace'
      /\ ClearedUnreferenced' /\ ListInv' /\ NoDanglingItem' /\ MonitorConsistent'
  BY ListInvUnchanged
  DEF SignalInStep, SweepProgress, HasSparePage, SweptPageInPlace, ClearedUnreferenced,
      IsCleared, NoDanglingItem, PagesOf, MonitorConsistent, DeallocateNothing, classVars,
      monVars, rebalVars, condVars, workVars, ListInv
<1> QED BY <1>1, <1>2, <1>3, <1>4, <1>5 DEF ListInv

LEMMA DivideByZeroInv ==
  ASSUME IndInv, DivideByZero
  PROVE  IndInv'
<1> USE DEF IndInv
<1>1. TypeOK'
  BY WorkersAssumption
  DEF TypeOK, DivideByZero, classVars, monVars, rebalVars, condVars, workVars
<1>2. LocksHeld'
  BY WorkersAssumption
  DEF TypeOK, LocksHeld, DivideByZero, classVars, monVars, rebalVars, condVars, workVars
<1>3. RequestSound'
  BY DEF TypeOK, RequestSound, DivideByZero, classVars, monVars, rebalVars, condVars,
         workVars
<1>4. MonitoringInStep'
  BY DEF TypeOK, MonitoringInStep, DivideByZero, classVars, monVars, rebalVars, condVars,
         workVars
<1>5. /\ SignalInStep' /\ SweepProgress' /\ SweptPageInPlace'
      /\ ClearedUnreferenced' /\ ListInv' /\ NoDanglingItem' /\ MonitorConsistent'
  BY ListInvUnchanged
  DEF SignalInStep, SweepProgress, HasSparePage, SweptPageInPlace, ClearedUnreferenced,
      IsCleared, NoDanglingItem, PagesOf, MonitorConsistent, DivideByZero, classVars,
      monVars, rebalVars, condVars, workVars, ListInv
<1> QED BY <1>1, <1>2, <1>3, <1>4, <1>5 DEF ListInv

LEMMA RequestRemovalInv ==
  ASSUME IndInv, RequestRemoval
  PROVE  IndInv'
<1> USE DEF IndInv
<1>1. TypeOK'
  <2>1. slab_rebal' \in RebalType
    <3>1. PICK src \in RemoveSources \ {Pool} :
             slab_rebal' = [slab_rebal EXCEPT !.s_clsid = src, !.d_clsid = Removal]
      BY DEF RequestRemoval
    <3>2. src \in Classes
      BY ClassesAssumption DEF RemoveSources, MonClasses, Classes
    <3>3. slab_rebal \in RebalType
      BY DEF TypeOK, RebalType
    <3> QED BY <3>1, <3>2, <3>3, RequestType
  <2>2. waiting' \subseteq {"rebalancer", "provisioner"}
    BY DEF TypeOK, RequestRemoval
  <2>3. /\ slab_rebalance_signal' \in 0..2
        /\ slabs_rebalance_lock' = "none" /\ ppc' = "waiting"
        /\ UNCHANGED <<classVars, monVars, cleared, mem_limit, rounds, workVars,
                       mon_slabs_lock, rpc>>
    BY DEF RequestRemoval
  <2> QED BY <2>1, <2>2, <2>3 DEF TypeOK, RebalType, classVars, monVars, workVars
<1>2. LocksHeld'
  BY WorkersAssumption
  DEF TypeOK, LocksHeld, RequestRemoval, RemoveSources, classVars, monVars, workVars
<1>3. SignalInStep'
  BY DEF SignalInStep, LocksHeld, RequestRemoval
<1>4. RequestSound'
  BY DEF TypeOK, RequestSound, RequestRemoval, RemoveSources, classVars, monVars, workVars
<1>5. MonitoringInStep'
  BY DEF TypeOK, MonitoringInStep, RequestRemoval, RemoveSources, classVars, monVars,
         workVars
<1>6. SweepProgress'
  BY DEF SweepProgress, SignalInStep, LocksHeld, TypeOK, RequestRemoval
<1>7. SweptPageInPlace'
  BY DEF TypeOK, SweptPageInPlace, RequestRemoval, RemoveSources, classVars, monVars,
         workVars
<1>8. ClearedUnreferenced'
  BY DEF TypeOK, ClearedUnreferenced, IsCleared, RequestRemoval, RemoveSources, classVars,
         monVars, workVars
<1>9. ListInv' /\ NoDanglingItem' /\ MonitorConsistent'
  BY ListInvUnchanged
  DEF NoDanglingItem, PagesOf, MonitorConsistent, RequestRemoval, classVars, monVars,
      workVars, ListInv
<1> QED BY <1>1, <1>2, <1>3, <1>4, <1>5, <1>6, <1>7, <1>8, <1>9 DEF ListInv

LEMMA ProvisionerWakeInv ==
  ASSUME IndInv, ProvisionerWake
  PROVE  IndInv'
<1> USE DEF IndInv
<1>1. TypeOK'
  <2>1. /\ waiting' \subseteq {"rebalancer", "provisioner"}
        /\ slabs_rebalance_lock' \in {slabs_rebalance_lock, "provisioner"}
        /\ ppc' \in {"waiting", "stop", "loop"}
    BY DEF TypeOK, ProvisionerWake, condVars
  <2> QED BY <2>1 DEF TypeOK, ProvisionerWake, classVars, monVars, rebalVars, workVars
<1>2. LocksHeld'
  BY WorkersAssumption
  DEF TypeOK, LocksHeld, ProvisionerWake, classVars, monVars, rebalVars, workVars
<1>3. RequestSound'
  BY DEF TypeOK, RequestSound, ProvisionerWake, classVars, monVars, rebalVars, workVars
<1>4. MonitoringInStep'
  BY DEF TypeOK, MonitoringInStep, ProvisionerWake, classVars, monVars, rebalVars, workVars
<1>5. /\ SignalInStep' /\ SweepProgress' /\ SweptPageInPlace'
      /\ ClearedUnreferenced' /\ ListInv' /\ NoDanglingItem' /\ MonitorConsistent'
  BY ListInvUnchanged
  DEF SignalInStep, SweepProgress, HasSparePage, SweptPageInPlace, ClearedUnreferenced,
      IsCleared, NoDanglingItem, PagesOf, MonitorConsistent, ProvisionerWake, classVars,
      monVars, rebalVars, workVars, ListInv
<1> QED BY <1>1, <1>2, <1>3, <1>4, <1>5 DEF ListInv

LEMMA StopSlabMonitorLockInv ==
  ASSUME IndInv, StopSlabMonitorLock
  PROVE  IndInv'
<1> USE DEF IndInv
<1>1. TypeOK'
  BY WorkersAssumption
  DEF TypeOK, StopSlabMonitorLock, classVars, monVars, rebalVars, condVars, workVars
<1>2. LocksHeld'
  BY WorkersAssumption
  DEF TypeOK, LocksHeld, StopSlabMonitorLock, classVars, monVars, rebalVars, condVars,
      workVars
<1>3. RequestSound'
  BY DEF TypeOK, RequestSound, StopSlabMonitorLock, classVars, monVars, rebalVars, condVars,
         workVars
<1>4. MonitoringInStep'
  BY DEF TypeOK, MonitoringInStep, StopSlabMonitorLock, classVars, monVars, rebalVars,
         condVars, workVars
<1>5. /\ SignalInStep' /\ SweepProgress' /\ SweptPageInPlace'
      /\ ClearedUnreferenced' /\ ListInv' /\ NoDanglingItem' /\ MonitorConsistent'
  BY ListInvUnchanged
  DEF SignalInStep, SweepProgress, HasSparePage, SweptPageInPlace, ClearedUnreferenced,
      IsCleared, NoDanglingItem, PagesOf, MonitorConsistent, StopSlabMonitorLock, classVars,
      monVars, rebalVars, condVars, workVars, ListInv
<1> QED BY <1>1, <1>2, <1>3, <1>4, <1>5 DEF ListInv

LEMMA stop_slab_monitorInv ==
  ASSUME IndInv, stop_slab_monitor
  PROVE  IndInv'
<1> USE DEF IndInv
<1>1. TypeOK'
  <2>1. <<>> \in Seq(Pages) /\ <<>> \in Seq(0..MaxEstimate)
    OBVIOUS
  <2> QED BY <2>1 DEF TypeOK, stop_slab_monitor, classVars, rebalVars, condVars, workVars
<1>2. LocksHeld'
  BY WorkersAssumption
  DEF TypeOK, LocksHeld, stop_slab_monitor, classVars, rebalVars, condVars, workVars
<1>3. RequestSound'
  BY DEF TypeOK, RequestSound, stop_slab_monitor, classVars, rebalVars, condVars, workVars
<1>4. MonitoringInStep'
  BY DEF TypeOK, MonitoringInStep, stop_slab_monitor, classVars, rebalVars, condVars,
         workVars
<1>5. MonitorConsistent'
  BY DEF TypeOK, MonitorConsistent, stop_slab_monitor, classVars, rebalVars, condVars,
         workVars
<1>6. /\ SignalInStep' /\ SweepProgress' /\ SweptPageInPlace'
      /\ ClearedUnreferenced' /\ ListInv' /\ NoDanglingItem'
  BY ListInvUnchanged
  DEF SignalInStep, SweepProgress, HasSparePage, SweptPageInPlace, ClearedUnreferenced,
      IsCleared, NoDanglingItem, PagesOf, stop_slab_monitor, classVars, rebalVars, condVars,
      workVars, ListInv
<1> QED BY <1>1, <1>2, <1>3, <1>4, <1>5, <1>6 DEF ListInv

LEMMA SlabsReassignInv ==
  ASSUME IndInv, NEW src \in 1..PowerLargest, NEW dst \in Classes, SlabsReassign(src, dst)
  PROVE  IndInv'
<1> USE DEF IndInv
<1>1. TypeOK'
  <2>1. slab_rebal' \in RebalType
    <3>1. src \in Classes
      BY ClassesAssumption DEF Classes
    <3>2. slab_rebal \in RebalType
      BY DEF TypeOK, RebalType
    <3> QED BY <3>1, <3>2, RequestType DEF SlabsReassign
  <2>2. waiting' \subseteq {"rebalancer", "provisioner"}
    BY DEF TypeOK, SlabsReassign, CondSignal
  <2>3. /\ slab_rebalance_signal' \in 0..2
        /\ UNCHANGED <<classVars, monVars, cleared, slabs_rebalance_lock, provVars, workVars,
                       mon_slabs_lock, rpc>>
    BY DEF SlabsReassign
  <2> QED
    BY <2>1, <2>2, <2>3, ZenonT(30)
    DEF TypeOK, RebalType, classVars, monVars, provVars, workVars
<1>2. SignalInStep'
  BY DEF TypeOK, SignalInStep, SlabsReassign, CondSignal, HasSparePage, classVars, monVars,
         provVars, workVars
<1>3. RequestSound'
  <2>1. slab_rebal'.s_clsid = src /\ slab_rebal'.d_clsid = dst
    BY DEF SlabsReassign, TypeOK
  <2>2. src # Pool /\ dst # Removal /\ src # dst /\ ReassignEnabled
    BY ClassesAssumption DEF SlabsReassign, Pool, Removal, Classes
  <2> QED BY <2>1, <2>2 DEF RequestSound
<1>4. SweepProgress'
  BY DEF TypeOK, SweepProgress, HasSparePage, SlabsReassign, CondSignal, classVars, monVars,
         provVars, workVars
<1>5. SweptPageInPlace'
  BY DEF TypeOK, SweptPageInPlace, SlabsReassign, CondSignal, HasSparePage, classVars,
         monVars, provVars, workVars
<1>6. ClearedUnreferenced'
  BY DEF TypeOK, ClearedUnreferenced, IsCleared, SlabsReassign, CondSignal, HasSparePage,
         classVars, monVars, provVars, workVars
<1>7. LocksHeld' /\ MonitoringInStep' /\ ListInv' /\ NoDanglingItem' /\ MonitorConsistent'
  BY ListInvUnchanged
  DEF LocksHeld, MonitoringInStep, NoDanglingItem, PagesOf, MonitorConsistent,
      SlabsReassign, classVars, monVars, provVars, workVars, ListInv
<1> QED BY <1>1, <1>2, <1>3, <1>4, <1>5, <1>6, <1>7 DEF ListInv

LEMMA RebalancerPauseInv ==
  ASSUME IndInv, NEW t \in Pausers, RebalancerPause(t)
  PROVE  IndInv'
<1> USE DEF IndInv
<1>1. TypeOK'
  BY WorkersAssumption
  DEF TypeOK, RebalancerPause, classVars, monVars, rebalVars, provVars, workVars
<1>2. LocksHeld'
  BY WorkersAssumption
  DEF TypeOK, LocksHeld, RebalancerPause, classVars, monVars, rebalVars, provVars, workVars
<1>3. /\ SignalInStep' /\ RequestSound' /\ MonitoringInStep' /\ SweepProgress'
      /\ SweptPageInPlace' /\ ClearedUnreferenced' /\ ListInv' /\ NoDanglingItem'
      /\ MonitorConsistent'
  BY ListInvUnchanged
  DEF SignalInStep, RequestSound, MonitoringInStep, SweepProgress, HasSparePage,
      SweptPageInPlace, ClearedUnreferenced, IsCleared, NoDanglingItem, PagesOf,
      MonitorConsistent, RebalancerPause, classVars, monVars, rebalVars, provVars, workVars,
      ListInv
<1> QED BY <1>1, <1>2, <1>3 DEF ListInv

LEMMA RebalancerResumeInv ==
  ASSUME IndInv, NEW t \in Pausers, RebalancerResume(t)
  PROVE  IndInv'
<1> USE DEF IndInv
<1>1. TypeOK'
  BY WorkersAssumption
  DEF TypeOK, RebalancerResume, classVars, monVars, rebalVars, provVars, workVars
<1>2. LocksHeld'
  BY WorkersAssumption
  DEF TypeOK, LocksHeld, RebalancerResume, classVars, monVars, rebalVars, provVars, workVars
<1>3. /\ SignalInStep' /\ RequestSound' /\ MonitoringInStep' /\ SweepProgress'
      /\ SweptPageInPlace' /\ ClearedUnreferenced' /\ ListInv' /\ NoDanglingItem'
      /\ MonitorConsistent'
  BY ListInvUnchanged
  DEF SignalInStep, RequestSound, MonitoringInStep, SweepProgress, HasSparePage,
      SweptPageInPlace, ClearedUnreferenced, IsCleared, NoDanglingItem, PagesOf,
      MonitorConsistent, RebalancerResume, classVars, monVars, rebalVars, provVars,
      workVars, ListInv
<1> QED BY <1>1, <1>2, <1>3 DEF ListInv

LEMMA SpuriousWakeupInv ==
  ASSUME IndInv, NEW t \in {"rebalancer", "provisioner"}, SpuriousWakeup(t)
  PROVE  IndInv'
<1> USE DEF IndInv
<1>1. TypeOK'
  BY WorkersAssumption
  DEF TypeOK, SpuriousWakeup, classVars, monVars, rebalVars, provVars, workVars
<1>2. /\ LocksHeld' /\ SignalInStep' /\ RequestSound' /\ MonitoringInStep'
      /\ SweepProgress' /\ SweptPageInPlace' /\ ClearedUnreferenced' /\ ListInv'
      /\ NoDanglingItem' /\ MonitorConsistent'
  BY ListInvUnchanged
  DEF LocksHeld, SignalInStep, RequestSound, MonitoringInStep, SweepProgress, HasSparePage,
      SweptPageInPlace, ClearedUnreferenced, IsCleared, NoDanglingItem, PagesOf,
      MonitorConsistent, SpuriousWakeup, classVars, monVars, rebalVars, provVars, workVars,
      ListInv
<1> QED BY <1>1, <1>2 DEF ListInv

-----------------------------------------------------------------------------
(* The theorems. *)

LEMMA InitInv == Init => IndInv
<1> SUFFICES ASSUME Init PROVE IndInv
  OBVIOUS
<1>1. \A c \in Classes : slab_list[c] = <<>> /\ PagesOf(c) = {}
  BY DEF Init, PagesOf
<1>2. TypeOK
  <2>1. /\ <<>> \in Seq(Pages) /\ <<>> \in Seq(0..MaxEstimate)
        /\ 0 \in Classes /\ 0 \in 0..PerSlab
    BY ClassesAssumption, PerSlabAssumption DEF Classes
  <2> QED BY <2>1, LimitsAssumption DEF Init, TypeOK, NoRebal
<1>3. LocksHeld /\ SignalInStep /\ RequestSound /\ MonitoringInStep
  BY DEF Init, LocksHeld, SignalInStep, RequestSound, MonitoringInStep
<1>4. SweepProgress /\ SweptPageInPlace /\ ClearedUnreferenced
  BY DEF Init, SweepProgress, SweptPageInPlace, ClearedUnreferenced, NoRebal
<1>5. PagesOwnedOnce /\ NoDanglingItem /\ MonitorConsistent
  BY <1>1 DEF Init, PagesOwnedOnce, NoDanglingItem, MonitorConsistent
<1>6. MemoryCounted
  <2>1. Malloced = {}
    BY <1>1 DEF Malloced
  <2> QED BY <2>1, FS_EmptySet, BoundsAssumption DEF Init, MemoryCounted
<1> QED BY <1>2, <1>3, <1>4, <1>5, <1>6 DEF IndInv

LEMMA StutterInv ==
  ASSUME IndInv, UNCHANGED vars
  PROVE  IndInv'
<1> USE DEF IndInv, vars, classVars, monVars, rebalVars, condVars, provVars, workVars
<1>1. TypeOK' /\ LocksHeld' /\ SignalInStep' /\ RequestSound' /\ MonitoringInStep'
  BY DEF TypeOK, LocksHeld, SignalInStep, RequestSound, MonitoringInStep
<1>2. SweepProgress' /\ SweptPageInPlace' /\ ClearedUnreferenced'
  BY DEF SweepProgress, SweptPageInPlace, ClearedUnreferenced, HasSparePage, IsCleared
<1>3. ListInv' /\ NoDanglingItem' /\ MonitorConsistent'
  BY ListInvUnchanged DEF ListInv, NoDanglingItem, PagesOf, MonitorConsistent
<1> QED BY <1>1, <1>2, <1>3 DEF ListInv

LEMMA NextInv ==
  ASSUME OneMoverUser, IndInv, [Next]_vars
  PROVE  IndInv'
<1>1. CASE UNCHANGED vars
  BY <1>1, StutterInv
<1>2. ASSUME NEW w \in Workers, Worker(w) PROVE IndInv'
  BY <1>2, SlabsAllocLockInv, SlabsAllocFreeInv, SlabsAllocNewSlabInv,
     SlabsAllocNoMemoryInv, SlabsAllocFailInv,
     ItemGetInv, SetSlabActiveLockInv, SetSlabActiveInv,
     SetSlabActiveSegfaultInv, SetSlabActiveAbortsInv, ItemRemoveInv
  DEF Worker
<1>3. CASE Rebalancer
  BY <1>3, RebalancerBootInv, RebalancerWaitInv, RebalancerWakeInv, RebalanceStartLockInv,
     RebalanceStartNoGoInv, RebalanceStartAbortsInv, RebalanceStartInv, SweepPassInv,
     SweepFromSlabInv, SweepBusyInv,
     SweepFromLRUInv, SweepUnlinkedInv, FinishLockInv, slab_remove_finishInv,
     slab_rebalance_finishInv
  DEF Rebalancer
<1>4. CASE Provisioner
  BY <1>4, StartSlabMonitorLockInv, start_slab_monitorInv, SetMemLimitInv,
     DeallocateLockInv,
     DeallocateNothingInv, DivideByZeroInv, RequestRemovalInv, ProvisionerWakeInv,
     StopSlabMonitorLockInv, stop_slab_monitorInv
  DEF Provisioner
<1>5. ASSUME NEW src \in 1..PowerLargest, NEW dst \in Classes, SlabsReassign(src, dst)
      PROVE  IndInv'
  BY <1>5, SlabsReassignInv
<1>6. ASSUME NEW t \in Pausers, RebalancerPause(t) \/ RebalancerResume(t)
      PROVE  IndInv'
  BY <1>6, RebalancerPauseInv, RebalancerResumeInv
<1>7. ASSUME NEW t \in {"rebalancer", "provisioner"}, SpuriousWakeup(t)
      PROVE  IndInv'
  BY <1>7, SpuriousWakeupInv
<1> QED BY <1>1, <1>2, <1>3, <1>4, <1>5, <1>6, <1>7 DEF Next, Step, Killed

\* The invariant: locks, signal and steps of the threads agree; what the mover has
\* cleared stays unreferenced; page lists, counters and sketches agree.
THEOREM Inductive == OneMoverUser /\ Spec => []IndInv
<1>1. CASE OneMoverUser
  <2>1. Init => IndInv
    BY InitInv
  <2>2. IndInv /\ [Next]_vars => IndInv'
    BY <1>1, NextInv
  <2> QED BY <2>1, <2>2, PTL DEF Spec
<1>2. CASE ~OneMoverUser
  BY <1>2
<1> QED BY <1>1, <1>2

\* Every variable has its type: in particular the page counters never go below 0.
THEOREM TypeCorrect == OneMoverUser /\ Spec => []TypeOK
<1>1. IndInv => TypeOK
  BY DEF IndInv
<1> QED BY <1>1, Inductive, PTL

\* No page is ever in two lists, or twice in one.
THEOREM PagesOwnedOnceHolds == OneMoverUser /\ Spec => []PagesOwnedOnce
<1>1. IndInv => PagesOwnedOnce
  BY DEF IndInv
<1> QED BY <1>1, Inductive, PTL

\* mem_malloced is the number of pages the process holds, unless malloc fails.
THEOREM MemoryAccountedHolds ==
  MaxFailedMallocs = 0 /\ OneMoverUser /\ Spec => []MemoryAccounted
<1>1. CASE MaxFailedMallocs = 0
  <2>1. IndInv => MemoryAccounted
    <3> SUFFICES ASSUME IndInv PROVE MemoryAccounted
      OBVIOUS
    <3> QED BY <1>1, ListView DEF MemoryAccounted
  <2> QED BY <2>1, Inductive, PTL
<1>2. CASE MaxFailedMallocs # 0
  BY <1>2
<1> QED BY <1>1, <1>2

\* An item in use lies in a page that the class of the item owns.
THEOREM NoDanglingItemHolds == OneMoverUser /\ Spec => []NoDanglingItem
<1>1. IndInv => NoDanglingItem
  BY DEF IndInv
<1> QED BY <1>1, Inductive, PTL

\* set_slab_active never meets "NOT CONSISTENT".
THEOREM MonitorConsistentHolds == OneMoverUser /\ Spec => []MonitorConsistent
<1>1. IndInv => MonitorConsistent
  BY DEF IndInv
<1> QED BY <1>1, Inductive, PTL

\* The page under the sweep is the one at slab_index.
THEOREM SweptPageInPlaceHolds == OneMoverUser /\ Spec => []SweptPageInPlace
<1>1. IndInv => SweptPageInPlace
  BY DEF IndInv
<1> QED BY <1>1, Inductive, PTL

\* A page leaves its class only when all of it is cleared and nobody refers to it.
THEOREM PageClearAtFinishHolds == OneMoverUser /\ Spec => []PageClearAtFinish
<1>1. IndInv => PageClearAtFinish
  BY PageClear
<1> QED BY <1>1, Inductive, PTL
=============================================================================
