----------------------- MODULE SlabHandshake_proofs -----------------------
(***************************************************************************)
(* The handshake of slabs_deallocate and the rebalancer, for all values of *)
(* the constants: no wakeup is lost, a removal is still called for when it *)
(* happens, and no class is left without a page.  Then what may kill the   *)
(* process: an item of the largest class, or a limit below one page per    *)
(* class in use; the search of set_slab_active finds every other page.     *)
(***************************************************************************)
EXTENDS SlabDealloc_proofs, WellFoundedInduction

handshakeVars == <<waiting, rpc, ppc, slab_rebalance_signal, slab_rebal, slab_list,
                   mem_malloced, mem_limit>>

\* What an action of a thread that is not part of the handshake may change.
LEMMA HandshakeUnchanged ==
  ASSUME HandshakeInv, UNCHANGED handshakeVars
  PROVE  HandshakeInv'
BY DEF HandshakeInv, NoLostWakeup, RemovalJustified, HasSparePage, OverLimit, handshakeVars

\* No page of a slab class goes when a page is obtained.
LEMMA NewSlabKeeps ==
  ASSUME IndInv, NEW id \in 1..PowerLargest, do_slabs_newslab(id)
  PROVE  /\ \A c \in 1..PowerLargest : Len(slab_list'[c]) >= Len(slab_list[c])
         /\ mem_malloced' >= mem_malloced
<1>1. mem_malloced \in Nat
  BY DEF IndInv, TypeOK
<1>2. mem_malloced' >= mem_malloced
  BY <1>1 DEF do_slabs_newslab, PageFromPool, PageFromMalloc
<1>3. ASSUME NEW c \in 1..PowerLargest PROVE Len(slab_list'[c]) >= Len(slab_list[c])
  <2>1. c \in Classes
    BY DEF Classes
  <2>2. slab_list' \in Lists
    BY NewSlabFacts
  <2>3. /\ Len(slab_list[c]) \in Nat /\ DOMAIN slab_list[c] = 1..Len(slab_list[c])
        /\ Len(slab_list'[c]) \in Nat /\ DOMAIN slab_list'[c] = 1..Len(slab_list'[c])
    BY <2>1, <2>2, ListView, LenProperties DEF Lists
  <2>4. \A j \in DOMAIN slab_list[c] : j \in DOMAIN slab_list'[c]
    BY NewSlabFacts
  <2> QED BY <2>3, <2>4
<1> QED BY <1>2, <1>3

LEMMA WorkerHandshake ==
  ASSUME IndInv, HandshakeInv, NEW w \in Workers, Worker(w)
  PROVE  HandshakeInv'
<1>1. CASE SlabsAllocLock(w)
  BY <1>1, HandshakeUnchanged
  DEF SlabsAllocLock, handshakeVars, classVars, rebalVars, condVars, provVars
<1>2. CASE SlabsAllocFree(w) \/ SlabsAllocFail(w)
  BY <1>2, HandshakeUnchanged
  DEF SlabsAllocFree, SlabsAllocFail, SlabsAllocEnd, handshakeVars, classVars, rebalVars,
      condVars, provVars
<1>3. CASE SlabsAllocNewSlab(w)
  <2>1. PICK id \in ItemClasses : do_slabs_newslab(id)
    BY <1>3 DEF SlabsAllocNewSlab
  <2>2. /\ \A c \in 1..PowerLargest : Len(slab_list'[c]) >= Len(slab_list[c])
        /\ mem_malloced' >= mem_malloced /\ mem_malloced' \in Nat
    BY <2>1, ClassesAssumption, NewSlabKeeps, NewSlabFacts
  <2>3. UNCHANGED <<waiting, rpc, ppc, slab_rebalance_signal, slab_rebal, mem_limit>>
    BY <1>3 DEF SlabsAllocNewSlab, SlabsAllocEnd, rebalVars, condVars, provVars
  <2>4. RemovalJustified'
    <3> SUFFICES ASSUME slab_rebalance_signal # 0, slab_rebal.d_clsid = Removal
                 PROVE  HasSparePage(slab_rebal.s_clsid)' /\ OverLimit'
      BY <2>3 DEF RemovalJustified
    <3>1. HasSparePage(slab_rebal.s_clsid) /\ OverLimit
      BY DEF HandshakeInv, RemovalJustified
    <3>2. slab_rebal.s_clsid \in 1..PowerLargest
      BY ClassesAssumption DEF IndInv, RequestSound, MonClasses, Pool
    <3>3. Len(slab_list[slab_rebal.s_clsid]) \in Nat /\ slab_list' \in Lists
      BY <2>1, <3>2, ListView, ClassesAssumption, NewSlabFacts DEF Classes
    <3>4. Len(slab_list'[slab_rebal.s_clsid]) \in Nat
      BY <3>2, <3>3, LenProperties, ClassesAssumption DEF Lists, Classes
    <3>5. mem_malloced \in Nat /\ mem_limit \in Nat
      BY DEF IndInv, TypeOK
    <3> QED BY <2>2, <2>3, <3>1, <3>2, <3>3, <3>4, <3>5 DEF HasSparePage, OverLimit
  <2> QED BY <2>3, <2>4 DEF HandshakeInv, NoLostWakeup
<1>4. CASE SlabsAllocNoMemory(w)
  <2>1. /\ UNCHANGED <<waiting, rpc, ppc, slab_rebalance_signal, slab_rebal, mem_limit, slab_list>>
        /\ mem_malloced' = mem_malloced + 1
    BY <1>4 DEF SlabsAllocNoMemory, SlabsAllocEnd, rebalVars, condVars, provVars
  <2>2. mem_malloced \in Nat /\ mem_limit \in Nat
    BY DEF IndInv, TypeOK
  <2> QED BY <2>1, <2>2 DEF HandshakeInv, NoLostWakeup, RemovalJustified, HasSparePage, OverLimit
<1>5. CASE ItemGet(w) \/ SetSlabActiveLock(w) \/ ItemRemove(w)
  BY <1>5, HandshakeUnchanged
  DEF ItemGet, SetSlabActiveLock, ItemRemove, handshakeVars, classVars, rebalVars, condVars,
      provVars
<1>6. CASE SetSlabActive(w) \/ SetSlabActiveSegfault(w) \/ SetSlabActiveAborts(w)
  <2>1. UNCHANGED <<classVars, rebalVars, condVars, provVars, rpc>>
    BY <1>6 DEF SetSlabActive, SetSlabActiveSegfault, SetSlabActiveAborts
  <2> QED
    BY <2>1, HandshakeUnchanged DEF handshakeVars, classVars, rebalVars, condVars, provVars
<1> QED BY <1>1, <1>2, <1>3, <1>4, <1>5, <1>6 DEF Worker

\* A sweep, of which the handshake sees nothing but the step of the rebalancer.
LEMMA SweepHandshake ==
  ASSUME IndInv, HandshakeInv,
         SweepPass \/ SweepFromSlab \/ SweepBusy \/ SweepFromLRU \/ SweepUnlinked
  PROVE  HandshakeInv'
<1>1. /\ UNCHANGED <<classVars, slab_rebalance_signal, condVars, provVars>>
      /\ rpc # "waiting" /\ slab_rebalance_signal = 2
  BY DEF SweepPass, SweepFromSlab, SweepBusy, SweepFromLRU, SweepUnlinked, Sweeping, IndInv,
         SignalInStep
<1>2. slab_rebal'.s_clsid = slab_rebal.s_clsid /\ slab_rebal'.d_clsid = slab_rebal.d_clsid
  <2>1. slab_rebal \in RebalType
    BY DEF IndInv, TypeOK, RebalType
  <2>2. CASE SweepFromLRU
    BY <2>2 DEF SweepFromLRU
  <2>3. CASE Advance(0) \/ Advance(1)
    BY <2>1, <2>3 DEF Advance, RebalType
  <2> QED BY <2>2, <2>3 DEF SweepPass, SweepFromSlab, SweepBusy, SweepUnlinked
<1>3. "rebalancer" \notin waiting
  BY <1>1 DEF HandshakeInv
<1>4. RemovalJustified'
  BY <1>1, <1>2
  DEF HandshakeInv, RemovalJustified, HasSparePage, OverLimit, classVars, provVars
<1> QED BY <1>1, <1>3, <1>4 DEF HandshakeInv, NoLostWakeup, condVars, provVars

LEMMA RebalancerHandshake ==
  ASSUME OneMoverUser, IndInv, HandshakeInv, Rebalancer
  PROVE  HandshakeInv'
<1> USE DEF HandshakeInv, NoLostWakeup
<1>1. CASE RebalancerBoot
  BY <1>1
  DEF RebalancerBoot, RemovalJustified, HasSparePage, OverLimit, classVars, rebalVars, provVars
<1>2. CASE RebalancerWait
  BY <1>2
  DEF RebalancerWait, RemovalJustified, HasSparePage, OverLimit, classVars, rebalVars, provVars
<1>3. CASE RebalancerWake
  BY <1>3
  DEF RebalancerWake, RemovalJustified, HasSparePage, OverLimit, classVars, rebalVars, provVars
<1>4. CASE RebalanceStartLock \/ FinishLock \/ RebalanceStartAborts
  BY <1>4
  DEF RebalanceStartLock, FinishLock, RebalanceStartAborts, RemovalJustified, HasSparePage,
      OverLimit, classVars,
      rebalVars, condVars, provVars
<1>5. CASE RebalanceStartNoGo
  <2>1. /\ rpc = "starting" /\ slab_rebalance_signal' = 0 /\ waiting' = waiting
        /\ ppc' = ppc
    BY <1>5 DEF RebalanceStartNoGo, condVars, provVars
  <2>2. slab_rebalance_signal = 1 /\ "rebalancer" \notin waiting
    BY <2>1 DEF IndInv, SignalInStep
  <2>3. slab_rebal.d_clsid # Removal
    BY <1>5, <2>2 DEF RebalanceStartNoGo, RemovalJustified
  <2>4. "provisioner" \notin waiting
    <3>1. ReassignEnabled /\ MaxRounds = 0
      BY <2>2, <2>3 DEF IndInv, RequestSound, OneMoverUser, TypeOK
    <3> QED BY <3>1 DEF IndInv, MonitoringInStep
  <2> QED BY <2>1, <2>2, <2>4 DEF RemovalJustified
<1>6. CASE RebalanceStart
  <2>1. /\ rpc = "starting" /\ slab_rebalance_signal' = 2
        /\ UNCHANGED <<classVars, condVars, provVars>>
    BY <1>6 DEF RebalanceStart
  <2>2. slab_rebalance_signal = 1 /\ "rebalancer" \notin waiting
    BY <2>1 DEF IndInv, SignalInStep
  <2>3. slab_rebal'.s_clsid = slab_rebal.s_clsid /\ slab_rebal'.d_clsid = slab_rebal.d_clsid
    BY <1>6 DEF RebalanceStart, IndInv, TypeOK
  <2>4. RemovalJustified'
    BY <2>1, <2>2, <2>3 DEF RemovalJustified, HasSparePage, OverLimit, classVars, provVars
  <2> QED BY <2>1, <2>2, <2>4 DEF condVars, provVars
<1>7. CASE SweepPass \/ SweepFromSlab \/ SweepBusy \/ SweepFromLRU \/ SweepUnlinked
  BY <1>7, SweepHandshake
<1>8. CASE slab_remove_finish
  <2>1. /\ rpc = "finishing" /\ slab_rebalance_signal' = 0 /\ waiting' \subseteq waiting
        /\ ppc' = ppc
    BY <1>8 DEF slab_remove_finish, CondSignal, provVars
  <2>2. "provisioner" \notin waiting'
    <3>1. "rebalancer" \notin waiting
      BY <2>1
    <3>2. waiting \subseteq {"provisioner"}
      BY <3>1 DEF IndInv, TypeOK
    <3> QED BY <1>8, <3>2 DEF slab_remove_finish, CondSignal
  <2>3. "rebalancer" \notin waiting'
    BY <2>1
  <2> QED BY <2>1, <2>2, <2>3 DEF RemovalJustified
<1>9. CASE slab_rebalance_finish
  <2>1. /\ rpc = "finish" /\ slab_rebal.d_clsid # Removal /\ slab_rebalance_signal' = 0
        /\ waiting' = waiting /\ ppc' = ppc
    BY <1>9 DEF slab_rebalance_finish, condVars, provVars
  <2>2. slab_rebalance_signal = 2 /\ "rebalancer" \notin waiting
    BY <2>1 DEF IndInv, SignalInStep
  <2>3. "provisioner" \notin waiting
    <3>1. ReassignEnabled /\ MaxRounds = 0
      BY <2>1, <2>2 DEF IndInv, RequestSound, OneMoverUser, TypeOK
    <3> QED BY <3>1 DEF IndInv, MonitoringInStep
  <2> QED BY <2>1, <2>2, <2>3 DEF RemovalJustified
<1> QED BY <1>1, <1>2, <1>3, <1>4, <1>5, <1>6, <1>7, <1>8, <1>9 DEF Rebalancer

LEMMA RequestHandshake ==
  ASSUME IndInv, HandshakeInv, RequestRemoval
  PROVE  HandshakeInv'
<1>1. PICK src \in RemoveSources \ {Pool} :
        slab_rebal' = [slab_rebal EXCEPT !.s_clsid = src, !.d_clsid = Removal]
  BY DEF RequestRemoval
<1>2. /\ ppc = "loop" /\ ppc' = "waiting" /\ OverLimit /\ slab_rebalance_signal' = 1
      /\ UNCHANGED <<classVars, mem_limit, rpc>>
  BY DEF RequestRemoval
<1>3. waiting \subseteq {"rebalancer"}
  BY <1>2 DEF HandshakeInv, IndInv, TypeOK
<1>4. "rebalancer" \notin waiting'
  <2>1. PICK woken \in SUBSET waiting :
          /\ Cardinality(woken) = (IF waiting = {} THEN 0 ELSE 1)
          /\ waiting' = (waiting \ woken) \cup {"provisioner"}
    BY DEF RequestRemoval
  <2>2. CASE waiting = {}
    BY <2>1, <2>2
  <2>3. CASE waiting # {}
    <3>1. woken # {}
      BY <2>1, <2>3, FS_EmptySet
    <3> QED BY <1>3, <2>1, <3>1
  <2> QED BY <2>2, <2>3
<1>5. HasSparePage(src) /\ slab_rebal'.s_clsid = src
  <2>1. slab_rebal \in RebalType
    BY DEF IndInv, TypeOK, RebalType
  <2>2. slab_rebal'.s_clsid = src
    BY <1>1, <2>1 DEF RebalType
  <2>3. HasSparePage(src)
    BY <1>1 DEF RemoveSources, HasSparePage
  <2> QED BY <2>2, <2>3
<1>6. RemovalJustified'
  BY <1>2, <1>5 DEF RemovalJustified, HasSparePage, OverLimit, classVars
<1>7. "provisioner" \in waiting' => ppc' = "waiting" /\ slab_rebalance_signal' # 0
  BY <1>2
<1> QED BY <1>4, <1>6, <1>7 DEF HandshakeInv, NoLostWakeup

LEMMA ProvisionerHandshake ==
  ASSUME IndInv, HandshakeInv, Provisioner
  PROVE  HandshakeInv'
<1> USE DEF HandshakeInv, NoLostWakeup
<1>1. CASE StartSlabMonitorLock
  BY <1>1
  DEF StartSlabMonitorLock, RemovalJustified, HasSparePage, OverLimit, classVars, rebalVars,
      condVars
<1>2. CASE start_slab_monitor
  <2>1. /\ ppc = "start" /\ UNCHANGED <<classVars, rebalVars, condVars, mem_limit, rpc>>
    BY <1>2 DEF start_slab_monitor
  <2> QED
    BY <2>1 DEF RemovalJustified, HasSparePage, OverLimit, classVars, rebalVars, condVars
<1>3. CASE SetMemLimit
  <2>1. /\ ppc = "limit" /\ UNCHANGED <<classVars, rebalVars, condVars, rpc>>
    BY <1>3 DEF SetMemLimit
  <2>2. ~(slab_rebalance_signal # 0 /\ slab_rebal.d_clsid = Removal)
    BY <2>1 DEF IndInv, RequestSound
  <2> QED BY <2>1, <2>2 DEF RemovalJustified, rebalVars, condVars
<1>4. CASE DeallocateLock
  BY <1>4
  DEF DeallocateLock, RemovalJustified, HasSparePage, OverLimit, classVars, rebalVars
<1>5. CASE DeallocateNothing \/ DivideByZero
  BY <1>5
  DEF DeallocateNothing, DivideByZero, RemovalJustified, HasSparePage, OverLimit, classVars,
      rebalVars, condVars
<1>6. CASE RequestRemoval
  BY <1>6, RequestHandshake
<1>7. CASE ProvisionerWake
  <2>1. /\ ppc = "waiting" /\ "provisioner" \notin waiting
        /\ UNCHANGED <<classVars, rebalVars, mem_limit, rpc>>
    BY <1>7 DEF ProvisionerWake
  <2>2. RemovalJustified'
    BY <2>1 DEF RemovalJustified, HasSparePage, OverLimit, classVars, rebalVars
  <2>3. \/ /\ slab_rebalance_signal # 0
           /\ waiting' = waiting \cup {"provisioner"} /\ ppc' = ppc
        \/ waiting' = waiting
    BY <1>7 DEF ProvisionerWake, condVars
  <2> QED BY <2>1, <2>2, <2>3 DEF rebalVars
<1>8. CASE StopSlabMonitorLock \/ stop_slab_monitor
  <2>1. /\ ppc # "waiting" /\ UNCHANGED <<classVars, rebalVars, condVars, mem_limit, rpc>>
    BY <1>8 DEF StopSlabMonitorLock, stop_slab_monitor
  <2> QED
    BY <2>1 DEF RemovalJustified, HasSparePage, OverLimit, classVars, rebalVars, condVars
<1> QED BY <1>1, <1>2, <1>3, <1>4, <1>5, <1>6, <1>7, <1>8 DEF Provisioner

\* slabs reassign finds nobody but the rebalancer asleep, and wakes it.
LEMMA ReassignHandshake ==
  ASSUME OneMoverUser, IndInv, HandshakeInv,
         NEW src \in 1..PowerLargest, NEW dst \in Classes, SlabsReassign(src, dst)
  PROVE  HandshakeInv'
<1>1. ppc = "idle"
  BY DEF SlabsReassign, OneMoverUser, IndInv, TypeOK, MonitoringInStep
<1>2. waiting \subseteq {"rebalancer"}
  BY <1>1 DEF HandshakeInv, IndInv, TypeOK
<1>3. waiting' = {}
  BY <1>2 DEF SlabsReassign, CondSignal
<1>4. slab_rebal'.d_clsid # Removal
  <2>1. slab_rebal \in RebalType
    BY DEF IndInv, TypeOK, RebalType
  <2>2. src \in Classes /\ dst \in Classes /\ dst # Removal
    BY ClassesAssumption DEF Classes, Removal
  <2>3. slab_rebal'.d_clsid = dst
    BY <2>1 DEF SlabsReassign, RebalType
  <2> QED BY <2>2, <2>3
<1> QED BY <1>3, <1>4 DEF HandshakeInv, NoLostWakeup, RemovalJustified

LEMMA InitHandshake == Init => HandshakeInv
BY DEF Init, HandshakeInv, NoLostWakeup, RemovalJustified

LEMMA NextHandshake ==
  ASSUME OneMoverUser, IndInv, HandshakeInv, [Next]_vars
  PROVE  HandshakeInv'
<1>1. CASE UNCHANGED vars
  BY <1>1, HandshakeUnchanged
  DEF vars, handshakeVars, classVars, rebalVars, condVars, provVars
<1>2. ASSUME NEW w \in Workers, Worker(w) PROVE HandshakeInv'
  BY <1>2, WorkerHandshake
<1>3. CASE Rebalancer
  BY <1>3, RebalancerHandshake
<1>4. CASE Provisioner
  BY <1>4, ProvisionerHandshake
<1>5. ASSUME NEW src \in 1..PowerLargest, NEW dst \in Classes, SlabsReassign(src, dst)
      PROVE  HandshakeInv'
  BY <1>5, ReassignHandshake
<1>6. ASSUME NEW t \in Pausers, RebalancerPause(t) \/ RebalancerResume(t)
      PROVE  HandshakeInv'
  BY <1>6, HandshakeUnchanged
  DEF RebalancerPause, RebalancerResume, handshakeVars, classVars, rebalVars, provVars
<1>7. ASSUME NEW t \in {"rebalancer", "provisioner"}, SpuriousWakeup(t)
      PROVE  HandshakeInv'
  <2>1. UNCHANGED <<classVars, rebalVars, provVars, rpc>> /\ waiting' \subseteq waiting
    BY <1>7 DEF SpuriousWakeup
  <2>2. RemovalJustified'
    BY <2>1
    DEF HandshakeInv, RemovalJustified, HasSparePage, OverLimit, classVars, rebalVars, provVars
  <2> QED BY <2>1, <2>2 DEF HandshakeInv, NoLostWakeup, rebalVars, provVars
<1> QED BY <1>1, <1>2, <1>3, <1>4, <1>5, <1>6, <1>7 DEF Next, Step, Killed

\* Nobody sleeps who has to act, and a removal that was asked for stays called for.
THEOREM HandshakeInductive == OneMoverUser /\ Spec => [](IndInv /\ HandshakeInv)
<1>1. CASE OneMoverUser
  <2>1. Init => IndInv /\ HandshakeInv
    BY InitInv, InitHandshake
  <2>2. IndInv /\ HandshakeInv /\ [Next]_vars => (IndInv /\ HandshakeInv)'
    BY <1>1, NextInv, NextHandshake
  <2> QED BY <2>1, <2>2, PTL DEF Spec
<1>2. CASE ~OneMoverUser
  BY <1>2
<1> QED BY <1>1, <1>2

\* The rebalancer never sleeps over a request, the provisioner never over an answer.
THEOREM NoLostWakeupHolds == OneMoverUser /\ Spec => []NoLostWakeup
<1>1. HandshakeInv => NoLostWakeup
  BY DEF HandshakeInv
<1> QED BY <1>1, HandshakeInductive, PTL

LEMMA ShrinkOverLimit ==
  ASSUME IndInv, HandshakeInv, [Next]_vars, mem_malloced' < mem_malloced
  PROVE  OverLimit
<1>1. mem_malloced \in Nat
  BY DEF IndInv, TypeOK
<1>2. mem_malloced' # mem_malloced
  BY <1>1
<1>3. CASE slab_remove_finish
  <2>1. slab_rebalance_signal = 2 /\ slab_rebal.d_clsid = Removal
    BY <1>3 DEF slab_remove_finish, IndInv, SignalInStep
  <2> QED BY <2>1 DEF HandshakeInv, RemovalJustified
<1>4. ~slab_remove_finish => FALSE
  <2> SUFFICES ASSUME ~slab_remove_finish PROVE FALSE
    OBVIOUS
  <2>1. ASSUME NEW w \in Workers, Worker(w) PROVE FALSE
    <3>1. CASE SlabsAllocNewSlab(w)
      <4>1. PICK id \in ItemClasses : do_slabs_newslab(id)
        BY <3>1 DEF SlabsAllocNewSlab
      <4> QED BY <1>1, <4>1, ClassesAssumption, NewSlabKeeps, NewSlabFacts
    <3>2. CASE SlabsAllocNoMemory(w)
      BY <1>1, <3>2 DEF SlabsAllocNoMemory
    <3> QED
      BY <1>2, <2>1, <3>1, <3>2
      DEF Worker, SlabsAllocLock, SlabsAllocFree, SlabsAllocFail, ItemGet, SetSlabActiveLock,
          SetSlabActive, SetSlabActiveSegfault, SetSlabActiveAborts, ItemRemove, classVars
  <2>2. CASE Rebalancer
    BY <1>2, <2>2
    DEF Rebalancer, RebalancerBoot, RebalancerWait, RebalancerWake, RebalanceStartLock,
        RebalanceStartNoGo, RebalanceStartAborts, RebalanceStart, SweepPass, SweepFromSlab,
        SweepBusy,
        SweepFromLRU, SweepUnlinked, FinishLock, slab_rebalance_finish, classVars
  <2>3. CASE Provisioner
    BY <1>2, <2>3
    DEF Provisioner, StartSlabMonitorLock, start_slab_monitor, SetMemLimit, DeallocateLock,
        DeallocateNothing, DivideByZero, RequestRemoval, ProvisionerWake,
        StopSlabMonitorLock, stop_slab_monitor, classVars
  <2>4. ASSUME NEW src \in 1..PowerLargest, NEW dst \in Classes, SlabsReassign(src, dst)
        PROVE  FALSE
    BY <1>2, <2>4 DEF SlabsReassign, classVars
  <2>5. ASSUME NEW t \in Pausers, RebalancerPause(t) \/ RebalancerResume(t) PROVE FALSE
    BY <1>2, <2>5 DEF RebalancerPause, RebalancerResume, classVars
  <2>6. ASSUME NEW t \in {"rebalancer", "provisioner"}, SpuriousWakeup(t) PROVE FALSE
    BY <1>2, <2>6 DEF SpuriousWakeup, classVars
  <2>7. CASE UNCHANGED vars
    BY <1>2, <2>7 DEF vars, classVars
  <2> QED BY <2>1, <2>2, <2>3, <2>4, <2>5, <2>6, <2>7 DEF Next, Step, Killed
<1> QED BY <1>3, <1>4

\* Only the rebalancer gives a page back, at the end of a removal.
THEOREM NoOverShrinkHolds == OneMoverUser /\ Spec => NoOverShrink
<1>1. CASE OneMoverUser
  <2>1. IndInv /\ HandshakeInv /\ [Next]_vars =>
          [mem_malloced' < mem_malloced => mem_malloced > mem_limit]_vars
    BY ShrinkOverLimit DEF OverLimit
  <2> QED BY <2>1, HandshakeInductive, PTL DEF Spec, NoOverShrink
<1>2. CASE ~OneMoverUser
  BY <1>2
<1> QED BY <1>1, <1>2

\* A class from which the page at i is dropped had another one.
LEMMA SpareAfterDrop ==
  ASSUME NEW list \in Seq(Pages), Len(list) >= 2, NEW i \in DOMAIN list
  PROVE  RemoveAt(list, i) \in Seq(Pages) /\ RemoveAt(list, i) # <<>>
<1>1. Len(list) \in Nat /\ i \in 1..Len(list)
  BY LenProperties
<1>2. RemoveAt(list, i) \in Seq(Pages) /\ Len(RemoveAt(list, i)) = Len(list) - 1
  BY <1>1, RemoveAtFacts
<1> QED BY <1>1, <1>2, EmptySeq

\* Only the threads that obtain or move pages change the lists.
LEMMA ListsUnchanged ==
  ASSUME [Next]_vars, ~slab_remove_finish, ~slab_rebalance_finish,
         ~\E w \in Workers : SlabsAllocNewSlab(w)
  PROVE  slab_list' = slab_list
<1>1. ASSUME NEW w \in Workers, Worker(w) PROVE slab_list' = slab_list
  BY <1>1
  DEF Worker, SlabsAllocLock, SlabsAllocFree, SlabsAllocNoMemory, SlabsAllocFail, ItemGet,
      SetSlabActiveLock, SetSlabActive, SetSlabActiveSegfault, SetSlabActiveAborts,
      ItemRemove, classVars
<1>2. CASE Rebalancer
  BY <1>2
  DEF Rebalancer, RebalancerBoot, RebalancerWait, RebalancerWake, RebalanceStartLock,
      RebalanceStartNoGo, RebalanceStartAborts, RebalanceStart, SweepPass, SweepFromSlab, SweepBusy,
      SweepFromLRU, SweepUnlinked, FinishLock, classVars
<1>3. CASE Provisioner
  BY <1>3
  DEF Provisioner, StartSlabMonitorLock, start_slab_monitor, SetMemLimit, DeallocateLock,
      DeallocateNothing, DivideByZero, RequestRemoval, ProvisionerWake,
      StopSlabMonitorLock, stop_slab_monitor, classVars
<1>4. ASSUME NEW src \in 1..PowerLargest, NEW dst \in Classes, SlabsReassign(src, dst)
      PROVE  slab_list' = slab_list
  BY <1>4 DEF SlabsReassign, classVars
<1>5. ASSUME NEW t \in Pausers, RebalancerPause(t) \/ RebalancerResume(t)
      PROVE  slab_list' = slab_list
  BY <1>5 DEF RebalancerPause, RebalancerResume, classVars
<1>6. ASSUME NEW t \in {"rebalancer", "provisioner"}, SpuriousWakeup(t)
      PROVE  slab_list' = slab_list
  BY <1>6 DEF SpuriousWakeup, classVars
<1>7. CASE UNCHANGED vars
  BY <1>7 DEF vars, classVars
<1> QED BY <1>1, <1>2, <1>3, <1>4, <1>5, <1>6, <1>7 DEF Next, Step, Killed

LEMMA LastPageKeptStep ==
  ASSUME IndInv, [Next]_vars,
         NEW c \in 1..PowerLargest, slab_list[c] # <<>>
  PROVE  slab_list'[c] # <<>>
<1> DEFINE s == slab_rebal.s_clsid
           i == slab_rebal.slab_index
           d == slab_rebal.d_clsid
<1>1. slab_list \in [Classes -> Seq(Pages)] /\ c \in Classes
  BY DEF IndInv, TypeOK, Classes
<1>2. slab_rebalance_signal = 2 =>
        /\ s \in Classes /\ Len(slab_list[s]) >= 2 /\ i \in DOMAIN slab_list[s]
        /\ d # Removal => i = 1 /\ d \in Classes /\ slab_rebal.slab_start \in Pages
  <2>1. slab_rebal \in RebalType
    BY DEF IndInv, TypeOK, RebalType
  <2> QED
    BY <2>1 DEF RebalType, IndInv, SweepProgress, HasSparePage, SweptPageInPlace
<1>3. CASE slab_remove_finish
  <2>1. slab_rebalance_signal = 2
    BY <1>3 DEF slab_remove_finish, IndInv, SignalInStep
  <2>2. slab_list' = [slab_list EXCEPT ![s] = RemoveAt(@, i)]
    BY <1>3 DEF slab_remove_finish, DropPage
  <2>3. RemoveAt(slab_list[s], i) # <<>>
    BY <1>1, <1>2, <2>1, SpareAfterDrop
  <2> QED BY <1>1, <1>2, <2>1, <2>2, <2>3
<1>4. CASE slab_rebalance_finish
  <2>1. slab_rebalance_signal = 2 /\ d # Removal /\ i = 1 /\ 1 \in DOMAIN slab_list[s]
    BY <1>2, <1>4 DEF slab_rebalance_finish, IndInv, SignalInStep
  <2>2. slab_list' = [slab_list EXCEPT ![s] = RemoveAt(@, 1),
                                       ![d] = Append(@, slab_rebal.slab_start)]
    BY <1>4 DEF slab_rebalance_finish, DropPage
  <2>3. RemoveAt(slab_list[s], 1) \in Seq(Pages) /\ RemoveAt(slab_list[s], 1) # <<>>
    BY <1>1, <1>2, <2>1, SpareAfterDrop
  <2>4. \A q \in Seq(Pages) : Append(q, slab_rebal.slab_start) # <<>>
    BY <1>2, <2>1, AppendProperties
  <2>5. s # d
    BY <2>1 DEF IndInv, RequestSound
  <2>6. /\ slab_list'[s] = RemoveAt(slab_list[s], 1)
        /\ slab_list'[d] = Append(slab_list[d], slab_rebal.slab_start)
        /\ c # s /\ c # d => slab_list'[c] = slab_list[c]
    BY <1>1, <1>2, <2>1, <2>2, <2>5
  <2> QED BY <1>1, <1>2, <2>1, <2>3, <2>4, <2>6
<1>5. ASSUME NEW w \in Workers, SlabsAllocNewSlab(w) PROVE slab_list'[c] # <<>>
  <2>1. PICK id \in 1..PowerLargest : do_slabs_newslab(id)
    BY <1>5, ClassesAssumption DEF SlabsAllocNewSlab
  <2>2. 1 \in DOMAIN slab_list[c]
    BY <1>1, EmptySeq, LenProperties
  <2>3. 1 \in DOMAIN slab_list'[c]
    BY <2>1, <2>2, NewSlabFacts
  <2> QED BY <2>3, EmptySeq
<1> QED BY <1>3, <1>4, <1>5, ListsUnchanged

\* slabs reassign and slabs_deallocate leave every class in use a page.
THEOREM LastPageKeptHolds == OneMoverUser /\ Spec => LastPageKept
<1>1. CASE OneMoverUser
  <2>1. IndInv /\ [Next]_vars =>
          [\A c \in 1..PowerLargest : slab_list[c] # <<>> => slab_list'[c] # <<>>]_vars
    BY LastPageKeptStep
  <2> QED BY <2>1, Inductive, PTL DEF Spec, LastPageKept
<1>2. CASE ~OneMoverUser
  BY <1>2
<1> QED BY <1>1, <1>2

-----------------------------------------------------------------------------
(* The binary search of set_slab_active (my_lower_bound). *)

\* Induction over the naturals: a set of counterexamples has a least element.
LEMMA Least ==
  ASSUME NEW T, T \subseteq Nat, T # {}
  PROVE  \E x \in T : \A y \in T : x <= y
<1>1. IsWellFoundedOn(OpToRel(<,Nat), Nat)
  BY NatLessThanWellFounded
<1>2. PICK x \in T : \A y \in T : <<y, x>> \notin OpToRel(<,Nat)
  BY <1>1, WFMin, Zenon
<1>3. ASSUME NEW y \in T PROVE ~(y < x)
  <2>1. y \in Nat /\ x \in Nat /\ <<y, x>> \notin OpToRel(<,Nat)
    BY <1>2
  <2> QED
    BY <2>1, Zenon DEF OpToRel
<1> QED
  BY <1>3

\* What the search does with count, if searching is what it does with less.
Searching(value, first, searching, count) ==
  [base \in 0..Len(first) |->
     LET step  == count \div 2
         index == base + step
     IN  IF count = 0 THEN base
         ELSE IF first[index + 1] = value THEN index
         ELSE IF first[index + 1] < value
              THEN searching[count - (step + 1)][index]
              ELSE searching[step][base]]

\* One step of the search looks only at searches with less to search.
LEMMA SearchingLess ==
  ASSUME NEW value, NEW first, NEW count \in Nat, NEW f, NEW g,
         \A c \in Nat : c < count => f[c] = g[c]
  PROVE  Searching(value, first, f, count) = Searching(value, first, g, count)
<1>1. count # 0 => count \div 2 \in Nat /\ count \div 2 < count
  OBVIOUS
<1>2. count # 0 => count - (count \div 2 + 1) \in Nat /\ count - (count \div 2 + 1) < count
  BY <1>1
<1> DEFINE step == count \div 2
<1>3. count # 0 => f[step] = g[step] /\ f[count - (step + 1)] = g[count - (step + 1)]
  BY <1>1, <1>2
<1> QED
  BY <1>3, Zenon DEF Searching

\* So there is a function that satisfies the recursion.
LEMMA SearchExists ==
  ASSUME NEW value, NEW first, NEW num \in Nat
  PROVE  \E f : f = [count \in 0..num |-> Searching(value, first, f, count)]
<1> DEFINE Upto(n) == \E f : f = [count \in 0..n |-> Searching(value, first, f, count)]
           T == {n \in Nat : ~Upto(n)}
<1>1. Upto(0)
  <2> DEFINE f == [count \in 0..0 |-> Searching(value, first, <<>>, count)]
  <2>1. \A count \in 0..0 : Searching(value, first, <<>>, count) = Searching(value, first, f, count)
    BY SearchingLess
  <2>2. f = [count \in 0..0 |-> Searching(value, first, f, count)]
    BY <2>1, Zenon
  <2> QED
    BY <2>2, Zenon
<1>2. ASSUME NEW n \in Nat, Upto(n) PROVE Upto(n + 1)
  <2>1. PICK f : f = [count \in 0..n |-> Searching(value, first, f, count)]
    BY <1>2, Zenon
  <2> DEFINE g == [count \in 0..(n + 1) |-> Searching(value, first, f, count)]
  <2>2. \A count \in 0..n : f[count] = g[count]
    <3> TAKE count \in 0..n
    <3>1. f[count] = Searching(value, first, f, count)
      BY <2>1, Zenon
    <3>2. count \in 0..(n + 1)
      OBVIOUS
    <3> QED
      BY <3>1, <3>2, Zenon
  <2>3. \A count \in 0..(n + 1) : Searching(value, first, f, count) = Searching(value, first, g, count)
    <3> TAKE count \in 0..(n + 1)
    <3> HIDE DEF g
    <3>1. count \in Nat /\ \A c \in Nat : c < count => f[c] = g[c]
      BY <2>2
    <3> QED
      BY <3>1, SearchingLess
  <2>4. g = [count \in 0..(n + 1) |-> Searching(value, first, g, count)]
    BY <2>3, Zenon
  <2> QED
    BY <2>4, Zenon
<1>3. SUFFICES ASSUME T # {} PROVE FALSE
  <2>1. Upto(num) \/ num \in T
    OBVIOUS
  <2> QED
    BY <2>1, Zenon
<1> HIDE DEF Upto
<1>4. PICK n \in T : \A m \in T : n <= m
  BY <1>3, Least
<1>5. n \in Nat /\ n # 0 /\ ~Upto(n)
  BY <1>1, <1>4
<1>6. n - 1 \in Nat /\ Upto(n - 1)
  BY <1>4, <1>5
<1> QED
  BY <1>2, <1>5, <1>6

\* The search stays inside the list.
LEMMA SearchInRange ==
  ASSUME NEW value, NEW first, Len(first) \in Nat,
         NEW f, f = [count \in 0..Len(first) |-> Searching(value, first, f, count)],
         NEW count \in 0..Len(first), NEW base \in 0..Len(first),
         base + count <= Len(first), base < Len(first)
  PROVE  f[count][base] \in 0..(Len(first) - 1)
<1> DEFINE num == Len(first)
           Fine(c) == \A b \in 0..num : b + c <= num /\ b < num => f[c][b] \in 0..(num - 1)
           T == {c \in 0..num : ~Fine(c)}
<1>1. SUFFICES ASSUME T # {} PROVE FALSE
  OBVIOUS
<1>2. T \subseteq Nat
  OBVIOUS
<1>3. PICK c \in T : \A d \in T : c <= d
  BY <1>1, <1>2, Least
<1>4. ASSUME NEW b \in 0..num, b + c <= num, b < num PROVE f[c][b] \in 0..(num - 1)
  <2> DEFINE step == c \div 2
             index == b + step
  <2>0. c \in 0..num /\ c \in Nat
    OBVIOUS
  <2>1. f[c] = Searching(value, first, f, c)
    BY <2>0, Zenon
  <2>2. f[c][b] = IF c = 0 THEN b
                  ELSE IF first[index + 1] = value THEN index
                  ELSE IF first[index + 1] < value THEN f[c - (step + 1)][index] ELSE f[step][b]
    BY <2>1, Zenon DEF Searching
  <2>3. CASE c = 0
    BY <1>4, <2>2, <2>3
  <2>4. CASE c # 0
    <3>1. step \in Nat /\ step < c /\ c - (step + 1) \in Nat /\ c - (step + 1) < c
      BY <2>0, <2>4
    <3> HIDE DEF step
    <3>2. index \in 0..num /\ index < num /\ index + (c - (step + 1)) <= num /\ b + step <= num
      BY <1>4, <2>0, <3>1
    <3>3. \A d \in 0..num : d < c => Fine(d)
      BY <1>3
    <3>4. f[c - (step + 1)][index] \in 0..(num - 1) /\ f[step][b] \in 0..(num - 1)
      <4>1. c - (step + 1) \in 0..num /\ step \in 0..num
        BY <2>0, <3>1
      <4> QED
        BY <1>4, <3>1, <3>2, <3>3, <4>1
    <3> HIDE DEF index
    <3>5. f[c][b] \in {index, f[c - (step + 1)][index], f[step][b]}
      BY <2>2, <2>4, Zenon
    <3>6. index \in 0..(num - 1)
      BY <3>2
    <3> QED
      BY <3>4, <3>5, <3>6, Zenon
  <2> QED
    BY <2>3, <2>4
<1> QED
  BY <1>4

\* my_lower_bound returns the index of an element of every list but the empty one.
LEMMA LowerBoundInRange ==
  ASSUME NEW value, NEW first, Len(first) \in Nat, Len(first) # 0
  PROVE  MyLowerBound(value, first) \in 0..(Len(first) - 1)
<1> DEFINE num == Len(first)
           f == CHOOSE g : g = [count \in 0..num |-> Searching(value, first, g, count)]
<1>1. f = [count \in 0..num |-> Searching(value, first, f, count)]
  BY SearchExists, Zenon
<1>2. MyLowerBound(value, first) = f[num][0]
  BY Zenon DEF MyLowerBound, Searching
<1> HIDE DEF f
<1>3. num \in 0..num /\ 0 \in 0..num /\ 0 + num <= num /\ 0 < num
  OBVIOUS
<1> QED
  BY <1>1, <1>2, <1>3, SearchInRange, SMTT(30)

-----------------------------------------------------------------------------
(* What kills the process: an item without a sketch, a removal without a source. *)

\* A new page goes to a class in use, a removal takes one from a class that has two.
LEMMA UsedClassesStep ==
  ASSUME IndInv, UsedClassesOnly, [Next]_vars
  PROVE  UsedClassesOnly'
<1> SUFFICES ASSUME ~ReassignEnabled, NEW c \in Classes \ ItemClasses
             PROVE  slab_list'[c] = <<>>
  BY DEF UsedClassesOnly
<1>1. slab_list[c] = <<>> /\ slab_list[Pool] = <<>>
  <2>1. Pool \in Classes \ ItemClasses
    BY ClassesAssumption DEF Pool, Classes
  <2> QED BY <2>1 DEF UsedClassesOnly
<1>2. slab_list \in [Classes -> Seq(Pages)]
  BY DEF IndInv, TypeOK
<1>3. CASE slab_remove_finish
  <2> DEFINE s == slab_rebal.s_clsid
  <2>1. slab_list' = [slab_list EXCEPT ![s] = RemoveAt(@, slab_rebal.slab_index)]
    BY <1>3 DEF slab_remove_finish, DropPage
  <2>2. Len(slab_list[s]) >= 2
    BY <1>3 DEF slab_remove_finish, IndInv, SignalInStep, SweepProgress, HasSparePage
  <2>3. c # s
    BY <1>1, <2>2, EmptySeq
  <2> QED BY <1>1, <1>2, <2>1, <2>3
<1>4. ~slab_rebalance_finish
  BY DEF slab_rebalance_finish, IndInv, SignalInStep, RequestSound
<1>5. ASSUME NEW w \in Workers, SlabsAllocNewSlab(w) PROVE slab_list'[c] = <<>>
  <2>1. PICK id \in ItemClasses : do_slabs_newslab(id)
    BY <1>5 DEF SlabsAllocNewSlab
  <2>2. PICK page : slab_list' = [slab_list EXCEPT ![id] = Append(@, page)]
    BY <1>1, <2>1 DEF do_slabs_newslab, PageFromPool, PageFromMalloc
  <2> QED BY <1>1, <1>2, <2>2
<1> QED BY <1>1, <1>3, <1>4, <1>5, ListsUnchanged

\* The search ends at a page of the item's class, and every page has its sketch.
LEMMA SketchFound ==
  ASSUME IndInv, NEW w \in Workers, ref[w] # NoItem, ref[w].cls # PowerLargest,
         monitoring_slabs
  PROVE  HasSketch(ref[w])
<1> DEFINE c == ref[w].cls
           list == AddressesOf(sorted_list[c])
<1>1. c \in MonClasses
  BY ClassesAssumption DEF IndInv, TypeOK, Items, MonClasses
<1>2. c \in Classes
  BY <1>1, ClassesAssumption DEF MonClasses, Classes
<1>3. /\ slab_list[c] \in Seq(Pages) /\ sorted_list[c] \in Seq(Pages)
      /\ hlls[c] \in Seq(0..MaxEstimate)
  BY <1>2 DEF IndInv, TypeOK
<1>4. /\ Len(sorted_list[c]) = Len(slab_list[c]) /\ Len(hlls[c]) = Len(slab_list[c])
      /\ Len(slab_list[c]) \in Nat
  BY <1>1, <1>3, LenProperties DEF IndInv, MonitorConsistent
<1>5. Len(slab_list[c]) # 0
  <2>1. DOMAIN slab_list[c] # {}
    BY DEF IndInv, NoDanglingItem, PagesOf
  <2> QED BY <1>3, <2>1, LenProperties
<1>6. Len(list) = Len(sorted_list[c])
  <2>1. DOMAIN sorted_list[c] = 1..Len(sorted_list[c])
    BY <1>3, LenProperties
  <2>2. DOMAIN list = 1..Len(sorted_list[c]) /\ Len(sorted_list[c]) \in Nat
    BY <1>4, <2>1 DEF AddressesOf
  <2>3. list \in Seq({list[i] : i \in DOMAIN list})
    BY <2>2 DEF AddressesOf
  <2>4. Len(list) \in Nat /\ DOMAIN list = 1..Len(list)
    BY <2>3, LenProperties
  <2> QED BY <2>2, <2>4
<1>7. MyLowerBound(AddressOfItem(ref[w]), list) \in 0..(Len(list) - 1)
  <2> HIDE DEF list
  <2> QED BY <1>4, <1>5, <1>6, LowerBoundInRange
<1>8. ActiveIndex(ref[w]) \in 1..Len(hlls[c])
  BY <1>4, <1>6, <1>7 DEF ActiveIndex
<1> QED BY <1>3, <1>8, LenProperties DEF HasSketch

LEMMA WorkerRefStep ==
  ASSUME IndInv, RefInStep, NEW w \in Workers, Worker(w)
  PROVE  RefInStep'
<1> USE DEF RefInStep
<1>1. wpc \in [Workers -> {"idle", "alloc", "get", "active", "crashed", "aborted"}]
  BY DEF IndInv, TypeOK
<1>2. ref \in [Workers -> Items \cup {NoItem}]
  BY DEF IndInv, TypeOK
<1>3. CASE SlabsAllocLock(w)
  BY <1>1, <1>3 DEF SlabsAllocLock
<1>4. CASE SlabsAllocFree(w)
  <2>1. PICK id \in ItemClasses, it \in Items :
          FreeChunk(id, it) /\ ref' = [ref EXCEPT ![w] = it]
    BY <1>4 DEF SlabsAllocFree
  <2>2. it.cls \in ItemClasses
    BY <2>1 DEF FreeChunk
  <2>3. wpc' = [wpc EXCEPT ![w] = "idle"]
    BY <1>4 DEF SlabsAllocFree, SlabsAllocEnd
  <2> QED BY <1>1, <1>2, <2>1, <2>2, <2>3
<1>5. CASE SlabsAllocNewSlab(w)
  <2>1. PICK id \in ItemClasses :
          ref' = [ref EXCEPT ![w] = [cls |-> id, page |-> Last(slab_list'[id]),
                                     chunk |-> PerSlab - 1]]
    BY <1>5 DEF SlabsAllocNewSlab
  <2>2. ref'[w].cls \in ItemClasses
    BY <1>2, <2>1
  <2>3. wpc' = [wpc EXCEPT ![w] = "idle"]
    BY <1>5 DEF SlabsAllocNewSlab, SlabsAllocEnd
  <2>4. \A v \in Workers \ {w} : ref'[v] = ref[v] /\ wpc'[v] = wpc[v]
    BY <1>1, <1>2, <2>1, <2>3
  <2>5. wpc'[w] = "idle"
    BY <1>1, <2>3
  <2> QED BY <2>2, <2>4, <2>5
<1>6. CASE SlabsAllocNoMemory(w) \/ SlabsAllocFail(w)
  BY <1>1, <1>6 DEF SlabsAllocNoMemory, SlabsAllocFail, SlabsAllocEnd
<1>7. CASE ItemGet(w)
  <2>1. PICK it \in Items : it.cls \in ItemClasses /\ ref' = [ref EXCEPT ![w] = it]
    BY <1>7 DEF ItemGet
  <2>2. it # NoItem
    BY <2>1, ClassesAssumption DEF NoItem
  <2>3. wpc' = [wpc EXCEPT ![w] = "get"]
    BY <1>7 DEF ItemGet
  <2> QED BY <1>1, <1>2, <2>1, <2>2, <2>3
<1>8. CASE SetSlabActiveLock(w)
  BY <1>1, <1>8 DEF SetSlabActiveLock
<1>9. CASE SetSlabActive(w) \/ SetSlabActiveSegfault(w) \/ SetSlabActiveAborts(w)
  BY <1>1, <1>9 DEF SetSlabActive, SetSlabActiveSegfault, SetSlabActiveAborts
<1>10. CASE ItemRemove(w)
  BY <1>1, <1>2, <1>10 DEF ItemRemove
<1> QED BY <1>3, <1>4, <1>5, <1>6, <1>7, <1>8, <1>9, <1>10 DEF Worker

LEMMA WorkerSegfaultStep ==
  ASSUME Running, IndInv, RefInStep, NEW w \in Workers, Worker(w)
  PROVE  SegfaultOnlyInLargest'
<1>1. wpc \in [Workers -> {"idle", "alloc", "get", "active", "crashed", "aborted"}]
  BY DEF IndInv, TypeOK
<1>2. \A v \in Workers : wpc[v] # "crashed"
  BY DEF Running
<1>3. CASE SetSlabActiveSegfault(w)
  <2>1. /\ wpc[w] = "active" /\ monitoring_slabs /\ ~HasSketch(ref[w])
        /\ wpc' = [wpc EXCEPT ![w] = "crashed"] /\ ref' = ref
    BY <1>3 DEF SetSlabActiveSegfault
  <2>2. ref[w] # NoItem
    BY <2>1 DEF RefInStep
  <2>3. ref[w].cls = PowerLargest
    BY <2>1, <2>2, SketchFound
  <2> QED BY <1>1, <1>2, <2>1, <2>3 DEF SegfaultOnlyInLargest
<1>4. ~SetSlabActiveSegfault(w) => \A v \in Workers : wpc'[v] # "crashed"
  BY <1>1, <1>2
  DEF Worker, SlabsAllocLock, SlabsAllocFree, SlabsAllocNewSlab, SlabsAllocNoMemory,
      SlabsAllocFail, SlabsAllocEnd, ItemGet, SetSlabActiveLock, SetSlabActive,
      SetSlabActiveAborts, ItemRemove
<1> QED BY <1>3, <1>4 DEF SegfaultOnlyInLargest

\* The other threads leave the workers alone.
LEMMA WorkersUnchanged ==
  ASSUME [Next]_vars, ~(Running /\ \E w \in Workers : Worker(w))
  PROVE  UNCHANGED workVars
<1>1. CASE Rebalancer
  BY <1>1
  DEF Rebalancer, RebalancerBoot, RebalancerWait, RebalancerWake, RebalanceStartLock,
      RebalanceStartNoGo, RebalanceStartAborts, RebalanceStart, SweepPass, SweepFromSlab, SweepBusy,
      SweepFromLRU, SweepUnlinked, FinishLock, slab_remove_finish, slab_rebalance_finish
<1>2. CASE Provisioner
  BY <1>2
  DEF Provisioner, StartSlabMonitorLock, start_slab_monitor, SetMemLimit, DeallocateLock,
      DeallocateNothing, DivideByZero, RequestRemoval, ProvisionerWake,
      StopSlabMonitorLock, stop_slab_monitor
<1>3. ASSUME NEW src \in 1..PowerLargest, NEW dst \in Classes, SlabsReassign(src, dst)
      PROVE  UNCHANGED workVars
  BY <1>3 DEF SlabsReassign
<1>4. ASSUME NEW t \in Pausers, RebalancerPause(t) \/ RebalancerResume(t)
      PROVE  UNCHANGED workVars
  BY <1>4 DEF RebalancerPause, RebalancerResume
<1>5. ASSUME NEW t \in {"rebalancer", "provisioner"}, SpuriousWakeup(t)
      PROVE  UNCHANGED workVars
  BY <1>5 DEF SpuriousWakeup
<1>6. CASE UNCHANGED vars
  BY <1>6 DEF vars
<1> QED BY <1>1, <1>2, <1>3, <1>4, <1>5, <1>6 DEF Next, Step, Killed

\* With no page to spare in any class there are hardly more pages than classes in use.
LEMMA FewPages ==
  ASSUME IndInv, UsedClassesOnly, ~ReassignEnabled, RemoveSources = {},
         PowerLargest \notin ItemClasses
  PROVE  mem_malloced <= Cardinality(ItemClasses) + MaxFailedMallocs
<1>1. /\ slab_list \in Lists /\ Malloced = Held(slab_list)
      /\ Cardinality(Malloced) \in Nat /\ mem_malloced \in Nat
      /\ mem_malloced - Cardinality(Malloced) \in 0..MaxFailedMallocs
  BY ListView
<1>2. IsFiniteSet(ItemClasses) /\ Cardinality(ItemClasses) \in Nat
  <2>1. IsFiniteSet(1..PowerLargest)
    BY ClassesAssumption, FS_Interval
  <2> QED BY <2>1, ClassesAssumption, FS_Subset, FS_CardinalityType
<1>3. ASSUME NEW c \in Classes, NEW p \in PagesOf(c) PROVE c \in ItemClasses
  <2>1. slab_list[c] # <<>>
    BY <1>3 DEF PagesOf
  <2> QED BY <2>1 DEF UsedClassesOnly
<1>4. ASSUME NEW c \in ItemClasses, NEW p \in PagesOf(c), NEW q \in PagesOf(c) PROVE p = q
  <2>1. c \in Classes /\ c \in MonClasses
    BY ClassesAssumption DEF Classes, MonClasses
  <2>2. slab_list[c] \in Seq(Pages)
    BY <1>1, <2>1 DEF Lists
  <2>3. Len(slab_list[c]) \in Nat /\ DOMAIN slab_list[c] = 1..Len(slab_list[c])
    BY <2>2, LenProperties
  <2>4. ~(Len(slab_list[c]) >= 2)
    BY <2>1 DEF RemoveSources, HasSparePage
  <2>5. \A i, j \in DOMAIN slab_list[c] : i = j
    BY <2>3, <2>4
  <2> QED BY <2>5 DEF PagesOf
<1> DEFINE owner == [p \in Malloced |-> CHOOSE c \in Classes : p \in PagesOf(c)]
<1>5. \A p \in Malloced : owner[p] \in Classes /\ p \in PagesOf(owner[p])
  BY DEF Malloced
<1>6. owner \in Injection(Malloced, ItemClasses)
  <2> HIDE DEF owner
  <2>1. \A p \in Malloced : owner[p] \in ItemClasses
    BY <1>3, <1>5
  <2>2. \A p, q \in Malloced : owner[p] = owner[q] => p = q
    BY <1>4, <1>5, <2>1
  <2>3. owner \in [Malloced -> ItemClasses]
    BY <2>1 DEF owner
  <2> QED BY <2>2, <2>3 DEF Injection, IsInjective
<1>7. Cardinality(Malloced) <= Cardinality(ItemClasses)
  <2> HIDE DEF owner
  <2> QED BY <1>2, <1>6, FS_Injection
<1> QED BY <1>1, <1>2, <1>7, BoundsAssumption

LEMMA DivisionStep ==
  ASSUME Running, OneMoverUser, IndInv, CrashInv, [Next]_vars
  PROVE  DivisionExcused'
<1>1. CASE DivideByZero
  <2>1. ppc = "loop" /\ OverLimit /\ RemoveSources = {} /\ mem_limit' = mem_limit
    BY <1>1 DEF DivideByZero
  <2>2. ~ReassignEnabled
    BY <2>1, MonitoringInStep DEF IndInv, OneMoverUser, MonitoringInStep
  <2>3. mem_malloced \in Nat /\ mem_limit \in Nat
    BY DEF IndInv, TypeOK
  <2>4. Cardinality(ItemClasses) \in Nat
    <3>1. IsFiniteSet(1..PowerLargest)
      BY ClassesAssumption, FS_Interval
    <3> QED BY <3>1, ClassesAssumption, FS_Subset, FS_CardinalityType
  <2>5. PowerLargest \notin ItemClasses =>
          mem_malloced <= Cardinality(ItemClasses) + MaxFailedMallocs
    BY <2>1, <2>2, FewPages DEF CrashInv
  <2> QED
    BY <2>1, <2>3, <2>4, <2>5, BoundsAssumption DEF DivisionExcused, OverLimit
<1>2. ~DivideByZero => ppc' # "crashed"
  <2> SUFFICES ASSUME ~DivideByZero, ppc # "crashed" PROVE ppc' # "crashed"
    BY DEF Running
  <2>1. ASSUME NEW w \in Workers, Worker(w) PROVE ppc' = ppc
    BY <2>1
    DEF Worker, SlabsAllocLock, SlabsAllocFree, SlabsAllocNewSlab, SlabsAllocNoMemory,
        SlabsAllocFail, SlabsAllocEnd, ItemGet, SetSlabActiveLock, SetSlabActive,
        SetSlabActiveSegfault, SetSlabActiveAborts, ItemRemove, provVars
  <2>2. CASE Rebalancer
    BY <2>2
    DEF Rebalancer, RebalancerBoot, RebalancerWait, RebalancerWake, RebalanceStartLock,
        RebalanceStartNoGo, RebalanceStartAborts, RebalanceStart, SweepPass, SweepFromSlab,
        SweepBusy,
        SweepFromLRU, SweepUnlinked, FinishLock, slab_remove_finish,
        slab_rebalance_finish, provVars
  <2>3. CASE Provisioner
    BY <2>3
    DEF Provisioner, StartSlabMonitorLock, start_slab_monitor, SetMemLimit, DeallocateLock,
        DeallocateNothing, RequestRemoval, ProvisionerWake, StopSlabMonitorLock,
        stop_slab_monitor
  <2>4. ASSUME NEW src \in 1..PowerLargest, NEW dst \in Classes, SlabsReassign(src, dst)
        PROVE  ppc' = ppc
    BY <2>4 DEF SlabsReassign, provVars
  <2>5. ASSUME NEW t \in Pausers, RebalancerPause(t) \/ RebalancerResume(t)
        PROVE  ppc' = ppc
    BY <2>5 DEF RebalancerPause, RebalancerResume, provVars
  <2>6. ASSUME NEW t \in {"rebalancer", "provisioner"}, SpuriousWakeup(t)
        PROVE  ppc' = ppc
    BY <2>6 DEF SpuriousWakeup, provVars
  <2>7. CASE UNCHANGED vars
    BY <2>7 DEF vars, provVars
  <2> QED BY <2>1, <2>2, <2>3, <2>4, <2>5, <2>6, <2>7 DEF Next, Step, Killed
<1> QED BY <1>1, <1>2 DEF DivisionExcused

LEMMA InitCrash == Init => CrashInv
BY DEF Init, CrashInv, UsedClassesOnly, RefInStep, SegfaultOnlyInLargest, DivisionExcused

LEMMA NextCrash ==
  ASSUME OneMoverUser, IndInv, CrashInv, [Next]_vars
  PROVE  CrashInv'
<1>1. UsedClassesOnly'
  BY UsedClassesStep DEF CrashInv
<1>2. CASE ~Running
  <2>1. UNCHANGED vars
    BY <1>2 DEF Next, Killed
  <2> QED
    BY <1>1, <2>1
    DEF CrashInv, RefInStep, SegfaultOnlyInLargest, DivisionExcused, vars, workVars, provVars
<1>3. CASE Running
  <2>1. RefInStep' /\ SegfaultOnlyInLargest'
    <3>1. CASE \E w \in Workers : Worker(w)
      BY <1>3, <3>1, WorkerRefStep, WorkerSegfaultStep DEF CrashInv
    <3>2. CASE ~\E w \in Workers : Worker(w)
      <4>1. UNCHANGED workVars
        BY <3>2, WorkersUnchanged
      <4> QED BY <4>1 DEF CrashInv, RefInStep, SegfaultOnlyInLargest, workVars
    <3> QED BY <3>1, <3>2
  <2> QED BY <1>1, <1>3, <2>1, DivisionStep DEF CrashInv
<1> QED BY <1>2, <1>3

\* What may kill the process is known, as long as nobody else moves pages.
THEOREM CrashInductive == OneMoverUser /\ Spec => [](IndInv /\ CrashInv)
<1>1. CASE OneMoverUser
  <2>1. Init => IndInv /\ CrashInv
    BY InitInv, InitCrash
  <2>2. IndInv /\ CrashInv /\ [Next]_vars => (IndInv /\ CrashInv)'
    BY <1>1, NextInv, NextCrash
  <2> QED BY <2>1, <2>2, PTL DEF Spec
<1>2. CASE ~OneMoverUser
  BY <1>2
<1> QED BY <1>1, <1>2

\* set_slab_active finds a sketch for every item of a class that is monitored.
THEOREM SegfaultOnlyInLargestHolds == OneMoverUser /\ Spec => []SegfaultOnlyInLargest
<1>1. CrashInv => SegfaultOnlyInLargest
  BY DEF CrashInv
<1> QED BY <1>1, CrashInductive, PTL

\* slabs_remove_pick_rand has a class to draw from: there is a page more than classes
\* in use, and malloc refused none.
THEOREM NoDivideByZeroHolds ==
  OneMoverUser /\ MaxFailedMallocs = 0 /\ Spec => []NoDivideByZero
<1>1. ASSUME MaxFailedMallocs = 0, IndInv, CrashInv,
             PowerLargest \notin ItemClasses, mem_limit >= Cardinality(ItemClasses)
      PROVE  ppc # "crashed"
  <2>1. IsFiniteSet(1..PowerLargest)
    BY ClassesAssumption, FS_Interval
  <2>2. Cardinality(ItemClasses) \in Nat /\ mem_limit \in Nat
    BY <2>1, ClassesAssumption, FS_Subset, FS_CardinalityType, <1>1 DEF IndInv, TypeOK
  <2> QED BY <1>1, <2>2 DEF CrashInv, DivisionExcused
<1>2. CASE MaxFailedMallocs = 0
  <2>1. IndInv /\ CrashInv => NoDivideByZero
    BY <1>1, <1>2 DEF NoDivideByZero
  <2> QED BY <2>1, CrashInductive, PTL
<1>3. CASE ~(MaxFailedMallocs = 0)
  BY <1>3
<1> QED BY <1>2, <1>3

LEMMA MoverStep ==
  ASSUME ~ReassignEnabled, IndInv, MoverNeverAborts, [Next]_vars
  PROVE  MoverNeverAborts'
<1> USE DEF MoverNeverAborts
<1>1. CASE RebalanceStartAborts
  <2>1. rpc = "starting" /\ (monitoring_slabs => mon_slabs[slab_rebal.s_clsid] = 0)
    BY <1>1 DEF RebalanceStartAborts
  <2>2. slab_rebal.d_clsid = Removal
    BY <2>1 DEF IndInv, SignalInStep, RequestSound
  <2>3. ppc = "waiting" /\ slab_rebal.s_clsid \in MonClasses
    BY <2>1, <2>2 DEF IndInv, SignalInStep, RequestSound
  <2>4. monitoring_slabs
    BY <2>3 DEF IndInv, MonitoringInStep
  <2>5. Len(slab_list[slab_rebal.s_clsid]) = 0
    BY <2>1, <2>3, <2>4 DEF IndInv, MonitorConsistent
  <2> QED BY <1>1, <2>5 DEF RebalanceStartAborts, HasSparePage
<1>2. CASE Rebalancer /\ ~RebalanceStartAborts
  BY <1>2
  DEF Rebalancer, RebalancerBoot, RebalancerWait, RebalancerWake, RebalanceStartLock,
      RebalanceStartNoGo, RebalanceStart, SweepPass, SweepFromSlab, SweepBusy,
      SweepFromLRU, SweepUnlinked, Advance, FinishLock, slab_remove_finish,
      slab_rebalance_finish
<1>3. ASSUME NEW w \in Workers, Worker(w) PROVE rpc' = rpc
  BY <1>3
  DEF Worker, SlabsAllocLock, SlabsAllocFree, SlabsAllocNewSlab, SlabsAllocNoMemory,
      SlabsAllocFail, SlabsAllocEnd, ItemGet, SetSlabActiveLock, SetSlabActive,
      SetSlabActiveSegfault, SetSlabActiveAborts, ItemRemove
<1>4. CASE Provisioner
  BY <1>4
  DEF Provisioner, StartSlabMonitorLock, start_slab_monitor, SetMemLimit, DeallocateLock,
      DeallocateNothing, DivideByZero, RequestRemoval, ProvisionerWake,
      StopSlabMonitorLock, stop_slab_monitor
<1>5. ASSUME NEW src \in 1..PowerLargest, NEW dst \in Classes, SlabsReassign(src, dst)
      PROVE  rpc' = rpc
  BY <1>5 DEF SlabsReassign
<1>6. ASSUME NEW t \in Pausers, RebalancerPause(t) \/ RebalancerResume(t)
      PROVE  rpc' = rpc
  BY <1>6 DEF RebalancerPause, RebalancerResume
<1>7. ASSUME NEW t \in {"rebalancer", "provisioner"}, SpuriousWakeup(t)
      PROVE  rpc' = rpc
  BY <1>7 DEF SpuriousWakeup
<1>8. CASE UNCHANGED vars
  BY <1>8 DEF vars
<1> QED BY <1>1, <1>2, <1>3, <1>4, <1>5, <1>6, <1>7, <1>8 DEF Next, Step, Killed

\* A removal never meets the assertions of slab_rebalance_start: whoever asked for it waits, with
\* the pages of the class monitored, until the page is gone.  Only slabs reassign meets them.
THEOREM RemovalsNeverAbort == ~ReassignEnabled /\ Spec => []MoverNeverAborts
<1>1. CASE ~ReassignEnabled
  <2>1. Init => MoverNeverAborts
    BY DEF Init, MoverNeverAborts
  <2>2. IndInv /\ MoverNeverAborts /\ [Next]_vars => MoverNeverAborts'
    BY <1>1, MoverStep
  <2>3. OneMoverUser
    BY <1>1 DEF OneMoverUser
  <2> QED BY <2>1, <2>2, <2>3, Inductive, PTL DEF Spec
<1>2. CASE ReassignEnabled
  BY <1>2
<1> QED BY <1>1, <1>2
=============================================================================
