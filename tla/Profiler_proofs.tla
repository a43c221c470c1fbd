---------------------------- MODULE Profiler_proofs ----------------------------
(***************************************************************************)
(* What is proved of Profiler and LruCaches for every number of workers,   *)
(* keys and classes, every WARMUP_LEN < PROF_LEN and every capacity: the   *)
(* window and the late requests, that the histograms say what LRU queues   *)
(* would hit (they are sums, so the module first proves what sums are),    *)
(* and that the curve is what the histograms say.                          *)
(***************************************************************************)
EXTENDS Profiler, LruCaches, FiniteSetTheorems, SequenceTheorems, WellFoundedInduction, TLAPS

--------------------------------------------------------------------------------
(***************************************************************************)
(* The window.  WindowInv follows the count through it: it starts at the   *)
(* get that ends the warmup, runs with ltime and stops where the trace     *)
(* does.                                                                   *)
(***************************************************************************)
Measured == warmup_len # 0 /\ ltime >= warmup_len

WindowInv ==
    /\ enable_trace \in BOOLEAN /\ enable_measure \in BOOLEAN
    /\ ltime \in Nat
    /\ enable_trace => ltime < prof_len
    /\ ~enable_trace => ltime = prof_len
    /\ enable_measure <=> Measured
    /\ ~Measured => get_count = 0
    /\ Measured /\ enable_trace => get_count = ltime - warmup_len + 1
    /\ Measured /\ ~enable_trace => get_count = prof_len - warmup_len

LEMMA WindowInit == Init => WindowInv
<1>. SUFFICES ASSUME Init PROVE WindowInv
  OBVIOUS
<1>1. /\ enable_trace = TRUE /\ enable_measure = FALSE
      /\ ltime = 0 /\ get_count = 0
  BY DEF Init, InitProfile
<1>2. ~Measured
  BY <1>1, LengthsAssumption DEF Measured
<1>3. ltime \in Nat /\ ltime < prof_len
  BY <1>1, LengthsAssumption
<1>. QED
  BY <1>1, <1>2, <1>3, Zenon DEF WindowInv

\* A get that is profiled keeps the count, whether it ends the window or not.
LEMMA WindowOfGet ==
    ASSUME WindowInv, enable_trace, NEW k, profile_get(k)
    PROVE  WindowInv'
<1>1. CASE LastGet
  <2>1. /\ ltime + 1 = prof_len /\ ltime' = ltime + 1 /\ enable_trace' = FALSE
        /\ enable_measure' = enable_measure /\ get_count' = get_count
    BY <1>1 DEF LastGet
  <2>2. Measured' <=> Measured
    BY <2>1, LengthsAssumption DEF WindowInv, Measured
  <2>3. ltime' \in Nat /\ ltime' = prof_len
    BY <2>1, LengthsAssumption
  <2>4. Measured => get_count = prof_len - warmup_len
    BY <2>1, LengthsAssumption DEF WindowInv
  <2>. QED
    BY <2>1, <2>2, <2>3, <2>4, Zenon DEF WindowInv
<1>2. CASE WindowGet(k)
  <2>1. /\ ltime + 1 # prof_len /\ ltime' = ltime + 1
        /\ enable_measure' = (enable_measure \/ ltime + 1 = warmup_len)
        /\ get_count' = IF enable_measure' THEN get_count + 1 ELSE get_count
        /\ enable_trace' = enable_trace
    BY <1>2 DEF WindowGet
  <2>2. enable_measure' \in BOOLEAN /\ (enable_measure' <=> Measured')
    <3>1. Measured' <=> Measured \/ ltime + 1 = warmup_len
      BY <2>1, LengthsAssumption DEF WindowInv, Measured
    <3>. QED
      BY <2>1, <3>1, Zenon DEF WindowInv
  <2>3. /\ ~Measured' => get_count' = 0
        /\ Measured' => get_count' = ltime' - warmup_len + 1
    <3>1. CASE Measured
      BY <3>1, <2>1, <2>2, LengthsAssumption DEF WindowInv, Measured
    <3>2. CASE ~Measured
      BY <3>2, <2>1, <2>2, LengthsAssumption DEF WindowInv, Measured
    <3>. QED
      BY <3>1, <3>2
  <2>4. ltime' \in Nat /\ ltime' < prof_len
    BY <2>1, LengthsAssumption DEF WindowInv
  <2>. QED
    BY <2>1, <2>2, <2>3, <2>4, Zenon DEF WindowInv
<1>. QED
  BY <1>1, <1>2 DEF profile_get

LEMMA WindowNext == WindowInv /\ [Next]_vars => WindowInv'
<1>. SUFFICES ASSUME WindowInv, [Next]_vars
              PROVE  WindowInv'
  OBVIOUS
<1>1. CASE UNCHANGED window
  BY <1>1 DEF WindowInv, Measured, window
<1>2. CASE PopAndProfile
  <2>. DEFINE req == Head(reque)
  <2>1. CASE enable_trace /\ req.type = "get"
    BY <1>2, <2>1, WindowOfGet DEF PopAndProfile
  <2>2. CASE ~(enable_trace /\ req.type = "get")
    BY <1>2, <2>2, <1>1 DEF PopAndProfile, profile, profile_set
  <2>. QED
    BY <2>1, <2>2
<1>. QED
  BY <1>1, <1>2 DEF Next, Consume, Trace, reque_push, Wake, Poll, Drained, StartCurve,
     DivideByZero, CurvePoint, Forget, profile, vars

\* WindowMeasured: the number of gets the miss ratio is taken of, whenever the window has ended.
THEOREM WindowIsMeasured == Spec => []WindowMeasured
<1>1. WindowInv => WindowMeasured
  BY LengthsAssumption DEF WindowInv, Measured, WindowMeasured
<1>. QED
  BY WindowInit, WindowNext, <1>1, PTL DEF Spec

--------------------------------------------------------------------------------
(***************************************************************************)
(* The requests that come too late.  When the consumer finds the queue     *)
(* empty and the trace stopped, every worker can have one request in hand  *)
(* and none gets another: what they push only changes places.              *)
(***************************************************************************)
AfterWindow == consumer \in {"curve", "forget", "done", "crashed"}

Holding == {w \in Worker : pending[w] # NoRequest}

LateInv ==
    /\ pending \in [Worker -> Request \cup {NoRequest}]
    /\ reque \in Seq(Request)
    /\ AfterWindow => ~enable_trace
    /\ AfterWindow => Len(reque) + Cardinality(Holding) <= Cardinality(Worker)

LEMMA HoldingFinite ==
    /\ IsFiniteSet(Holding)
    /\ Cardinality(Holding) \in Nat /\ Cardinality(Worker) \in Nat
    /\ Cardinality(Holding) <= Cardinality(Worker)
BY WorkersAssumption, FS_Subset, FS_CardinalityType DEF Holding

LEMMA LateInit == Init => LateInv
BY DEF Init, LateInv, AfterWindow, Request

\* A push moves one request from a hand to the queue.
LEMMA LateOfPush ==
    ASSUME LateInv, NEW w \in Worker, reque_push(w)
    PROVE  LateInv'
<1>1. pending[w] \in Request /\ w \in Holding
  BY DEF LateInv, reque_push, Holding
<1>2. /\ reque' \in Seq(Request)
      /\ Len(reque') = Len(reque) + 1
  BY <1>1 DEF LateInv, reque_push
<1>3. pending' \in [Worker -> Request \cup {NoRequest}]
  BY DEF LateInv, reque_push
<1>4. Holding' = Holding \ {w}
  BY DEF LateInv, reque_push, Holding
<1>5. Cardinality(Holding') = Cardinality(Holding) - 1
  BY <1>1, <1>4, HoldingFinite, FS_RemoveElement
<1>6. Len(reque) \in Nat
  BY DEF LateInv
<1>7. UNCHANGED <<consumer, enable_trace>>
  BY DEF reque_push, profile, window
<1>. QED
  BY <1>2, <1>3, <1>5, <1>6, <1>7, HoldingFinite DEF LateInv, AfterWindow

LEMMA LateNext == LateInv /\ [Next]_vars => LateInv'
<1>. SUFFICES ASSUME LateInv, [Next]_vars
              PROVE  LateInv'
  OBVIOUS
<1>1. CASE \E w \in Worker, req \in Request : Trace(w, req)
  <2>1. PICK w \in Worker, req \in Request : Trace(w, req)
    BY <1>1
  <2>2. pending' \in [Worker -> Request \cup {NoRequest}]
    BY <2>1 DEF LateInv, Trace
  <2>3. ~AfterWindow'
    BY <2>1 DEF LateInv, Trace, AfterWindow
  <2>4. reque' = reque
    BY <2>1 DEF Trace
  <2>. QED
    BY <2>2, <2>3, <2>4 DEF LateInv
<1>2. CASE \E w \in Worker : reque_push(w)
  BY <1>2, LateOfPush
<1>3. CASE PopAndProfile
  <2>1. reque' \in Seq(Request) /\ UNCHANGED pending
    BY <1>3 DEF LateInv, PopAndProfile
  <2>2. ~AfterWindow'
    BY <1>3 DEF PopAndProfile, AfterWindow
  <2>. QED
    BY <2>1, <2>2 DEF LateInv
<1>4. CASE Wake \/ Poll \/ Drained
  BY <1>4 DEF LateInv, AfterWindow, Holding, Wake, Poll, Drained, profile, window
<1>5. CASE StartCurve
  <2>1. ~enable_trace' /\ reque' = <<>> /\ UNCHANGED pending
    BY <1>5 DEF StartCurve, profile, window
  <2>2. Len(reque') = 0 /\ Holding' = Holding
    BY <2>1 DEF Holding
  <2>. QED
    BY <2>1, <2>2, HoldingFinite DEF LateInv
<1>6. CASE DivideByZero \/ CurvePoint \/ Forget \/ UNCHANGED vars
  <2>1. /\ UNCHANGED <<pending, reque, enable_trace>>
        /\ AfterWindow' => AfterWindow
    BY <1>6 DEF DivideByZero, CurvePoint, Forget, AfterWindow, profile, window, vars
  <2>. QED
    BY <2>1 DEF LateInv, Holding
<1>. QED
  BY <1>1, <1>2, <1>3, <1>4, <1>5, <1>6 DEF Next, Consume

\* However many requests the workers are in when the trace stops, no more than one
\* of each is left behind.
THEOREM FewLateRequests == Spec => []LateRequests
<1>1. LateInv => LateRequests
  BY DEF LateInv, AfterWindow, Holding, LateRequests
<1>. QED
  BY LateInit, LateNext, <1>1, PTL DEF Spec

(***************************************************************************)
(* Sums.  A sum over a set is computed by a recursive function on its      *)
(* subsets, which chooses an element, adds its value and goes on without   *)
(* it.  That there is such a function, and only one, is shown by induction *)
(* over the size of the set: there is no smallest counterexample.          *)
(***************************************************************************)
Pick(s) == CHOOSE x \in s : TRUE

Adds(f, S, g) == g = [s \in SUBSET S |-> IF s = {} THEN 0 ELSE f[Pick(s)] + g[s \ {Pick(s)}]]

Iter(f, S) == CHOOSE g : Adds(f, S, g)

LEMMA SumIsIter ==
  ASSUME NEW f, NEW S
  PROVE  SumFunctionOnSet(f, S) = Iter(f, S)[S]
BY DEF SumFunctionOnSet, FoldFunctionOnSet, MapThenFoldSet, Iter, Adds, Pick

\* Induction over the naturals: a set of counterexamples has a least element.
LEMMA Least ==
  ASSUME NEW T, T \subseteq Nat, T # {}
  PROVE  \E x \in T : \A y \in T : x <= y
<1>1. IsWellFoundedOn(OpToRel(<,Nat), Nat)
  BY NatLessThanWellFounded
<1>2. PICK x \in T : \A y \in T : <<y, x>> \notin OpToRel(<,Nat)
  BY <1>1, WFMin, Zenon
<1>3. ASSUME NEW y \in T PROVE ~(y < x)
  <2>1. y \in Nat /\ x \in Nat /\ <<y, x>> \notin OpToRel(<,Nat)
    BY <1>2
  <2>. QED
    BY <2>1, Zenon DEF OpToRel
<1>. QED
  BY <1>3

\* A family of finite sets has a smallest one.
LEMMA Smallest ==
  ASSUME NEW F, F # {}, \A s \in F : IsFiniteSet(s)
  PROVE  \E s \in F : \A r \in F : Cardinality(s) <= Cardinality(r)
<1>. DEFINE T == {Cardinality(s) : s \in F}
<1>1. T \subseteq Nat /\ T # {}
  BY FS_CardinalityType
<1>2. PICK x \in T : \A y \in T : x <= y
  BY <1>1, Least
<1>. QED
  BY <1>2

LEMMA PickIn ==
  ASSUME NEW s, s # {}
  PROVE  Pick(s) \in s
BY DEF Pick

\* Without an element a finite set is smaller.
LEMMA Without1 ==
  ASSUME NEW s, IsFiniteSet(s), NEW x \in s
  PROVE  /\ IsFiniteSet(s \ {x}) /\ Cardinality(s \ {x}) = Cardinality(s) - 1
         /\ Cardinality(s) \in Nat /\ Cardinality(s \ {x}) \in Nat
         /\ ~(Cardinality(s) <= Cardinality(s \ {x}))
<1>1. IsFiniteSet(s \ {x}) /\ Cardinality(s \ {x}) = Cardinality(s) - 1
  BY FS_RemoveElement
<1>2. Cardinality(s) \in Nat /\ Cardinality(s \ {x}) \in Nat
  BY <1>1, FS_CardinalityType
<1>. QED
  BY <1>1, <1>2

LEMMA AddsOnce ==
  ASSUME NEW f, NEW S, IsFiniteSet(S), NEW T \in SUBSET S, NEW g, Adds(f, S, g), NEW h, Adds(f, T, h)
  PROVE  \A s \in SUBSET T : g[s] = h[s]
<1>. DEFINE F == {s \in SUBSET T : g[s] # h[s]}
<1>. SUFFICES ASSUME F # {} PROVE FALSE
  OBVIOUS
<1>1. \A s \in F : IsFiniteSet(s)
  BY FS_Subset
<1>2. PICK s \in F : \A r \in F : Cardinality(s) <= Cardinality(r)
  BY <1>1, Smallest
<1>3. /\ g[s] = IF s = {} THEN 0 ELSE f[Pick(s)] + g[s \ {Pick(s)}]
      /\ h[s] = IF s = {} THEN 0 ELSE f[Pick(s)] + h[s \ {Pick(s)}]
  BY DEF Adds
<1>4. s # {}
  BY <1>3
<1>5. g[s \ {Pick(s)}] = h[s \ {Pick(s)}]
  <2>1. PICK r : r = s \ {Pick(s)}
    OBVIOUS
  <2>2. r \in SUBSET T /\ ~(Cardinality(s) <= Cardinality(r))
    BY <1>1, <1>4, <2>1, PickIn, Without1
  <2>. QED
    BY <1>2, <2>1, <2>2
<1>. QED
  BY <1>3, <1>4, <1>5

LEMMA IterIs ==
  ASSUME NEW f, NEW S, NEW g, Adds(f, S, g)
  PROVE  Adds(f, S, Iter(f, S))
BY DEF Iter

LEMMA IterAdds ==
  ASSUME NEW f, NEW S, IsFiniteSet(S)
  PROVE  Adds(f, S, Iter(f, S))
<1>. DEFINE F == {s \in SUBSET S : ~Adds(f, s, Iter(f, s))}
<1>. SUFFICES ASSUME F # {} PROVE FALSE
  OBVIOUS
<1>1. \A s \in F : IsFiniteSet(s)
  BY FS_Subset
<1>2. PICK T \in F : \A r \in F : Cardinality(T) <= Cardinality(r)
  BY <1>1, Smallest
<1>3. ASSUME NEW s \in SUBSET T, s # {}
      PROVE  s \ {Pick(s)} \in SUBSET T /\ Adds(f, s \ {Pick(s)}, Iter(f, s \ {Pick(s)}))
  <2>1. PICK r : r = s \ {Pick(s)}
    OBVIOUS
  <2>2. IsFiniteSet(s) /\ IsFiniteSet(T)
    BY <1>1, <1>3, FS_Subset
  <2>3. Cardinality(s) <= Cardinality(T) /\ Cardinality(T) \in Nat
    BY <1>3, <2>2, FS_Subset, FS_CardinalityType
  <2>4. r \in SUBSET S /\ ~(Cardinality(T) <= Cardinality(r))
    BY <1>3, <2>1, <2>2, <2>3, PickIn, Without1
  <2>. QED
    BY <1>2, <1>3, <2>1, <2>4
<1>. DEFINE g == [s \in SUBSET T |-> IF s = {} THEN 0
                                     ELSE f[Pick(s)] + Iter(f, s \ {Pick(s)})[s \ {Pick(s)}]]
<1>4. ASSUME NEW r \in SUBSET T, r # T, NEW s \in SUBSET T, s # {}, r = s \ {Pick(s)}
      PROVE  g[r] = Iter(f, r)[r]
  <2>1. Adds(f, r, Iter(f, r))
    BY <1>3, <1>4
  <2>2. Iter(f, r)[r] = IF r = {} THEN 0 ELSE f[Pick(r)] + Iter(f, r)[r \ {Pick(r)}]
    BY <2>1 DEF Adds
  <2>3. CASE r # {}
    <3>1. PICK q : q = r \ {Pick(r)}
      OBVIOUS
    <3>2. Adds(f, q, Iter(f, q)) /\ q \in SUBSET r /\ IsFiniteSet(r)
      BY <1>1, <1>3, <2>3, <3>1, FS_Subset
    <3>3. Iter(f, r)[q] = Iter(f, q)[q]
      BY <2>1, <3>2, AddsOnce
    <3>. QED
      BY <2>2, <2>3, <3>1, <3>3
  <2>. QED
    BY <2>2, <2>3
<1>5. Adds(f, T, g)
  <2>1. ASSUME NEW s \in SUBSET T, s # {}
        PROVE  Iter(f, s \ {Pick(s)})[s \ {Pick(s)}] = g[s \ {Pick(s)}]
    <3>1. PICK r : r = s \ {Pick(s)}
      OBVIOUS
    <3>2. r \in SUBSET T /\ r # T
      BY <2>1, <3>1, PickIn
    <3>. QED
      BY <1>4, <2>1, <3>1, <3>2
  <2>2. PICK e : e = g
    OBVIOUS
  <2>3. e = [s \in SUBSET T |-> IF s = {} THEN 0 ELSE f[Pick(s)] + Iter(f, s \ {Pick(s)})[s \ {Pick(s)}]]
    BY <2>2
  <2>4. \A s \in SUBSET T : s # {} => Iter(f, s \ {Pick(s)})[s \ {Pick(s)}] = e[s \ {Pick(s)}]
    BY <2>1, <2>2
  <2>. HIDE DEF g
  <2>5. e = [s \in SUBSET T |-> IF s = {} THEN 0 ELSE f[Pick(s)] + e[s \ {Pick(s)}]]
    BY <2>3, <2>4
  <2>. QED
    BY <2>2, <2>5 DEF Adds
<1>. QED
  BY <1>2, <1>5, IterIs

\* A sum over a finite set adds the value of the element chosen first to the sum of the others.
LEMMA SumChosen ==
  ASSUME NEW f, NEW S, IsFiniteSet(S)
  PROVE  SumFunctionOnSet(f, S) = IF S = {} THEN 0 ELSE f[Pick(S)] + SumFunctionOnSet(f, S \ {Pick(S)})
<1>1. Adds(f, S, Iter(f, S))
  BY IterAdds
<1>2. Iter(f, S)[S] = IF S = {} THEN 0 ELSE f[Pick(S)] + Iter(f, S)[S \ {Pick(S)}]
  BY <1>1 DEF Adds
<1>3. PICK r : r = S \ {Pick(S)}
  OBVIOUS
<1>4. r \in SUBSET S /\ IsFiniteSet(r)
  BY <1>3, FS_Subset
<1>5. Iter(f, S)[r] = Iter(f, r)[r]
  BY <1>1, <1>4, IterAdds, AddsOnce
<1>. QED
  BY <1>2, <1>3, <1>5, SumIsIter

LEMMA SumEmpty == ASSUME NEW f PROVE SumFunctionOnSet(f, {}) = 0
BY SumChosen, FS_EmptySet

\* Whichever element is taken first, the sum is the same.
LEMMA SumTake ==
  ASSUME NEW f, NEW S, IsFiniteSet(S), \A x \in S : f[x] \in Nat
  PROVE  /\ SumFunctionOnSet(f, S) \in Nat
         /\ \A x \in S : SumFunctionOnSet(f, S) = f[x] + SumFunctionOnSet(f, S \ {x})
<1>. DEFINE Good(s) == /\ SumFunctionOnSet(f, s) \in Nat
                       /\ \A x \in s : SumFunctionOnSet(f, s) = f[x] + SumFunctionOnSet(f, s \ {x})
            F == {s \in SUBSET S : ~Good(s)}
<1>. SUFFICES ASSUME F # {} PROVE FALSE
  OBVIOUS
<1>1. \A s \in F : IsFiniteSet(s)
  BY FS_Subset
<1>2. PICK T \in F : \A r \in F : Cardinality(T) <= Cardinality(r)
  BY <1>1, Smallest
<1>3. T \in SUBSET S /\ IsFiniteSet(T) /\ ~Good(T)
  BY <1>1, <1>2
<1>4. ASSUME NEW r \in SUBSET S, NEW s \in SUBSET T, NEW x \in s, r = s \ {x}
      PROVE  Good(r)
  <2>1. IsFiniteSet(s) /\ Cardinality(s) <= Cardinality(T) /\ Cardinality(T) \in Nat
    BY <1>3, FS_Subset, FS_CardinalityType
  <2>2. ~(Cardinality(T) <= Cardinality(r))
    BY <1>4, <2>1, Without1
  <2>. QED
    BY <1>2, <2>2
<1>. HIDE DEF F
<1>5. T # {}
  BY <1>3, SumEmpty
<1>6. PICK p : p = Pick(T)
  OBVIOUS
<1>7. p \in T /\ SumFunctionOnSet(f, T) = f[p] + SumFunctionOnSet(f, T \ {p})
  BY <1>3, <1>5, <1>6, PickIn, SumChosen
<1>8. PICK P : P = T \ {p}
  OBVIOUS
<1>9. P \in SUBSET S /\ Good(P)
  BY <1>3, <1>4, <1>7, <1>8
<1>10. SumFunctionOnSet(f, T) \in Nat
  BY <1>3, <1>7, <1>8, <1>9
<1>11. ASSUME NEW x \in T
       PROVE  SumFunctionOnSet(f, T) = f[x] + SumFunctionOnSet(f, T \ {x})
  <2>1. CASE x = p
    BY <1>7, <2>1
  <2>2. CASE x # p
    <3>1. PICK X, Q : X = T \ {x} /\ Q = P \ {x}
      OBVIOUS
    <3>2. x \in P /\ p \in X /\ Q = X \ {p} /\ X \in SUBSET S /\ Q \in SUBSET S /\ X \in SUBSET T
      BY <1>3, <1>7, <1>8, <2>2, <3>1
    <3>3. Good(X)
      BY <1>4, <3>1, <3>2
    <3>4. Good(Q)
      BY <1>4, <3>2
    <3>5. SumFunctionOnSet(f, P) = f[x] + SumFunctionOnSet(f, Q)
      BY <1>9, <3>1, <3>2
    <3>6. SumFunctionOnSet(f, X) = f[p] + SumFunctionOnSet(f, Q)
      BY <3>2, <3>3
    <3>7. f[x] \in Nat /\ f[p] \in Nat /\ SumFunctionOnSet(f, Q) \in Nat
      BY <1>3, <1>7, <3>4
    <3>8. SumFunctionOnSet(f, T) = f[x] + SumFunctionOnSet(f, X)
      BY <1>7, <1>8, <3>5, <3>6, <3>7
    <3>. QED
      BY <3>1, <3>8
  <2>. QED
    BY <2>1, <2>2
<1>. QED
  BY <1>3, <1>10, <1>11

\* The sum of the same values.
LEMMA SumSame ==
  ASSUME NEW f, NEW g, NEW S, IsFiniteSet(S), \A x \in S : f[x] \in Nat /\ f[x] = g[x]
  PROVE  SumFunctionOnSet(f, S) = SumFunctionOnSet(g, S)
<1>. DEFINE F == {s \in SUBSET S : SumFunctionOnSet(f, s) # SumFunctionOnSet(g, s)}
<1>. SUFFICES ASSUME F # {} PROVE FALSE
  OBVIOUS
<1>1. \A s \in F : IsFiniteSet(s)
  BY FS_Subset
<1>2. PICK T \in F : \A r \in F : Cardinality(T) <= Cardinality(r)
  BY <1>1, Smallest
<1>3. IsFiniteSet(T) /\ T \in SUBSET S
  BY <1>1, <1>2
<1>4. T # {}
  BY <1>2, SumEmpty
<1>5. PICK x \in T : TRUE
  BY <1>4
<1>6. PICK r : r = T \ {x}
  OBVIOUS
<1>7. SumFunctionOnSet(f, r) = SumFunctionOnSet(g, r)
  <2>1. ~(Cardinality(T) <= Cardinality(r)) /\ r \in SUBSET S
    BY <1>3, <1>5, <1>6, Without1
  <2>. QED
    BY <1>2, <2>1
<1>8. SumFunctionOnSet(f, T) = f[x] + SumFunctionOnSet(f, r)
  BY <1>3, <1>5, <1>6, SumTake
<1>9. SumFunctionOnSet(g, T) = g[x] + SumFunctionOnSet(g, r)
  <2>1. \A y \in T : g[y] \in Nat
    BY <1>3
  <2>. QED
    BY <1>3, <1>5, <1>6, <2>1, SumTake
<1>. QED
  BY <1>2, <1>3, <1>5, <1>7, <1>8, <1>9

\* Values of 0 add nothing.
LEMMA SumZeros ==
  ASSUME NEW f, NEW S, IsFiniteSet(S), \A x \in S : f[x] \in Nat,
         NEW T, T \subseteq S, \A x \in S \ T : f[x] = 0
  PROVE  SumFunctionOnSet(f, S) = SumFunctionOnSet(f, T)
<1>. DEFINE F == {s \in SUBSET S : T \subseteq s /\ SumFunctionOnSet(f, s) # SumFunctionOnSet(f, T)}
<1>. SUFFICES ASSUME F # {} PROVE FALSE
  OBVIOUS
<1>1. \A s \in F : IsFiniteSet(s)
  BY FS_Subset
<1>2. PICK s \in F : \A r \in F : Cardinality(s) <= Cardinality(r)
  BY <1>1, Smallest
<1>3. IsFiniteSet(s) /\ s \in SUBSET S /\ T \subseteq s
  BY <1>1, <1>2
<1>4. PICK x \in s : x \notin T
  BY <1>2
<1>5. PICK r : r = s \ {x}
  OBVIOUS
<1>6. r \in SUBSET S /\ T \subseteq r /\ ~(Cardinality(s) <= Cardinality(r))
  BY <1>3, <1>4, <1>5, Without1
<1>7. SumFunctionOnSet(f, r) = SumFunctionOnSet(f, T)
  BY <1>2, <1>6
<1>8. SumFunctionOnSet(f, s) = f[x] + SumFunctionOnSet(f, r) /\ f[x] = 0
  BY <1>3, <1>4, <1>5, SumTake
<1>9. SumFunctionOnSet(f, r) \in Nat
  BY <1>3, <1>6, SumTake, FS_Subset
<1>. QED
  BY <1>2, <1>7, <1>8, <1>9

\* One value more by 1, the others the same.
LEMMA SumMore ==
  ASSUME NEW f, NEW g, NEW S, IsFiniteSet(S), \A x \in S : f[x] \in Nat,
         NEW y \in S, g[y] = f[y] + 1, \A x \in S \ {y} : g[x] = f[x]
  PROVE  SumFunctionOnSet(g, S) = SumFunctionOnSet(f, S) + 1
<1>1. PICK r : r = S \ {y}
  OBVIOUS
<1>2. IsFiniteSet(r) /\ \A x \in r : f[x] \in Nat /\ f[x] = g[x]
  BY <1>1, FS_Subset
<1>3. SumFunctionOnSet(f, r) = SumFunctionOnSet(g, r)
  BY <1>2, SumSame
<1>4. SumFunctionOnSet(f, S) = f[y] + SumFunctionOnSet(f, r)
  BY <1>1, SumTake
<1>5. SumFunctionOnSet(g, S) = g[y] + SumFunctionOnSet(g, r)
  <2>1. \A x \in S : g[x] \in Nat
    OBVIOUS
  <2>. QED
    BY <1>1, <2>1, SumTake
<1>6. SumFunctionOnSet(f, r) \in Nat /\ f[y] \in Nat
  BY <1>2, SumTake
<1>. QED
  BY <1>3, <1>4, <1>5, <1>6

-----------------------------------------------------------------------------
(* A histogram predicts one more hit for every size the distance fits into. *)

LEMMA SegmentFinite == ASSUME NEW m \in Nat, NEW P, P \subseteq 1..m PROVE IsFiniteSet(P)
<1>1. IsFiniteSet(1..m)
  BY FS_Interval
<1>. QED
  BY <1>1, FS_Subset

LEMMA CountedIs ==
  ASSUME NEW hist \in Seq(Nat), NEW rd \in Nat
  PROVE  /\ Counted(hist, rd) \in Seq(Nat) /\ Len(Counted(hist, rd)) \in Nat
         /\ Len(hist) <= Len(Counted(hist, rd)) /\ rd + 1 \in 1..Len(Counted(hist, rd))
         /\ \A i \in 1..Len(Counted(hist, rd)) :
              Counted(hist, rd)[i] = (IF i <= Len(hist) THEN hist[i] ELSE 0) + (IF i = rd + 1 THEN 1 ELSE 0)
<1>1. PICK size : size = IF Len(hist) <= rd THEN 2 * (rd + 1) ELSE Len(hist)
  OBVIOUS
<1>2. size \in Nat /\ Len(hist) <= size /\ rd + 1 \in 1..size /\ Len(hist) \in Nat
  BY <1>1
<1>3. PICK grown : grown = [i \in 1..size |-> IF i <= Len(hist) THEN hist[i] ELSE 0]
  OBVIOUS
<1>4. \A i \in 1..size : grown[i] \in Nat
  BY <1>2, <1>3
<1>5. Counted(hist, rd) = [grown EXCEPT ![rd + 1] = grown[rd + 1] + 1]
  BY <1>1, <1>3 DEF Counted
<1>6. PICK c : c = Counted(hist, rd)
  OBVIOUS
<1>7. /\ c = [i \in 1..size |-> IF i = rd + 1 THEN grown[rd + 1] + 1 ELSE grown[i]]
      /\ \A i \in 1..size : c[i] \in Nat
  <2>1. PICK y : y = rd + 1
    OBVIOUS
  <2>2. c = [grown EXCEPT ![y] = grown[y] + 1] /\ DOMAIN grown = 1..size /\ y \in 1..size
    BY <1>2, <1>3, <1>5, <1>6, <2>1
  <2>3. c = [i \in 1..size |-> IF i = y THEN grown[y] + 1 ELSE grown[i]]
    BY <2>2
  <2>4. grown[y] + 1 \in Nat
    BY <1>4, <2>2
  <2>. QED
    BY <1>4, <2>1, <2>3, <2>4
<1>8. c \in Seq(Nat) /\ Len(c) = size
  BY <1>2, <1>7
<1>9. ASSUME NEW i \in 1..size
      PROVE  c[i] = (IF i <= Len(hist) THEN hist[i] ELSE 0) + (IF i = rd + 1 THEN 1 ELSE 0)
  <2>1. grown[i] = (IF i <= Len(hist) THEN hist[i] ELSE 0) /\ grown[i] \in Nat
    BY <1>3, <1>4
  <2>. QED
    BY <1>7, <2>1
<1>. QED
  BY <1>2, <1>6, <1>8, <1>9

\* The gets of a histogram at a distance of at most n.
Within(hist, n) == SumFunctionOnSet(hist, {i \in DOMAIN hist : i - 1 <= n})

LEMMA WithinCounted ==
  ASSUME NEW hist \in Seq(Nat), NEW rd \in Nat, NEW n \in Nat
  PROVE  /\ Within(hist, n) \in Nat
         /\ Within(Counted(hist, rd), n) = Within(hist, n) + (IF rd <= n THEN 1 ELSE 0)
<1>1. PICK L \in Nat, c \in Seq(Nat), M \in Nat : L = Len(hist) /\ c = Counted(hist, rd) /\ M = Len(c)
  BY CountedIs
<1>2. /\ L <= M /\ rd + 1 \in 1..M
      /\ \A i \in 1..M : c[i] = (IF i <= L THEN hist[i] ELSE 0) + (IF i = rd + 1 THEN 1 ELSE 0)
  BY <1>1, CountedIs
<1>3. \A i \in 1..L : hist[i] \in Nat
  BY <1>1
<1>4. PICK A, B : A = {i \in 1..L : i - 1 <= n} /\ B = {i \in 1..M : i - 1 <= n}
  OBVIOUS
<1>5. IsFiniteSet(A) /\ IsFiniteSet(B) /\ A \subseteq B
  BY <1>1, <1>2, <1>4, SegmentFinite
<1>6. Within(hist, n) = SumFunctionOnSet(hist, A) /\ Within(c, n) = SumFunctionOnSet(c, B)
  <2>1. DOMAIN hist = 1..L /\ DOMAIN c = 1..M
    BY <1>1
  <2>. QED
    BY <1>4, <2>1 DEF Within
<1>7. SumFunctionOnSet(hist, A) \in Nat
  BY <1>3, <1>4, <1>5, SumTake
<1>8. PICK grown : grown = [i \in 1..M |-> IF i <= L THEN hist[i] ELSE 0]
  OBVIOUS
<1>9. \A i \in 1..M : grown[i] \in Nat /\ c[i] = grown[i] + (IF i = rd + 1 THEN 1 ELSE 0)
  BY <1>2, <1>3, <1>8
<1>10. SumFunctionOnSet(grown, B) = SumFunctionOnSet(hist, A)
  <2>1. \A i \in B : grown[i] \in Nat
    BY <1>4, <1>9
  <2>2. \A i \in B \ A : grown[i] = 0
    BY <1>1, <1>4, <1>8
  <2>3. SumFunctionOnSet(grown, B) = SumFunctionOnSet(grown, A)
    BY <1>5, <2>1, <2>2, SumZeros
  <2>4. \A i \in A : hist[i] \in Nat /\ hist[i] = grown[i]
    BY <1>1, <1>2, <1>3, <1>4, <1>8
  <2>5. SumFunctionOnSet(hist, A) = SumFunctionOnSet(grown, A)
    BY <1>5, <2>4, SumSame
  <2>. QED
    BY <2>3, <2>5
<1>11. SumFunctionOnSet(c, B) = SumFunctionOnSet(grown, B) + (IF rd <= n THEN 1 ELSE 0)
  <2>1. \A i \in B : grown[i] \in Nat
    BY <1>4, <1>9
  <2>2. CASE rd <= n
    <3>1. PICK y \in B : y = rd + 1
      BY <1>2, <1>4, <2>2
    <3>2. c[y] = grown[y] + 1 /\ \A i \in B \ {y} : c[i] = grown[i]
      BY <1>4, <1>9, <3>1
    <3>3. SumFunctionOnSet(c, B) = SumFunctionOnSet(grown, B) + 1
      BY <1>5, <2>1, <3>2, SumMore
    <3>. QED
      BY <2>2, <3>3
  <2>3. CASE ~(rd <= n)
    <3>1. \A i \in B : i # rd + 1
      BY <1>4, <2>3
    <3>2. \A i \in B : grown[i] \in Nat /\ grown[i] = c[i]
      BY <1>4, <1>9, <3>1
    <3>3. SumFunctionOnSet(grown, B) = SumFunctionOnSet(c, B) /\ SumFunctionOnSet(grown, B) \in Nat
      BY <1>5, <3>2, SumSame, SumTake
    <3>. QED
      BY <2>3, <3>3
  <2>. QED
    BY <2>2, <2>3
<1>. QED
  BY <1>1, <1>6, <1>7, <1>10, <1>11

-----------------------------------------------------------------------------
(* Lists of keys: a queue is the end of the tree of its class. *)

Distinct(s) == \A i, j \in DOMAIN s : s[i] = s[j] => i = j

Suffix(q, l) == Len(q) <= Len(l) /\ \A i \in 1..Len(q) : q[i] = l[i + (Len(l) - Len(q))]

LEMMA RemoveNone ==
  ASSUME NEW X, NEW s \in Seq(X), NEW k, \A i \in 1..Len(s) : s[i] # k
  PROVE  RemoveFirst(s, k) = s
BY DEF RemoveFirst

LEMMA RemoveOne ==
  ASSUME NEW X, NEW s \in Seq(X), NEW k, NEW p \in 1..Len(s), s[p] = k, Distinct(s)
  PROVE  /\ RemoveFirst(s, k) \in Seq(X) /\ Len(RemoveFirst(s, k)) = Len(s) - 1
         /\ \A i \in 1..(Len(s) - 1) : RemoveFirst(s, k)[i] = IF i < p THEN s[i] ELSE s[i + 1]
<1>1. SelectInSeq(s, LAMBDA v : v = k) = p
  <2>1. PICK I : I = {i \in 1..Len(s) : s[i] = k}
    OBVIOUS
  <2>2. I = {p}
    BY <2>1 DEF Distinct
  <2>3. I # {} /\ Min(I) = p
    BY <2>2 DEF Min
  <2>. QED
    BY <2>1, <2>3 DEF SelectInSeq
<1>2. RemoveFirst(s, k) = SubSeq(s, 1, p - 1) \o SubSeq(s, p + 1, Len(s))
  BY <1>1 DEF RemoveFirst, RemoveAt
<1>3. PICK u, v : u = SubSeq(s, 1, p - 1) /\ v = SubSeq(s, p + 1, Len(s))
  OBVIOUS
<1>4. /\ u \in Seq(X) /\ Len(u) = p - 1 /\ \A i \in 1..(p - 1) : u[i] = s[i]
      /\ v \in Seq(X) /\ Len(v) = Len(s) - p /\ \A i \in 1..(Len(s) - p) : v[i] = s[p + i]
  <2>1. Len(s) \in Nat /\ p \in Nat
    OBVIOUS
  <2>2. u = [i \in 1..(p - 1) |-> s[i]]
    BY <1>3
  <2>3. v = [i \in 1..(Len(s) - p) |-> s[p + i]]
    BY <1>3
  <2>4. \A i \in 1..(p - 1) : s[i] \in X
    OBVIOUS
  <2>5. \A i \in 1..(Len(s) - p) : s[p + i] \in X
    OBVIOUS
  <2>. QED
    BY <2>1, <2>2, <2>3, <2>4, <2>5
<1>5. PICK r : r = u \o v
  OBVIOUS
<1>6. /\ r \in Seq(X) /\ Len(r) = Len(s) - 1
      /\ \A i \in 1..(Len(s) - 1) : r[i] = IF i <= p - 1 THEN u[i] ELSE v[i - (p - 1)]
  <2>1. r \in Seq(X) /\ Len(r) = Len(u) + Len(v)
    BY <1>4, <1>5, ConcatProperties
  <2>2. \A i \in 1..(Len(u) + Len(v)) : r[i] = IF i <= Len(u) THEN u[i] ELSE v[i - Len(u)]
    BY <1>4, <1>5, ConcatProperties
  <2>3. Len(u) + Len(v) = Len(s) - 1
    BY <1>4
  <2>. QED
    BY <1>4, <2>1, <2>2, <2>3
<1>7. ASSUME NEW i \in 1..(Len(s) - 1) PROVE r[i] = IF i < p THEN s[i] ELSE s[i + 1]
  <2>1. CASE i < p
    <3>1. i <= p - 1 /\ i \in 1..(p - 1)
      BY <2>1
    <3>2. r[i] = u[i]
      BY <1>6, <3>1
    <3>. QED
      BY <1>4, <2>1, <3>1, <3>2
  <2>2. CASE ~(i < p)
    <3>1. i - (p - 1) \in 1..(Len(s) - p) /\ p + (i - (p - 1)) = i + 1 /\ ~(i <= p - 1)
      BY <2>2
    <3>2. r[i] = v[i - (p - 1)]
      BY <1>6, <3>1
    <3>. QED
      BY <1>4, <2>2, <3>1, <3>2
  <2>. QED
    BY <2>1, <2>2
<1>. QED
  BY <1>2, <1>3, <1>5, <1>6, <1>7

LEMMA RemoveKeeps ==
  ASSUME NEW X, NEW s \in Seq(X), NEW k, NEW p \in 1..Len(s), s[p] = k, Distinct(s),
         NEW j \in 1..Len(s), j # p
  PROVE  \E i \in 1..(Len(s) - 1) : RemoveFirst(s, k)[i] = s[j]
<1>1. PICK r : r = RemoveFirst(s, k) /\ \A i \in 1..(Len(s) - 1) : r[i] = IF i < p THEN s[i] ELSE s[i + 1]
  <2>1. \A h \in 1..(Len(s) - 1) : RemoveFirst(s, k)[h] = IF h < p THEN s[h] ELSE s[h + 1]
    BY RemoveOne
  <2>. QED
    BY <2>1
<1>2. CASE j < p
  <2>1. j \in 1..(Len(s) - 1) /\ r[j] = s[j]
    BY <1>1, <1>2
  <2>. QED
    BY <1>1, <2>1
<1>3. CASE ~(j < p)
  <2>1. j - 1 \in 1..(Len(s) - 1) /\ r[j - 1] = s[j]
    BY <1>1, <1>3
  <2>. QED
    BY <1>1, <2>1
<1>. QED
  BY <1>2, <1>3

LEMMA RemoveLeaves ==
  ASSUME NEW X, NEW s \in Seq(X), NEW k, NEW p \in 1..Len(s), s[p] = k, Distinct(s),
         NEW i \in 1..(Len(s) - 1)
  PROVE  RemoveFirst(s, k)[i] # k /\ \E j \in 1..Len(s) : RemoveFirst(s, k)[i] = s[j]
<1>1. PICK r : r = RemoveFirst(s, k) /\ r[i] = IF i < p THEN s[i] ELSE s[i + 1]
  <2>1. \A h \in 1..(Len(s) - 1) : RemoveFirst(s, k)[h] = IF h < p THEN s[h] ELSE s[h + 1]
    BY RemoveOne
  <2>. QED
    BY <2>1
<1>2. PICK j \in 1..Len(s) : j = (IF i < p THEN i ELSE i + 1) /\ j # p
  OBVIOUS
<1>3. r[i] = s[j]
  BY <1>1, <1>2
<1>4. s[j] # k
  BY <1>2 DEF Distinct
<1>. QED
  BY <1>1, <1>3, <1>4

LEMMA RemoveDistinct ==
  ASSUME NEW X, NEW s \in Seq(X), NEW k, NEW p \in 1..Len(s), s[p] = k, Distinct(s)
  PROVE  Distinct(RemoveFirst(s, k))
<1>1. PICK r \in Seq(X) : r = RemoveFirst(s, k)
  BY RemoveOne
<1>2. Len(r) = Len(s) - 1 /\ \A i \in 1..(Len(s) - 1) : r[i] = IF i < p THEN s[i] ELSE s[i + 1]
  BY <1>1, RemoveOne
<1>3. DOMAIN r = 1..(Len(s) - 1)
  BY <1>2
<1>. DEFINE at(i) == IF i < p THEN i ELSE i + 1
<1>4. \A i \in 1..(Len(s) - 1) : at(i) \in DOMAIN s /\ r[i] = s[at(i)]
  BY <1>2
<1>5. \A i, j \in 1..(Len(s) - 1) : at(i) = at(j) => i = j
  OBVIOUS
<1>. HIDE DEF at
<1>6. Distinct(r)
  BY <1>3, <1>4, <1>5 DEF Distinct
<1>. QED
  BY <1>1, <1>6

LEMMA SuffixAt ==
  ASSUME NEW X, NEW l \in Seq(X), NEW q \in Seq(X), Suffix(q, l)
  PROVE  \E m \in Nat : /\ m = Len(l) - Len(q) /\ Len(l) \in Nat /\ Len(q) \in Nat
                        /\ \A i \in 1..Len(q) : q[i] = l[i + m] /\ i + m \in 1..Len(l)
<1>1. Len(l) \in Nat /\ Len(q) \in Nat /\ Len(q) <= Len(l)
  BY LenProperties DEF Suffix
<1>2. PICK m : m = Len(l) - Len(q)
  OBVIOUS
<1>3. m \in Nat /\ \A i \in 1..Len(q) : i + m \in 1..Len(l)
  BY <1>1, <1>2
<1>4. \A i \in 1..Len(q) : q[i] = l[i + m]
  BY <1>2, Zenon DEF Suffix
<1>. QED
  BY <1>1, <1>2, <1>3, <1>4, Zenon

LEMMA SuffixDistinct ==
  ASSUME NEW X, NEW l \in Seq(X), NEW q \in Seq(X), Distinct(l), Suffix(q, l)
  PROVE  Distinct(q)
<1>1. PICK m \in Nat : /\ m = Len(l) - Len(q) /\ Len(l) \in Nat /\ Len(q) \in Nat
                        /\ \A i \in 1..Len(q) : q[i] = l[i + m] /\ i + m \in 1..Len(l)
  BY SuffixAt, Zenon
<1>2. \A i \in 1..Len(q) : q[i] = l[i + m] /\ i + m \in 1..Len(l)
  BY <1>1, Zenon
<1>3. DOMAIN l = 1..Len(l) /\ DOMAIN q = 1..Len(q)
  OBVIOUS
<1>4. ASSUME NEW i \in 1..Len(q), NEW j \in 1..Len(q), q[i] = q[j] PROVE i = j
  <2>1. i + m = j + m
    BY <1>2, <1>3, <1>4 DEF Distinct
  <2>. QED
    BY <1>1, <2>1
<1>. QED
  BY <1>3, <1>4 DEF Distinct

\* A queue has the keys of the tree up to the distance of its length.
LEMMA SuffixHas ==
  ASSUME NEW X, NEW l \in Seq(X), NEW q \in Seq(X), Distinct(l), Suffix(q, l), NEW p \in 1..Len(l)
  PROVE  /\ l[p] \in ToSet(q) <=> Len(l) + 1 - p <= Len(q)
         /\ Len(l) + 1 - p <= Len(q) => p - (Len(l) - Len(q)) \in 1..Len(q) /\ q[p - (Len(l) - Len(q))] = l[p]
         /\ ~(Len(l) + 1 - p <= Len(q)) => \A i \in 1..Len(q) : q[i] # l[p]
<1>1. PICK m \in Nat : /\ m = Len(l) - Len(q) /\ Len(l) \in Nat /\ Len(q) \in Nat
                        /\ \A i \in 1..Len(q) : q[i] = l[i + m] /\ i + m \in 1..Len(l)
  BY SuffixAt, Zenon
<1>2. \A i \in 1..Len(q) : q[i] = l[i + m] /\ i + m \in 1..Len(l)
  BY <1>1, Zenon
<1>3. DOMAIN l = 1..Len(l) /\ DOMAIN q = 1..Len(q)
  OBVIOUS
<1>4. CASE Len(l) + 1 - p <= Len(q)
  <2>1. PICK i \in 1..Len(q) : i = p - m /\ i + m = p
    <3>1. p - m \in 1..Len(q) /\ (p - m) + m = p
      BY <1>1, <1>4
    <3>. QED
      BY <3>1
  <2>2. q[i] = l[p] /\ l[p] \in ToSet(q)
    BY <1>2, <1>3, <2>1 DEF ToSet
  <2>. QED
    BY <1>1, <1>4, <2>1, <2>2
<1>5. CASE ~(Len(l) + 1 - p <= Len(q))
  <2>1. ASSUME NEW i \in 1..Len(q) PROVE q[i] # l[p]
    <3>1. i + m # p
      BY <1>1, <1>5
    <3>. QED
      BY <1>2, <1>3, <3>1 DEF Distinct
  <2>2. l[p] \notin ToSet(q)
    BY <1>3, <2>1 DEF ToSet
  <2>. QED
    BY <1>5, <2>1, <2>2
<1>. QED
  BY <1>4, <1>5

\* A key leaves the tree and its queue.
LEMMA RemoveSuffix ==
  ASSUME NEW X, NEW l \in Seq(X), NEW q \in Seq(X), Distinct(l), Suffix(q, l),
         NEW k, NEW p \in 1..Len(l), l[p] = k
  PROVE  /\ RemoveFirst(q, k) \in Seq(X) /\ Suffix(RemoveFirst(q, k), RemoveFirst(l, k))
         /\ Len(RemoveFirst(l, k)) = Len(l) - 1
         /\ Len(RemoveFirst(q, k)) \in {Len(q) - 1, Len(q)}
<1>1. PICK m \in Nat : /\ m = Len(l) - Len(q) /\ Len(l) \in Nat /\ Len(q) \in Nat
                        /\ \A i \in 1..Len(q) : q[i] = l[i + m] /\ i + m \in 1..Len(l)
  BY SuffixAt, Zenon
<1>2. \A i \in 1..Len(q) : q[i] = l[i + m] /\ i + m \in 1..Len(l)
  BY <1>1, Zenon
<1>3. PICK R \in Seq(X) : R = RemoveFirst(l, k)
  BY RemoveOne
<1>4. Len(R) = Len(l) - 1 /\ \A i \in 1..(Len(l) - 1) : R[i] = IF i < p THEN l[i] ELSE l[i + 1]
  BY <1>3, RemoveOne
<1>5. CASE Len(l) + 1 - p <= Len(q)
  <2>1. PICK j \in 1..Len(q) : j = p - m /\ q[j] = k
    <3>1. p - (Len(l) - Len(q)) \in 1..Len(q) /\ q[p - (Len(l) - Len(q))] = l[p]
      BY <1>5, SuffixHas, Zenon
    <3>. QED
      BY <1>1, <3>1, Zenon
  <2>2. Distinct(q)
    BY SuffixDistinct
  <2>3. PICK r \in Seq(X) : r = RemoveFirst(q, k)
    BY <2>1, <2>2, RemoveOne
  <2>4. Len(r) = Len(q) - 1 /\ \A i \in 1..(Len(q) - 1) : r[i] = IF i < j THEN q[i] ELSE q[i + 1]
    BY <2>1, <2>2, <2>3, RemoveOne
  <2>5. Len(r) <= Len(R) /\ Len(R) - Len(r) = m
    BY <1>1, <1>4, <2>4
  <2>6. ASSUME NEW i \in 1..Len(r) PROVE r[i] = R[i + m]
    <3>1. i + m \in 1..(Len(l) - 1)
      BY <1>1, <2>4
    <3>2. CASE i < j
      <4>1. r[i] = q[i] /\ i \in 1..Len(q)
        BY <2>4, <3>2, SMTT(30)
      <4>2. i + m < p
        BY <1>1, <2>1, <3>2
      <4>3. R[i + m] = l[i + m]
        BY <1>4, <3>1, <4>2
      <4>. QED
        BY <1>2, <4>1, <4>3
    <3>3. CASE ~(i < j)
      <4>1. r[i] = q[i + 1] /\ i + 1 \in 1..Len(q)
        BY <2>4, <3>3
      <4>2. ~(i + m < p) /\ (i + 1) + m = (i + m) + 1
        BY <1>1, <2>1, <3>3
      <4>3. R[i + m] = l[(i + m) + 1]
        BY <1>4, <3>1, <4>2
      <4>4. q[i + 1] = l[(i + 1) + m]
        BY <1>2, <4>1
      <4>. QED
        BY <4>1, <4>2, <4>3, <4>4
    <3>. QED
      BY <3>2, <3>3
  <2>. QED
    BY <1>3, <1>4, <1>5, <2>3, <2>4, <2>5, <2>6 DEF Suffix
<1>6. CASE ~(Len(l) + 1 - p <= Len(q))
  <2>1. \A i \in 1..Len(q) : q[i] # k
    BY <1>6, SuffixHas
  <2>2. RemoveFirst(q, k) = q
    BY <2>1, RemoveNone
  <2>3. Len(q) <= Len(R) /\ Len(R) - Len(q) = m - 1
    BY <1>1, <1>4, <1>6
  <2>4. ASSUME NEW i \in 1..Len(q) PROVE q[i] = R[i + (m - 1)]
    <3>1. i + (m - 1) \in 1..(Len(l) - 1) /\ ~(i + (m - 1) < p) /\ (i + (m - 1)) + 1 = i + m
      BY <1>1, <1>6
    <3>2. R[i + (m - 1)] = l[i + m]
      BY <1>4, <3>1
    <3>. QED
      BY <1>2, <3>2
  <2>. QED
    BY <1>3, <1>4, <1>6, <2>2, <2>3, <2>4 DEF Suffix
<1>. QED
  BY <1>5, <1>6

LEMMA AppendSuffix ==
  ASSUME NEW X, NEW l \in Seq(X), NEW q \in Seq(X), Suffix(q, l), NEW k \in X
  PROVE  Suffix(Append(q, k), Append(l, k))
<1>1. PICK m \in Nat : /\ m = Len(l) - Len(q) /\ Len(l) \in Nat /\ Len(q) \in Nat
                        /\ \A i \in 1..Len(q) : q[i] = l[i + m] /\ i + m \in 1..Len(l)
  BY SuffixAt, Zenon
<1>2. \A i \in 1..Len(q) : q[i] = l[i + m] /\ i + m \in 1..Len(l)
  BY <1>1, Zenon
<1>3. PICK a, b : a = Append(q, k) /\ b = Append(l, k)
  OBVIOUS
<1>4. /\ Len(a) = Len(q) + 1 /\ \A i \in 1..Len(q) : a[i] = q[i]
      /\ Len(b) = Len(l) + 1 /\ \A i \in 1..Len(l) : b[i] = l[i]
      /\ a[Len(q) + 1] = k /\ b[Len(l) + 1] = k
  BY <1>3
<1>5. Len(a) <= Len(b) /\ Len(b) - Len(a) = m
  BY <1>1, <1>4
<1>6. ASSUME NEW i \in 1..Len(a) PROVE a[i] = b[i + m]
  <2>1. CASE i = Len(q) + 1
    <3>1. i + m = Len(l) + 1
      BY <1>1, <2>1
    <3>. QED
      BY <1>4, <2>1, <3>1
  <2>2. CASE i # Len(q) + 1
    <3>1. i \in 1..Len(q)
      BY <1>1, <1>4, <2>2
    <3>. QED
      BY <1>2, <1>4, <3>1
  <2>. QED
    BY <2>1, <2>2
<1>. QED
  BY <1>3, <1>5, <1>6 DEF Suffix

LEMMA TailSuffix ==
  ASSUME NEW X, NEW l \in Seq(X), NEW q \in Seq(X), Suffix(q, l), q # <<>>
  PROVE  Suffix(Tail(q), l) /\ Tail(q) \in Seq(X) /\ Len(Tail(q)) = Len(q) - 1
<1>1. PICK m \in Nat : /\ m = Len(l) - Len(q) /\ Len(l) \in Nat /\ Len(q) \in Nat
                        /\ \A i \in 1..Len(q) : q[i] = l[i + m] /\ i + m \in 1..Len(l)
  BY SuffixAt, Zenon
<1>2. \A i \in 1..Len(q) : q[i] = l[i + m] /\ i + m \in 1..Len(l)
  BY <1>1, Zenon
<1>3. PICK t \in Seq(X) : t = Tail(q)
  BY HeadTailProperties
<1>4. Len(t) = Len(q) - 1 /\ \A i \in 1..(Len(q) - 1) : t[i] = q[i + 1]
  BY <1>3, HeadTailProperties
<1>5. Len(t) <= Len(l) /\ Len(l) - Len(t) = m + 1
  BY <1>1, <1>4
<1>6. ASSUME NEW i \in 1..Len(t) PROVE t[i] = l[i + (m + 1)]
  <2>1. i + 1 \in 1..Len(q) /\ (i + 1) + m = i + (m + 1) /\ i \in 1..(Len(q) - 1)
    BY <1>1, <1>4
  <2>2. t[i] = q[i + 1] /\ q[i + 1] = l[(i + 1) + m]
    BY <1>2, <1>4, <2>1
  <2>. QED
    BY <2>1, <2>2
<1>. QED
  BY <1>3, <1>4, <1>5, <1>6 DEF Suffix

\* A key is used: it becomes the last of the tree and of the queue, which drops its first for the room.
LEMMA UseSuffix ==
  ASSUME NEW X, NEW l \in Seq(X), NEW q \in Seq(X), Distinct(l), Suffix(q, l),
         NEW n \in Nat \ {0}, Len(q) <= n, NEW k \in X
  PROVE  /\ Use(q, k, n) \in Seq(X) /\ Suffix(Use(q, k, n), Append(RemoveFirst(l, k), k))
         /\ Len(Use(q, k, n)) <= n
         /\ Len(q) = n \/ Len(q) = Len(l) =>
              Len(Use(q, k, n)) = n \/ Len(Use(q, k, n)) = Len(Append(RemoveFirst(l, k), k))
<1>1. Len(l) \in Nat /\ Len(q) \in Nat /\ Len(q) <= Len(l)
  BY LenProperties DEF Suffix
<1>2. PICK R \in Seq(X), r \in Seq(X) :
        /\ R = RemoveFirst(l, k) /\ r = RemoveFirst(q, k) /\ Suffix(r, R) /\ Len(r) <= n
        /\ Len(q) = n \/ Len(q) = Len(l) => Len(r) = n \/ Len(r) = Len(R) \/ Len(r) = n - 1
  <2>1. CASE \E p \in 1..Len(l) : l[p] = k
    <3>1. PICK p \in 1..Len(l) : l[p] = k
      BY <2>1
    <3>2. PICK R, r : R = RemoveFirst(l, k) /\ r = RemoveFirst(q, k)
      OBVIOUS
    <3>3. /\ r \in Seq(X) /\ R \in Seq(X) /\ Suffix(r, R) /\ Len(R) = Len(l) - 1
          /\ Len(r) \in {Len(q) - 1, Len(q)}
      <4>1. R \in Seq(X)
        BY <3>1, <3>2, RemoveOne
      <4>2. r \in Seq(X)
        BY <3>1, <3>2, RemoveSuffix
      <4>3. Suffix(r, R)
        BY <3>1, <3>2, RemoveSuffix
      <4>4. Len(R) = Len(l) - 1
        BY <3>1, <3>2, RemoveOne
      <4>5. Len(r) \in {Len(q) - 1, Len(q)}
        BY <3>1, <3>2, RemoveSuffix
      <4>. QED
        BY <4>1, <4>2, <4>3, <4>4, <4>5
    <3>4. /\ Len(r) <= n
          /\ Len(q) = n \/ Len(q) = Len(l) => Len(r) = n \/ Len(r) = Len(R) \/ Len(r) = n - 1
      <4>1. Len(r) <= Len(R)
        BY <3>3, Zenon DEF Suffix
      <4>. QED
        BY <1>1, <3>3, <4>1
    <3>. QED
      BY <3>2, <3>3, <3>4
  <2>2. CASE ~\E p \in 1..Len(l) : l[p] = k
    <3>1. PICK m \in Nat : m = Len(l) - Len(q)
      BY <1>1
    <3>2. \A i \in 1..Len(q) : q[i] = l[i + m] /\ i + m \in 1..Len(l)
      BY <1>1, <3>1 DEF Suffix
    <3>3. \A i \in 1..Len(q) : q[i] # k
      BY <2>2, <3>2
    <3>4. RemoveFirst(l, k) = l /\ RemoveFirst(q, k) = q
      BY <2>2, <3>3, RemoveNone
    <3>. QED
      BY <3>4
  <2>. QED
    BY <2>1, <2>2
<1>3. PICK a \in Seq(X), b \in Seq(X) : a = Append(r, k) /\ b = Append(R, k)
  BY AppendProperties
<1>4. /\ Suffix(a, b) /\ Len(a) = Len(r) + 1 /\ Len(b) = Len(R) + 1
      /\ Len(r) \in Nat /\ Len(R) \in Nat /\ a # <<>>
  <2>1. Len(a) = Len(r) + 1 /\ Len(b) = Len(R) + 1 /\ Len(r) \in Nat /\ Len(R) \in Nat
    BY <1>3, AppendProperties, LenProperties
  <2>2. Suffix(a, b)
    BY <1>2, <1>3, AppendSuffix
  <2>3. a # <<>>
    BY <2>1
  <2>. QED
    BY <2>1, <2>2, <2>3
<1>5. Use(q, k, n) = IF Len(a) > n THEN Tail(a) ELSE a
  BY <1>2, <1>3 DEF Use
<1>6. CASE Len(a) > n
  <2>1. Len(r) = n
    BY <1>2, <1>4, <1>6
  <2>2. PICK t \in Seq(X) : t = Tail(a) /\ Suffix(t, b) /\ Len(t) = n
    <3>1. Suffix(Tail(a), b) /\ Tail(a) \in Seq(X) /\ Len(Tail(a)) = Len(a) - 1
      BY <1>4, TailSuffix
    <3>2. Len(a) - 1 = n
      BY <1>4, <2>1
    <3>. QED
      BY <3>1, <3>2
  <2>. QED
    BY <1>2, <1>3, <1>5, <1>6, <2>2
<1>7. CASE ~(Len(a) > n)
  <2>1. Len(a) <= n /\ Len(r) # n
    BY <1>4, <1>7
  <2>2. Len(q) = n \/ Len(q) = Len(l) => Len(a) = n \/ Len(a) = Len(b)
    BY <1>2, <1>4, <2>1
  <2>. QED
    BY <1>2, <1>3, <1>4, <1>5, <1>7, <2>1, <2>2
<1>. QED
  BY <1>6, <1>7

-----------------------------------------------------------------------------
(***************************************************************************)
(* The invariant.  Lists: a key is in the tree of its class and in no      *)
(* other, once.  Queues: an LRU queue is the end of the tree of its class, *)
(* and the longest that there is room for unless a key has changed class.  *)
(***************************************************************************)
TypedProfile ==
  /\ keyNodeMap \in [Key -> Class \cup {Unknown}]
  /\ rd_tree \in [Class -> Seq(Key)]
  /\ rd_hist \in [Class -> Seq(Nat)]

Typed ==
  /\ TypedProfile
  /\ resident \in [Class -> [Capacity -> Seq(Key)]]
  /\ hits \in [Class -> [Capacity -> Nat]]
  /\ moved \in BOOLEAN

Listed(s, map, c) ==
  /\ s \in Seq(Key) /\ Distinct(s)
  /\ \A i \in 1..Len(s) : map[s[i]] = c
  /\ \A k \in Key : map[k] = c => \E i \in 1..Len(s) : s[i] = k

Lists == \A c \in Class : Listed(rd_tree[c], keyNodeMap, c)

Ends(q, l, n, lost) ==
  /\ Suffix(q, l) /\ Len(q) <= n
  /\ ~lost => Len(q) = n \/ Len(q) = Len(l)

Queues == \A c \in Class, n \in Capacity : Ends(resident[c][n], rd_tree[c], n, moved)

Predicts(hist, n, h, lost) == h <= Within(hist, n) /\ (~lost => h = Within(hist, n))

Hits == \A c \in Class, n \in Capacity : Predicts(rd_hist[c], n, hits[c][n], moved)

LruInv == Typed /\ Lists /\ Queues /\ Hits

\* A key that is not of this class is not in the tree.
LEMMA NotListed ==
  ASSUME NEW s, NEW map, NEW c, Listed(s, map, c), NEW k \in Key, map[k] # c
  PROVE  (\A i \in 1..Len(s) : s[i] # k) /\ RemoveFirst(s, k) = s
<1>1. \A i \in 1..Len(s) : s[i] # k
  BY DEF Listed
<1>. QED
  BY <1>1, RemoveNone DEF Listed

Left(r, map, k, c) ==
  /\ r \in Seq(Key) /\ Distinct(r)
  /\ \A i \in 1..Len(r) : r[i] # k /\ map[r[i]] = c
  /\ \A j \in Key : j # k /\ map[j] = c => \E i \in 1..Len(r) : r[i] = j

\* The tree that the key has left.
LEMMA ListLeft ==
  ASSUME NEW s \in Seq(Key), NEW map \in [Key -> Class \cup {Unknown}], NEW c, Listed(s, map, c), NEW k \in Key
  PROVE  Left(RemoveFirst(s, k), map, k, c)
<1>1. s \in Seq(Key) /\ Distinct(s)
  BY DEF Listed
<1>2. CASE map[k] = c
  <2>1. PICK p \in 1..Len(s) : s[p] = k
    BY <1>2 DEF Listed
  <2>2. PICK r \in Seq(Key) : r = RemoveFirst(s, k) /\ Len(r) = Len(s) - 1
    BY <1>1, <2>1, RemoveOne
  <2>3. /\ \A i \in 1..Len(r) : r[i] # k
        /\ \A i \in 1..Len(r) : \E j \in 1..Len(s) : r[i] = s[j]
        /\ \A j \in 1..Len(s) : j # p => \E i \in 1..Len(r) : r[i] = s[j]
        /\ Distinct(r)
    <3>1. ASSUME NEW i \in 1..Len(r) PROVE r[i] # k /\ \E j \in 1..Len(s) : r[i] = s[j]
      <4>1. i \in 1..(Len(s) - 1)
        BY <2>2
      <4>2. RemoveFirst(s, k)[i] # k /\ \E j \in 1..Len(s) : RemoveFirst(s, k)[i] = s[j]
        BY <1>1, <2>1, <4>1, RemoveLeaves
      <4>. QED
        BY <2>2, <4>2, Zenon
    <3>2. ASSUME NEW j \in 1..Len(s), j # p PROVE \E i \in 1..Len(r) : r[i] = s[j]
      <4>1. \E i \in 1..(Len(s) - 1) : RemoveFirst(s, k)[i] = s[j]
        BY <1>1, <2>1, <3>2, RemoveKeeps
      <4>. QED
        BY <2>2, <4>1
    <3>3. Distinct(r)
      BY <1>1, <2>1, <2>2, RemoveDistinct
    <3>. QED
      BY <3>1, <3>2, <3>3
  <2>4. \A i \in 1..Len(r) : map[r[i]] = c
    BY <2>3 DEF Listed
  <2>5. ASSUME NEW j \in Key, j # k, map[j] = c PROVE \E i \in 1..Len(r) : r[i] = j
    <3>1. PICK h \in 1..Len(s) : s[h] = j
      BY <2>5 DEF Listed
    <3>2. h # p
      BY <2>1, <2>5, <3>1
    <3>. QED
      BY <2>3, <3>1, <3>2
  <2>6. Left(r, map, k, c)
    BY <2>3, <2>4, <2>5 DEF Left
  <2>. QED
    BY <2>2, <2>6, Zenon
<1>3. CASE map[k] # c
  <2>1. RemoveFirst(s, k) = s /\ \A i \in 1..Len(s) : s[i] # k
    BY <1>3, NotListed
  <2>2. Left(s, map, k, c)
    BY <2>1 DEF Listed, Left
  <2>. QED
    BY <2>1, <2>2, Zenon
<1>. QED
  BY <1>2, <1>3

\* The tree that the key has entered.
LEMMA ListEntered ==
  ASSUME NEW r \in Seq(Key), NEW map \in [Key -> Class \cup {Unknown}], NEW c, NEW k \in Key,
         Left(r, map, k, c),
         NEW to, to[k] = c, \A j \in Key : j # k => to[j] = map[j]
  PROVE  Listed(Append(r, k), to, c)
<1>1. PICK s \in Seq(Key) : s = Append(r, k)
  BY AppendProperties
<1>2. /\ Len(s) = Len(r) + 1 /\ s[Len(r) + 1] = k /\ \A i \in 1..Len(r) : s[i] = r[i]
      /\ Len(r) \in Nat /\ DOMAIN s = 1..(Len(r) + 1) /\ DOMAIN r = 1..Len(r)
  BY <1>1
<1>3. \A i \in 1..Len(s) : i = Len(r) + 1 \/ i \in 1..Len(r)
  BY <1>2
<1>4. Distinct(s)
  <2>1. ASSUME NEW i \in 1..Len(s), NEW j \in 1..Len(s), s[i] = s[j] PROVE i = j
    <3>1. CASE i \in 1..Len(r) /\ j \in 1..Len(r)
      BY <1>2, <2>1, <3>1 DEF Distinct, Left
    <3>2. CASE i \in 1..Len(r) /\ j = Len(r) + 1
      BY <1>2, <2>1, <3>2 DEF Left
    <3>3. CASE i = Len(r) + 1 /\ j \in 1..Len(r)
      BY <1>2, <2>1, <3>3 DEF Left
    <3>4. CASE i = Len(r) + 1 /\ j = Len(r) + 1
      BY <3>4
    <3>. QED
      BY <1>3, <3>1, <3>2, <3>3, <3>4
  <2>. QED
    BY <1>2, <2>1 DEF Distinct
<1>5. ASSUME NEW i \in 1..Len(s) PROVE to[s[i]] = c
  <2>1. CASE i = Len(r) + 1
    BY <1>2, <2>1
  <2>2. CASE i \in 1..Len(r)
    <3>1. s[i] = r[i] /\ r[i] \in Key
      BY <1>2, <2>2
    <3>. QED
      BY <2>2, <3>1 DEF Left
  <2>. QED
    BY <1>3, <2>1, <2>2
<1>6. ASSUME NEW j \in Key, to[j] = c PROVE \E i \in 1..Len(s) : s[i] = j
  <2>1. CASE j = k
    <3>1. Len(r) + 1 \in 1..Len(s)
      BY <1>2
    <3>. QED
      BY <1>2, <2>1, <3>1
  <2>2. CASE j # k
    <3>1. PICK i \in 1..Len(r) : r[i] = j
      BY <1>6, <2>2 DEF Left
    <3>2. i \in 1..Len(s) /\ s[i] = j
      BY <1>2, <3>1
    <3>. QED
      BY <3>2
  <2>. QED
    BY <2>1, <2>2
<1>. QED
  BY <1>1, <1>4, <1>5, <1>6 DEF Listed


\* A key is moved to the end of the tree of a class.
LEMMA MovedTrees ==
  ASSUME TypedProfile, Lists, NEW k \in Key, NEW c \in Class, MoveToTail(k, c)
  PROVE  /\ keyNodeMap' \in [Key -> Class \cup {Unknown}]
         /\ rd_tree' \in [Class -> Seq(Key)]
         /\ rd_tree'[c] = Append(RemoveFirst(rd_tree[c], k), k)
         /\ \A d \in Class : d # c => rd_tree'[d] = RemoveFirst(rd_tree[d], k)
         /\ \A d \in Class : Listed(rd_tree'[d], keyNodeMap', d)
<1>1. PICK map \in [Key -> Class \cup {Unknown}], to \in [Key -> Class \cup {Unknown}] :
        /\ map = keyNodeMap /\ to = keyNodeMap' /\ to = [map EXCEPT ![k] = c]
  BY DEF TypedProfile, MoveToTail
<1>2. PICK left : left = [d \in Class |-> IF d = map[k] THEN RemoveFirst(rd_tree[d], k) ELSE rd_tree[d]]
  OBVIOUS
<1>3. rd_tree' = [left EXCEPT ![c] = Append(left[c], k)]
  BY <1>1, <1>2, Zenon DEF MoveToTail
<1>4. ASSUME NEW d \in Class
      PROVE  left[d] = RemoveFirst(rd_tree[d], k) /\ left[d] \in Seq(Key) /\ Left(left[d], map, k, d)
  <2>1. PICK s \in Seq(Key) : s = rd_tree[d] /\ Listed(s, map, d)
    BY <1>1 DEF TypedProfile, Lists
  <2>2. left[d] = RemoveFirst(s, k)
    <3>1. CASE d = map[k]
      BY <1>2, <2>1, <3>1
    <3>2. CASE d # map[k]
      <4>1. RemoveFirst(s, k) = s
        BY <2>1, <3>2, NotListed
      <4>. QED
        BY <1>2, <2>1, <3>2, <4>1
    <3>. QED
      BY <3>1, <3>2
  <2>3. Left(RemoveFirst(s, k), map, k, d)
    BY <2>1, ListLeft
  <2>4. RemoveFirst(s, k) \in Seq(Key)
    BY <2>3, Zenon DEF Left
  <2>. QED
    BY <2>1, <2>2, <2>3, <2>4, Zenon
<1>5. to[k] = c /\ \A j \in Key : j # k => to[j] = map[j]
  BY <1>1
<1>6. \A d \in Class : rd_tree'[d] = IF d = c THEN Append(left[c], k) ELSE left[d]
  BY <1>2, <1>3
<1>7. Listed(rd_tree'[c], to, c)
  <2>1. PICK r \in Seq(Key) : r = left[c]
    BY <1>4
  <2>2. Left(r, map, k, c)
    BY <1>4, <2>1, Zenon
  <2>3. Listed(Append(r, k), to, c)
    BY <1>5, <2>2, ListEntered
  <2>. QED
    BY <1>6, <2>1, <2>3, Zenon
<1>8. ASSUME NEW d \in Class, d # c PROVE Listed(rd_tree'[d], to, d)
  <2>1. PICK r \in Seq(Key) : r = left[d] /\ r = rd_tree'[d]
    BY <1>4, <1>6, <1>8
  <2>2. Left(r, map, k, d)
    BY <1>4, <2>1, Zenon
  <2>3. \A i \in 1..Len(r) : r[i] \in Key
    BY <2>1
  <2>4. \A i \in 1..Len(r) : to[r[i]] = d
    BY <1>5, <2>2, <2>3 DEF Left
  <2>5. \A j \in Key : to[j] = d => \E i \in 1..Len(r) : r[i] = j
    BY <1>5, <1>8, <2>2 DEF Left
  <2>. QED
    BY <2>1, <2>2, <2>4, <2>5, Zenon DEF Listed, Left
<1>9. \A d \in Class : Listed(rd_tree'[d], to, d) /\ rd_tree'[d] \in Seq(Key)
  <2>1. \A d \in Class : Listed(rd_tree'[d], to, d)
    BY <1>7, <1>8, Zenon
  <2>. QED
    BY <2>1, Zenon DEF Listed
<1>10. rd_tree' \in [Class -> Seq(Key)]
  <2>1. PICK t : t = rd_tree'
    OBVIOUS
  <2>2. \A d \in Class : t[d] \in Seq(Key)
    BY <1>9, <2>1
  <2>3. t = [d \in Class |-> t[d]]
    BY <1>2, <1>3, <2>1
  <2>. QED
    BY <2>1, <2>2, <2>3
<1>11. rd_tree'[c] = Append(RemoveFirst(rd_tree[c], k), k)
  BY <1>4, <1>6
<1>12. \A d \in Class : d # c => rd_tree'[d] = RemoveFirst(rd_tree[d], k)
  BY <1>4, <1>6
<1>. QED
  BY <1>1, <1>9, <1>10, <1>11, <1>12, Zenon

-----------------------------------------------------------------------------
(* What a request does to a queue of the class. *)

LEMMA EndsUsed ==
  ASSUME NEW l \in Seq(Key), NEW q \in Seq(Key), Distinct(l), NEW n \in Capacity, NEW k \in Key,
         NEW lost \in BOOLEAN, Ends(q, l, n, lost)
  PROVE  Use(q, k, n) \in Seq(Key) /\ Ends(Use(q, k, n), Append(RemoveFirst(l, k), k), n, lost)
<1>1. n \in Nat \ {0}
  BY CapacityAssumption
<1>2. Suffix(q, l) /\ Len(q) <= n
  BY DEF Ends
<1>3. /\ Use(q, k, n) \in Seq(Key) /\ Suffix(Use(q, k, n), Append(RemoveFirst(l, k), k))
      /\ Len(Use(q, k, n)) <= n
      /\ Len(q) = n \/ Len(q) = Len(l) =>
           Len(Use(q, k, n)) = n \/ Len(Use(q, k, n)) = Len(Append(RemoveFirst(l, k), k))
  BY <1>1, <1>2, UseSuffix
<1>. QED
  BY <1>3, Zenon DEF Ends

LEMMA EndsLeft ==
  ASSUME NEW l \in Seq(Key), NEW q \in Seq(Key), Distinct(l), NEW n \in Capacity, NEW k \in Key,
         NEW lost \in BOOLEAN, Ends(q, l, n, lost), NEW p \in 1..Len(l), l[p] = k
  PROVE  RemoveFirst(q, k) \in Seq(Key) /\ Ends(RemoveFirst(q, k), RemoveFirst(l, k), n, TRUE)
<1>1. n \in Nat /\ Suffix(q, l) /\ Len(q) <= n /\ Len(q) \in Nat
  BY CapacityAssumption, LenProperties DEF Ends
<1>2. /\ RemoveFirst(q, k) \in Seq(Key) /\ Suffix(RemoveFirst(q, k), RemoveFirst(l, k))
      /\ Len(RemoveFirst(q, k)) \in {Len(q) - 1, Len(q)}
  BY <1>1, RemoveSuffix
<1>3. Len(RemoveFirst(q, k)) <= n
  BY <1>1, <1>2
<1>. QED
  BY <1>2, <1>3, Zenon DEF Ends

LEMMA EndsKept ==
  ASSUME NEW l \in Seq(Key), NEW q \in Seq(Key), NEW n \in Capacity, NEW k \in Key,
         NEW lost \in BOOLEAN, Ends(q, l, n, lost), \A i \in 1..Len(l) : l[i] # k
  PROVE  RemoveFirst(q, k) = q /\ RemoveFirst(l, k) = l
<1>1. PICK m \in Nat : /\ m = Len(l) - Len(q) /\ Len(l) \in Nat /\ Len(q) \in Nat
                        /\ \A i \in 1..Len(q) : q[i] = l[i + m] /\ i + m \in 1..Len(l)
  BY SuffixAt, Zenon DEF Ends
<1>2. \A i \in 1..Len(q) : q[i] = l[i + m] /\ i + m \in 1..Len(l)
  BY <1>1, Zenon
<1>3. \A i \in 1..Len(q) : q[i] # k
  BY <1>2
<1>. QED
  BY <1>3, RemoveNone

\* A measured get hits in the queue only if its distance is within it.
LEMMA HitCounted ==
  ASSUME NEW l \in Seq(Key), NEW q \in Seq(Key), Distinct(l), NEW n \in Capacity,
         NEW lost \in BOOLEAN, Ends(q, l, n, lost), NEW p \in 1..Len(l),
         NEW hist \in Seq(Nat), NEW h \in Nat, Predicts(hist, n, h, lost)
  PROVE  /\ Counted(hist, Len(l) + 1 - p) \in Seq(Nat)
         /\ h + (IF l[p] \in ToSet(q) THEN 1 ELSE 0) \in Nat
         /\ Predicts(Counted(hist, Len(l) + 1 - p), n, h + (IF l[p] \in ToSet(q) THEN 1 ELSE 0), lost)
<1>1. n \in Nat /\ Suffix(q, l) /\ Len(q) <= n /\ Len(q) \in Nat /\ Len(l) \in Nat /\ Len(q) <= Len(l)
  BY CapacityAssumption, LenProperties DEF Ends, Suffix
<1>2. PICK D \in Nat : D = Len(l) + 1 - p /\ D <= Len(l)
  <2>1. Len(l) + 1 - p \in Nat /\ Len(l) + 1 - p <= Len(l)
    BY <1>1
  <2>. QED
    BY <2>1
<1>3. l[p] \in ToSet(q) <=> D <= Len(q)
  BY <1>1, <1>2, SuffixHas
<1>4. PICK w \in Nat : w = Within(hist, n)
  BY <1>1, <1>2, WithinCounted
<1>5. PICK next : next = Counted(hist, D)
  OBVIOUS
<1>6. PICK hit : hit = h + (IF l[p] \in ToSet(q) THEN 1 ELSE 0)
  OBVIOUS
<1>7. next \in Seq(Nat) /\ Within(next, n) = w + (IF D <= n THEN 1 ELSE 0)
  <2>1. next \in Seq(Nat)
    BY <1>5, CountedIs
  <2>2. Within(next, n) = w + (IF D <= n THEN 1 ELSE 0)
    BY <1>1, <1>4, <1>5, WithinCounted
  <2>. QED
    BY <2>1, <2>2
<1>8. hit = h + (IF D <= Len(q) THEN 1 ELSE 0)
  BY <1>3, <1>6, Zenon
<1>9. h <= w /\ (~lost => h = w)
  BY <1>4, Zenon DEF Predicts
<1>10. ASSUME ~lost PROVE D <= Len(q) <=> D <= n
  <2>1. Len(q) = n \/ Len(q) = Len(l)
    BY <1>10, Zenon DEF Ends
  <2>. QED
    BY <1>1, <1>2, <2>1
<1>11. hit \in Nat /\ hit <= Within(next, n)
  BY <1>1, <1>2, <1>7, <1>8, <1>9
<1>12. ASSUME ~lost PROVE hit = Within(next, n)
  BY <1>1, <1>2, <1>7, <1>8, <1>9, <1>10, <1>12
<1>13. Predicts(next, n, hit, lost)
  BY <1>11, <1>12, Zenon DEF Predicts
<1>. QED
  BY <1>2, <1>5, <1>6, <1>7, <1>11, <1>13, Zenon

-----------------------------------------------------------------------------
(* The invariant of the steps. *)

LEMMA InvInit == ASSUME InitLru PROVE LruInv
<1>1. /\ keyNodeMap = [k \in Key |-> Unknown] /\ rd_tree = [c \in Class |-> <<>>]
      /\ rd_hist = [c \in Class |-> <<>>] /\ resident = [c \in Class |-> [n \in Capacity |-> <<>>]]
      /\ hits = [c \in Class |-> [n \in Capacity |-> 0]] /\ moved = FALSE
  BY DEF InitLru, InitProfile
<1>2. Typed
  <2>1. <<>> \in Seq(Key) /\ <<>> \in Seq(Nat)
    OBVIOUS
  <2>2. [n \in Capacity |-> <<>>] \in [Capacity -> Seq(Key)] /\ [n \in Capacity |-> 0] \in [Capacity -> Nat]
    BY <2>1
  <2>. QED
    BY <1>1, <2>1, <2>2 DEF Typed, TypedProfile
<1>3. Lists
  <2>1. ASSUME NEW c \in Class PROVE Listed(rd_tree[c], keyNodeMap, c)
    <3>1. rd_tree[c] = <<>> /\ Len(<<>>) = 0
      BY <1>1
    <3>2. \A k \in Key : keyNodeMap[k] # c
      BY <1>1, UnknownAssumption
    <3>3. Listed(<<>>, keyNodeMap, c)
      BY <3>2 DEF Listed, Distinct
    <3>. QED
      BY <3>1, <3>3
  <2>. QED
    BY <2>1 DEF Lists
<1>4. Queues
  <2>1. ASSUME NEW c \in Class, NEW n \in Capacity PROVE Ends(resident[c][n], rd_tree[c], n, moved)
    <3>1. rd_tree[c] = <<>> /\ resident[c][n] = <<>>
      BY <1>1
    <3>2. Ends(<<>>, <<>>, n, moved)
      BY CapacityAssumption DEF Ends, Suffix
    <3>. QED
      BY <3>1, <3>2, Zenon
  <2>. QED
    BY <2>1 DEF Queues
<1>5. Hits
  <2>1. ASSUME NEW n \in Capacity PROVE Within(<<>>, n) = 0
    <3>1. {i \in DOMAIN <<>> : i - 1 <= n} = {}
      OBVIOUS
    <3>2. Within(<<>>, n) = SumFunctionOnSet(<<>>, {})
      BY <3>1, Zenon DEF Within
    <3>. QED
      BY <3>2, SumEmpty
  <2>2. \A c \in Class, n \in Capacity : hits[c][n] = 0 /\ rd_hist[c] = <<>>
    BY <1>1
  <2>3. ASSUME NEW c \in Class, NEW n \in Capacity PROVE Predicts(rd_hist[c], n, hits[c][n], moved)
    <3>1. hits[c][n] = 0 /\ Within(rd_hist[c], n) = 0
      BY <2>1, <2>2, Zenon
    <3>. QED
      BY <3>1 DEF Predicts
  <2>. QED
    BY <2>3, Zenon DEF Hits
<1>. QED
  BY <1>2, <1>3, <1>4, <1>5 DEF LruInv

LEMMA InvKept ==
  ASSUME LruInv, UNCHANGED <<keyNodeMap, rd_tree, rd_hist, resident, hits, moved>>
  PROVE  LruInv'
<1>1. /\ keyNodeMap' = keyNodeMap /\ rd_tree' = rd_tree /\ rd_hist' = rd_hist
      /\ resident' = resident /\ hits' = hits /\ moved' = moved
  OBVIOUS
<1>2. Typed'
  BY <1>1, Zenon DEF LruInv, Typed, TypedProfile
<1>3. Lists'
  BY <1>1, Zenon DEF LruInv, Lists
<1>4. Queues'
  <2>1. \A c \in Class, n \in Capacity : Ends(resident[c][n], rd_tree[c], n, moved)
    BY Zenon DEF LruInv, Queues
  <2>2. \A c \in Class, n \in Capacity : Ends(resident'[c][n], rd_tree'[c], n, moved')
    BY <1>1, <2>1, Zenon
  <2>. QED
    BY <2>2, Zenon DEF Queues
<1>5. Hits'
  <2>1. \A c \in Class, n \in Capacity : Predicts(rd_hist[c], n, hits[c][n], moved)
    BY Zenon DEF LruInv, Hits
  <2>2. \A c \in Class, n \in Capacity : Predicts(rd_hist'[c], n, hits'[c][n], moved')
    BY <1>1, <2>1, Zenon
  <2>. QED
    BY <2>2, Zenon DEF Hits
<1>. QED
  BY <1>2, <1>3, <1>4, <1>5, Zenon DEF LruInv

LEMMA InvSet ==
  ASSUME LruInv, NEW k \in Key, NEW c \in Class, Set(k, c)
  PROVE  LruInv'
<1>1. Typed /\ TypedProfile /\ Lists /\ Queues /\ Hits
  BY DEF LruInv, Typed
<1>2. /\ MoveToTail(k, c) /\ rd_hist' = rd_hist /\ hits' = hits
      /\ moved' = (moved \/ keyNodeMap[k] \notin {c, Unknown})
      /\ resident' = [d \in Class |-> [n \in Capacity |->
                        IF d = c THEN Use(resident[d][n], k, n)
                                 ELSE RemoveFirst(resident[d][n], k)]]
  BY DEF Set, profile_set
<1>3. /\ keyNodeMap' \in [Key -> Class \cup {Unknown}]
      /\ rd_tree' \in [Class -> Seq(Key)]
      /\ rd_tree'[c] = Append(RemoveFirst(rd_tree[c], k), k)
      /\ \A d \in Class : d # c => rd_tree'[d] = RemoveFirst(rd_tree[d], k)
      /\ \A d \in Class : Listed(rd_tree'[d], keyNodeMap', d)
  BY <1>1, <1>2, MovedTrees
<1>4. moved' \in BOOLEAN /\ (moved => moved')
  BY <1>1, <1>2 DEF Typed, TypedProfile
<1>5. ASSUME NEW d \in Class, NEW n \in Capacity
      PROVE  resident'[d][n] \in Seq(Key) /\ Ends(resident'[d][n], rd_tree'[d], n, moved')
  <2>1. PICK l \in Seq(Key), q \in Seq(Key) : l = rd_tree[d] /\ q = resident[d][n]
    BY <1>1 DEF Typed, TypedProfile
  <2>2. Listed(l, keyNodeMap, d) /\ Distinct(l) /\ Ends(q, l, n, moved)
    BY <1>1, <2>1, Zenon DEF Lists, Queues, Listed
  <2>3. Ends(q, l, n, moved') /\ moved' \in BOOLEAN
    <3>1. moved => moved'
      BY <1>4, Zenon
    <3>2. Ends(q, l, n, moved')
      BY <2>2, <3>1, Zenon DEF Ends
    <3>. QED
      BY <1>4, <3>2, Zenon
  <2>4. CASE d = c
    <3>1. resident'[d][n] = Use(q, k, n) /\ rd_tree'[d] = Append(RemoveFirst(l, k), k)
      BY <1>2, <1>3, <2>1, <2>4
    <3>2. Use(q, k, n) \in Seq(Key) /\ Ends(Use(q, k, n), Append(RemoveFirst(l, k), k), n, moved')
      BY <2>2, <2>3, EndsUsed
    <3>. QED
      BY <3>1, <3>2, Zenon
  <2>5. CASE d # c
    <3>1. resident'[d][n] = RemoveFirst(q, k) /\ rd_tree'[d] = RemoveFirst(l, k)
      BY <1>2, <1>3, <2>1, <2>5
    <3>2. CASE keyNodeMap[k] = d
      <4>1. PICK p \in 1..Len(l) : l[p] = k
        BY <2>2, <3>2 DEF Listed
      <4>2. RemoveFirst(q, k) \in Seq(Key) /\ Ends(RemoveFirst(q, k), RemoveFirst(l, k), n, TRUE)
        BY <2>2, <2>3, <4>1, EndsLeft
      <4>3. moved' = TRUE
        BY <1>2, <1>4, <2>5, <3>2, UnknownAssumption
      <4>4. Ends(RemoveFirst(q, k), RemoveFirst(l, k), n, moved')
        BY <4>2, <4>3, Zenon DEF Ends
      <4>. QED
        BY <3>1, <4>2, <4>4, Zenon
    <3>3. CASE keyNodeMap[k] # d
      <4>1. \A i \in 1..Len(l) : l[i] # k
        BY <2>2, <3>3, NotListed
      <4>2. RemoveFirst(q, k) = q /\ RemoveFirst(l, k) = l
        BY <2>3, <4>1, EndsKept
      <4>. QED
        BY <2>3, <3>1, <4>2, Zenon
    <3>. QED
      BY <3>2, <3>3
  <2>. QED
    BY <2>4, <2>5
<1>6. resident' \in [Class -> [Capacity -> Seq(Key)]]
  BY <1>2, <1>5
<1>7. Typed'
  BY <1>1, <1>2, <1>3, <1>4, <1>6 DEF Typed, TypedProfile
<1>8. Lists' /\ Queues'
  BY <1>3, <1>5 DEF Lists, Queues
<1>9. Hits'
  <2>1. \A d \in Class, n \in Capacity : Predicts(rd_hist[d], n, hits[d][n], moved)
    BY <1>1, Zenon DEF Hits
  <2>2. \A d \in Class, n \in Capacity : Predicts(rd_hist'[d], n, hits'[d][n], moved')
    BY <1>2, <1>4, <2>1, Zenon DEF Predicts
  <2>. QED
    BY <2>2, Zenon DEF Hits
<1>. QED
  BY <1>7, <1>8, <1>9 DEF LruInv

\* The distance of a key in a tree is counted from its end.
LEMMA DistanceIs ==
  ASSUME NEW k, NEW l \in Seq(Key), l = rd_tree[keyNodeMap[k]], Distinct(l), NEW p \in 1..Len(l), l[p] = k
  PROVE  Distance(k) = Len(l) + 1 - p
<1>1. \A i \in DOMAIN l : l[i] = k => i = p
  BY DEF Distinct
<1>2. p \in DOMAIN l
  OBVIOUS
<1>3. (CHOOSE i \in DOMAIN l : l[i] = k) = p
  BY <1>1, <1>2, Zenon
<1>4. Distance(k) = Len(l) + 1 - CHOOSE i \in DOMAIN l : l[i] = k
  BY Zenon DEF Distance
<1>. QED
  BY <1>3, <1>4, Zenon

LEMMA InvGet ==
  ASSUME LruInv, NEW k \in Key, Get(k)
  PROVE  LruInv'
<1>1. Typed /\ TypedProfile /\ Lists /\ Queues /\ Hits
  BY DEF LruInv, Typed
<1>2. PICK c : c = keyNodeMap[k]
  OBVIOUS
<1>3. moved' = moved /\ (c = Unknown \/ ~enable_trace' => resident' = resident /\ hits' = hits)
  BY <1>2 DEF Get
<1>4. CASE LastGet
  <2>1. enable_trace' = FALSE /\ UNCHANGED <<keyNodeMap, rd_tree, rd_hist>>
    BY <1>4 DEF LastGet
  <2>. QED
    BY <1>3, <2>1, InvKept
<1>5. CASE WindowGet(k) /\ c = Unknown
  <2>1. UNCHANGED <<keyNodeMap, rd_tree, rd_hist>>
    BY <1>2, <1>5 DEF WindowGet, RecordGet
  <2>. QED
    BY <1>3, <1>5, <2>1, InvKept
<1>6. CASE WindowGet(k) /\ c # Unknown
  <2>1. c \in Class
    BY <1>1, <1>2, <1>6 DEF Typed, TypedProfile
  <2>2. PICK m : m = enable_measure'
    OBVIOUS
  <2>3. /\ rd_hist' = IF m THEN [rd_hist EXCEPT ![c] = Counted(rd_hist[c], Distance(k))] ELSE rd_hist
        /\ MoveToTail(k, c)
    BY <1>2, <1>6, <2>2 DEF WindowGet, RecordGet
  <2>4. /\ resident' = [resident EXCEPT ![c] = [n \in Capacity |-> Use(resident[c][n], k, n)]]
        /\ hits' = [hits EXCEPT ![c] = [n \in Capacity |->
               hits[c][n] + IF m /\ k \in ToSet(resident[c][n]) THEN 1 ELSE 0]]
    <3>1. enable_trace'
      BY <1>6 DEF Get, WindowGet
    <3>. QED
      BY <1>2, <1>6, <2>2, <3>1 DEF Get
  <2>5. /\ keyNodeMap' \in [Key -> Class \cup {Unknown}]
        /\ rd_tree' \in [Class -> Seq(Key)]
        /\ rd_tree'[c] = Append(RemoveFirst(rd_tree[c], k), k)
        /\ \A d \in Class : d # c => rd_tree'[d] = RemoveFirst(rd_tree[d], k)
        /\ \A d \in Class : Listed(rd_tree'[d], keyNodeMap', d)
    BY <1>1, <2>1, <2>3, MovedTrees
  <2>6. \A d \in Class, n \in Capacity :
          resident'[d][n] = IF d = c THEN Use(resident[d][n], k, n) ELSE resident[d][n]
    BY <1>1, <2>4 DEF Typed, TypedProfile
  <2>7. moved \in BOOLEAN
    BY <1>1 DEF Typed, TypedProfile
  <2>8. ASSUME NEW d \in Class, NEW n \in Capacity
        PROVE  resident'[d][n] \in Seq(Key) /\ Ends(resident'[d][n], rd_tree'[d], n, moved)
    <3>1. PICK l \in Seq(Key), q \in Seq(Key) : l = rd_tree[d] /\ q = resident[d][n]
      BY <1>1 DEF Typed, TypedProfile
    <3>2. Listed(l, keyNodeMap, d) /\ Distinct(l) /\ Ends(q, l, n, moved)
      BY <1>1, <3>1, Zenon DEF Lists, Queues, Listed
    <3>3. CASE d = c
      <4>1. resident'[d][n] = Use(q, k, n) /\ rd_tree'[d] = Append(RemoveFirst(l, k), k)
        BY <2>5, <2>6, <3>1, <3>3
      <4>2. Use(q, k, n) \in Seq(Key) /\ Ends(Use(q, k, n), Append(RemoveFirst(l, k), k), n, moved)
        BY <2>7, <3>2, EndsUsed
      <4>. QED
        BY <4>1, <4>2, Zenon
    <3>4. CASE d # c
      <4>1. resident'[d][n] = q /\ rd_tree'[d] = RemoveFirst(l, k)
        BY <2>5, <2>6, <3>1, <3>4
      <4>2. RemoveFirst(l, k) = l
        BY <1>2, <3>2, <3>4, NotListed
      <4>. QED
        BY <3>2, <4>1, <4>2, Zenon
    <3>. QED
      BY <3>3, <3>4
  <2>9. resident' \in [Class -> [Capacity -> Seq(Key)]]
    <3>1. [n \in Capacity |-> Use(resident[c][n], k, n)] \in [Capacity -> Seq(Key)]
      BY <2>1, <2>6, <2>8
    <3>. QED
      BY <1>1, <2>4, <3>1 DEF Typed, TypedProfile
  <2>10. Lists' /\ Queues'
    <3>2. \A d \in Class, n \in Capacity : Ends(resident'[d][n], rd_tree'[d], n, moved')
      BY <1>3, <2>8, Zenon
    <3>. QED
      BY <2>5, <3>2 DEF Lists, Queues
  <2>20. PICK l \in Seq(Key) : l = rd_tree[c] /\ Listed(l, keyNodeMap, c)
    BY <1>1, <2>1 DEF Typed, TypedProfile, Lists
  <2>21. PICK p \in 1..Len(l) : l[p] = k
    BY <1>2, <2>20, Zenon DEF Listed
  <2>11. l = rd_tree[c] /\ Distinct(l) /\ l[p] = k
    BY <2>20, <2>21, Zenon DEF Listed
  <2>12. Distance(k) = Len(l) + 1 - p
    BY <1>2, <2>11, DistanceIs
  <2>13. CASE m
    <3>1. PICK next : next = Counted(rd_hist[c], Len(l) + 1 - p)
      OBVIOUS
    <3>2. rd_hist' = [rd_hist EXCEPT ![c] = next]
      BY <2>3, <2>12, <2>13, <3>1, Zenon
    <3>3. ASSUME NEW n \in Capacity
          PROVE  hits'[c][n] \in Nat /\ Predicts(next, n, hits'[c][n], moved)
      <4>1. PICK q \in Seq(Key), hist \in Seq(Nat), h \in Nat :
               q = resident[c][n] /\ hist = rd_hist[c] /\ h = hits[c][n]
        BY <1>1, <2>1 DEF Typed, TypedProfile
      <4>2. Ends(q, l, n, moved) /\ Predicts(hist, n, h, moved)
        BY <1>1, <2>1, <2>11, <4>1, Zenon DEF Queues, Hits
      <4>3. hits'[c][n] = h + (IF l[p] \in ToSet(q) THEN 1 ELSE 0)
        BY <1>1, <2>1, <2>4, <2>11, <2>13, <4>1 DEF Typed, TypedProfile
      <4>4. Distinct(l)
        BY <2>11
      <4>5. h + (IF l[p] \in ToSet(q) THEN 1 ELSE 0) \in Nat
        OBVIOUS
      <4>6. Predicts(Counted(hist, Len(l) + 1 - p), n, h + (IF l[p] \in ToSet(q) THEN 1 ELSE 0), moved)
        BY <2>7, <4>2, <4>4, HitCounted
      <4>. QED
        BY <3>1, <4>1, <4>3, <4>5, <4>6, Zenon
    <3>4. next \in Seq(Nat)
      <4>1. rd_hist[c] \in Seq(Nat) /\ Len(l) + 1 - p \in Nat
        BY <1>1, <2>1 DEF Typed, TypedProfile
      <4>. QED
        BY <3>1, <4>1, CountedIs
    <3>5. ASSUME NEW d \in Class, NEW n \in Capacity
          PROVE  hits'[d][n] \in Nat /\ Predicts(rd_hist'[d], n, hits'[d][n], moved)
      <4>1. CASE d = c
        <5>1. rd_hist'[d] = next
          BY <1>1, <3>2, <4>1 DEF Typed, TypedProfile
        <5>. QED
          BY <3>3, <4>1, <5>1, Zenon
      <4>2. CASE d # c
        <5>1. rd_hist'[d] = rd_hist[d] /\ hits'[d] = hits[d]
          BY <1>1, <2>4, <3>2, <4>2 DEF Typed, TypedProfile
        <5>2. hits[d][n] \in Nat
          BY <1>1 DEF Typed, TypedProfile
        <5>3. Predicts(rd_hist[d], n, hits[d][n], moved)
          BY <1>1, Zenon DEF Hits
        <5>. QED
          BY <5>1, <5>2, <5>3, Zenon
      <4>. QED
        BY <4>1, <4>2
    <3>6. Hits'
      <4>1. \A d \in Class, n \in Capacity : Predicts(rd_hist'[d], n, hits'[d][n], moved')
        BY <1>3, <3>5, Zenon
      <4>. QED
        BY <4>1, Zenon DEF Hits
    <3>7. rd_hist' \in [Class -> Seq(Nat)]
      BY <1>1, <3>2, <3>4 DEF Typed, TypedProfile
    <3>8. hits' \in [Class -> [Capacity -> Nat]]
      <4>1. PICK row : row = [n \in Capacity |->
               hits[c][n] + IF m /\ k \in ToSet(resident[c][n]) THEN 1 ELSE 0]
        OBVIOUS
      <4>2. row \in [Capacity -> Nat]
        <5>1. \A n \in Capacity : hits[c][n] \in Nat
          BY <1>1, <2>1 DEF Typed, TypedProfile
        <5>2. \A n \in Capacity : row[n] \in Nat
          BY <4>1, <5>1
        <5>. QED
          BY <4>1, <5>2
      <4>. QED
        BY <1>1, <2>4, <4>1, <4>2 DEF Typed, TypedProfile
    <3>9. Typed'
      BY <1>1, <1>3, <2>5, <2>9, <3>7, <3>8 DEF Typed, TypedProfile
    <3>. QED
      BY <2>10, <3>6, <3>9 DEF LruInv
  <2>14. CASE ~m
    <3>1. rd_hist' = rd_hist
      BY <2>3, <2>14
    <3>2. hits' = hits
      <4>1. \A n \in Capacity : hits[c][n] \in Nat
        BY <1>1, <2>1 DEF Typed, TypedProfile
      <4>2. [n \in Capacity |-> hits[c][n] + IF m /\ k \in ToSet(resident[c][n]) THEN 1 ELSE 0]
              = [n \in Capacity |-> hits[c][n]]
        BY <2>14, <4>1
      <4>3. hits[c] = [n \in Capacity |-> hits[c][n]]
        BY <1>1, <2>1 DEF Typed, TypedProfile
      <4>4. hits' = [hits EXCEPT ![c] = hits[c]]
        BY <2>4, <4>2, <4>3, Zenon
      <4>. QED
        BY <1>1, <4>4 DEF Typed, TypedProfile
    <3>3. Hits'
      <4>1. \A d \in Class, n \in Capacity : Predicts(rd_hist[d], n, hits[d][n], moved)
        BY <1>1, Zenon DEF Hits
      <4>2. \A d \in Class, n \in Capacity : Predicts(rd_hist'[d], n, hits'[d][n], moved')
        BY <1>3, <3>1, <3>2, <4>1, Zenon
      <4>. QED
        BY <4>2, Zenon DEF Hits
    <3>4. Typed'
      BY <1>1, <1>3, <2>5, <2>9, <3>1, <3>2 DEF Typed, TypedProfile
    <3>. QED
      BY <2>10, <3>3, <3>4 DEF LruInv
  <2>. QED
    BY <2>13, <2>14
<1>. QED
  BY <1>4, <1>5, <1>6 DEF Get, profile_get

\* A tree has the keys of its class, each in one place.
LEMMA InvMatches == ASSUME LruInv PROVE TreesMatchMap
<1>1. ASSUME NEW k \in Key, NEW c \in Class
      PROVE  Cardinality({i \in DOMAIN rd_tree[c] : rd_tree[c][i] = k})
               = IF keyNodeMap[k] = c THEN 1 ELSE 0
  <2>1. PICK l \in Seq(Key) : l = rd_tree[c] /\ Listed(l, keyNodeMap, c)
    BY DEF LruInv, Typed, TypedProfile, Lists
  <2>2. DOMAIN l = 1..Len(l)
    OBVIOUS
  <2>3. PICK P : P = {i \in DOMAIN l : l[i] = k}
    OBVIOUS
  <2>4. CASE keyNodeMap[k] = c
    <3>1. PICK p \in 1..Len(l) : l[p] = k
      BY <2>1, <2>4 DEF Listed
    <3>2. P = {p}
      BY <2>1, <2>2, <2>3, <3>1, Zenon DEF Listed, Distinct
    <3>3. Cardinality(P) = 1
      BY <3>2, FS_Singleton
    <3>. QED
      BY <2>1, <2>3, <2>4, <3>3, Zenon
  <2>5. CASE keyNodeMap[k] # c
    <3>1. P = {}
      BY <2>1, <2>2, <2>3, <2>5, NotListed
    <3>2. Cardinality(P) = 0
      BY <3>1, FS_EmptySet
    <3>. QED
      BY <2>1, <2>3, <2>5, <3>2, Zenon
  <2>. QED
    BY <2>4, <2>5
<1>. QED
  BY <1>1, Zenon DEF TreesMatchMap

\* LruCaches' HistogramIsLru, for every set of keys, classes and capacities and
\* every window.
THEOREM HistogramIsLruHolds == SpecLru => []HistogramIsLru
<1>1. InitLru => LruInv
  BY InvInit
<1>2. LruInv /\ [NextLru]_lruVars => LruInv'
  <2>1. ASSUME LruInv, NextLru PROVE LruInv'
    BY <2>1, InvGet, InvSet DEF NextLru
  <2>2. ASSUME LruInv, UNCHANGED lruVars PROVE LruInv'
    BY <2>2, InvKept DEF lruVars, profile
  <2>. QED
    BY <2>1, <2>2
<1>3. LruInv => HistogramIsLru
  <2>1. ASSUME LruInv PROVE HistogramIsLru
    <3>1. \A c \in Class, n \in Capacity : Predicted(c, n) = Within(rd_hist[c], n)
      BY Zenon DEF Predicted, Within
    <3>2. Hits /\ TreesMatchMap
      BY <2>1, InvMatches DEF LruInv
    <3>. QED
      BY <3>1, <3>2, Zenon DEF Hits, Predicts, HistogramIsLru
  <2>. QED
    BY <2>1
<1>. QED
  BY <1>1, <1>2, <1>3, PTL DEF SpecLru

\* The sum over two sets that have nothing in common.
LEMMA SumSplit ==
  ASSUME NEW f, NEW A, NEW B, IsFiniteSet(A), IsFiniteSet(B), A \cap B = {}, \A x \in A \cup B : f[x] \in Nat
  PROVE  SumFunctionOnSet(f, A \cup B) = SumFunctionOnSet(f, A) + SumFunctionOnSet(f, B)
<1>. DEFINE F == {s \in SUBSET A : SumFunctionOnSet(f, s \cup B) # SumFunctionOnSet(f, s) + SumFunctionOnSet(f, B)}
<1>. SUFFICES ASSUME F # {} PROVE FALSE
  OBVIOUS
<1>1. \A s \in F : IsFiniteSet(s)
  BY FS_Subset
<1>2. PICK T \in F : \A r \in F : Cardinality(T) <= Cardinality(r)
  BY <1>1, Smallest
<1>3. /\ IsFiniteSet(T) /\ T \in SUBSET A
      /\ SumFunctionOnSet(f, T \cup B) # SumFunctionOnSet(f, T) + SumFunctionOnSet(f, B)
  BY <1>1, <1>2
<1>4. SumFunctionOnSet(f, B) \in Nat
  BY SumTake
<1>5. CASE T = {}
  <2>1. SumFunctionOnSet(f, T) = 0 /\ T \cup B = B
    BY <1>5, SumEmpty
  <2>. QED
    BY <1>3, <1>4, <2>1
<1>6. CASE T # {}
  <2>0. PICK x \in T : TRUE
    BY <1>6
  <2>1. PICK r : r = T \ {x}
    OBVIOUS
  <2>2. r \in SUBSET A /\ IsFiniteSet(r) /\ ~(Cardinality(T) <= Cardinality(r))
    BY <1>3, <2>1, Without1
  <2>3. SumFunctionOnSet(f, r \cup B) = SumFunctionOnSet(f, r) + SumFunctionOnSet(f, B)
    BY <1>2, <2>2
  <2>4. PICK U : U = T \cup B
    OBVIOUS
  <2>5. IsFiniteSet(U) /\ x \in U /\ U \ {x} = r \cup B /\ \A y \in U : f[y] \in Nat
    <3>1. IsFiniteSet(U)
      BY <1>3, <2>4, FS_Union
    <3>. QED
      BY <1>3, <2>1, <2>4, <3>1
  <2>6. SumFunctionOnSet(f, U) = f[x] + SumFunctionOnSet(f, r \cup B)
    BY <2>5, SumTake
  <2>7. SumFunctionOnSet(f, T) = f[x] + SumFunctionOnSet(f, r)
    <3>1. \A y \in T : f[y] \in Nat
      BY <1>3
    <3>2. SumFunctionOnSet(f, T) = f[x] + SumFunctionOnSet(f, T \ {x})
      BY <1>3, <3>1, SumTake
    <3>. QED
      BY <2>1, <3>2
  <2>8. SumFunctionOnSet(f, r) \in Nat /\ f[x] \in Nat
    <3>1. \A y \in r : f[y] \in Nat
      BY <2>2
    <3>. QED
      BY <1>3, <2>1, <2>2, <3>1, SumTake
  <2>. QED
    BY <1>3, <1>4, <2>3, <2>4, <2>6, <2>7, <2>8
<1>. QED
  BY <1>5, <1>6

\* The sum of sums of two values each.
LEMMA SumAdd ==
  ASSUME NEW f, NEW g, NEW h, NEW S, IsFiniteSet(S),
         \A x \in S : f[x] \in Nat /\ g[x] \in Nat /\ h[x] = f[x] + g[x]
  PROVE  SumFunctionOnSet(h, S) = SumFunctionOnSet(f, S) + SumFunctionOnSet(g, S)
<1>. DEFINE F == {s \in SUBSET S : SumFunctionOnSet(h, s) # SumFunctionOnSet(f, s) + SumFunctionOnSet(g, s)}
<1>. SUFFICES ASSUME F # {} PROVE FALSE
  OBVIOUS
<1>1. \A s \in F : IsFiniteSet(s)
  BY FS_Subset
<1>2. PICK T \in F : \A r \in F : Cardinality(T) <= Cardinality(r)
  BY <1>1, Smallest
<1>3. /\ IsFiniteSet(T) /\ T \in SUBSET S
      /\ SumFunctionOnSet(h, T) # SumFunctionOnSet(f, T) + SumFunctionOnSet(g, T)
  BY <1>1, <1>2
<1>4. T # {}
  BY <1>3, SumEmpty
<1>0. PICK x \in T : TRUE
  BY <1>4
<1>5. PICK r : r = T \ {x}
  OBVIOUS
<1>6. r \in SUBSET S /\ IsFiniteSet(r) /\ ~(Cardinality(T) <= Cardinality(r))
  BY <1>3, <1>5, Without1
<1>7. SumFunctionOnSet(h, r) = SumFunctionOnSet(f, r) + SumFunctionOnSet(g, r)
  BY <1>2, <1>6
<1>8. \A y \in T : f[y] \in Nat /\ g[y] \in Nat /\ h[y] \in Nat /\ h[y] = f[y] + g[y]
  BY <1>3
<1>9. /\ SumFunctionOnSet(f, T) = f[x] + SumFunctionOnSet(f, r)
      /\ SumFunctionOnSet(g, T) = g[x] + SumFunctionOnSet(g, r)
      /\ SumFunctionOnSet(h, T) = h[x] + SumFunctionOnSet(h, r)
  <2>1. SumFunctionOnSet(f, T) = f[x] + SumFunctionOnSet(f, r)
    BY <1>3, <1>5, <1>8, SumTake
  <2>2. SumFunctionOnSet(g, T) = g[x] + SumFunctionOnSet(g, r)
    BY <1>3, <1>5, <1>8, SumTake
  <2>3. SumFunctionOnSet(h, T) = h[x] + SumFunctionOnSet(h, r)
    BY <1>3, <1>5, <1>8, SumTake
  <2>. QED
    BY <2>1, <2>2, <2>3
<1>10. SumFunctionOnSet(f, r) \in Nat /\ SumFunctionOnSet(g, r) \in Nat
  <2>1. \A y \in r : f[y] \in Nat /\ g[y] \in Nat
    BY <1>5, <1>8
  <2>. QED
    BY <1>6, <2>1, SumTake
<1>11. f[x] \in Nat /\ g[x] \in Nat /\ h[x] = f[x] + g[x]
  BY <1>5, <1>8
<1>. QED
  BY <1>3, <1>7, <1>9, <1>10, <1>11

-----------------------------------------------------------------------------
(***************************************************************************)
(* The curve.  misses is what the walk over the histograms has left of the *)
(* gets measured: Parts is what it has passed, Total what the histograms   *)
(* hold, and no more is in them than was measured.                         *)
(***************************************************************************)
Parts(hist, upto) == SumFunctionOnSet([c \in Class |-> SumFunctionOnSet(hist[c], 1..upto[c])], Class)

Total(hist) == Parts(hist, [c \in Class |-> Len(hist[c])])

Between(hist, from, to) ==
  SumFunctionOnSet([c \in Class |-> SumFunctionOnSet(hist[c], (from[c] + 1)..to[c])], Class)

LEMMA SumOfSome ==
  ASSUME NEW l \in Seq(Nat), NEW A, A \subseteq 1..Len(l)
  PROVE  IsFiniteSet(A) /\ SumFunctionOnSet(l, A) \in Nat
<1>1. IsFiniteSet(A)
  <2>1. Len(l) \in Nat
    BY LenProperties
  <2>. QED
    BY <2>1, SegmentFinite
<1>2. \A i \in A : l[i] \in Nat
  OBVIOUS
<1>. QED
  BY <1>1, <1>2, SumTake

\* The walk goes on: what it passes is added to what it has passed.
LEMMA PartsAdvance ==
  ASSUME NEW hist \in [Class -> Seq(Nat)], NEW from \in [Class -> Nat], NEW to \in [Class -> Nat],
         \A c \in Class : from[c] <= to[c] /\ to[c] <= Len(hist[c])
  PROVE  /\ Parts(hist, from) \in Nat /\ Between(hist, from, to) \in Nat
         /\ Parts(hist, to) = Parts(hist, from) + Between(hist, from, to)
<1>1. PICK f, g, h : /\ f = [c \in Class |-> SumFunctionOnSet(hist[c], 1..from[c])]
                     /\ g = [c \in Class |-> SumFunctionOnSet(hist[c], (from[c] + 1)..to[c])]
                     /\ h = [c \in Class |-> SumFunctionOnSet(hist[c], 1..to[c])]
  OBVIOUS
<1>2. ASSUME NEW c \in Class PROVE f[c] \in Nat /\ g[c] \in Nat /\ h[c] = f[c] + g[c]
  <2>1. PICK l \in Seq(Nat), m \in Nat, n \in Nat : l = hist[c] /\ m = from[c] /\ n = to[c]
    OBVIOUS
  <2>2. m <= n /\ n <= Len(l) /\ Len(l) \in Nat
    BY <2>1
  <2>3. PICK A, B : A = 1..m /\ B = (m + 1)..n
    OBVIOUS
  <2>4. A \subseteq 1..Len(l) /\ B \subseteq 1..Len(l) /\ A \cap B = {} /\ A \cup B = 1..n
    BY <2>2, <2>3
  <2>5. IsFiniteSet(A) /\ IsFiniteSet(B) /\ SumFunctionOnSet(l, A) \in Nat /\ SumFunctionOnSet(l, B) \in Nat
    BY <2>4, SumOfSome
  <2>6. \A i \in A \cup B : l[i] \in Nat
    BY <2>4
  <2>7. SumFunctionOnSet(l, A \cup B) = SumFunctionOnSet(l, A) + SumFunctionOnSet(l, B)
    BY <2>4, <2>5, <2>6, SumSplit
  <2>8. f[c] = SumFunctionOnSet(l, A) /\ g[c] = SumFunctionOnSet(l, B) /\ h[c] = SumFunctionOnSet(l, A \cup B)
    BY <1>1, <2>1, <2>3, <2>4
  <2>. QED
    BY <2>5, <2>7, <2>8, Zenon
<1>3. IsFiniteSet(Class)
  BY CurveAssumption
<1>4. SumFunctionOnSet(h, Class) = SumFunctionOnSet(f, Class) + SumFunctionOnSet(g, Class)
  BY <1>2, <1>3, SumAdd
<1>5. SumFunctionOnSet(f, Class) \in Nat /\ SumFunctionOnSet(g, Class) \in Nat
  BY <1>2, <1>3, SumTake
<1>. QED
  BY <1>1, <1>4, <1>5, Zenon DEF Parts, Between

\* No part is more than the whole.
LEMMA PartsWithin ==
  ASSUME NEW hist \in [Class -> Seq(Nat)], NEW upto \in [Class -> Nat], \A c \in Class : upto[c] <= Len(hist[c])
  PROVE  Parts(hist, upto) \in Nat /\ Total(hist) \in Nat /\ Parts(hist, upto) <= Total(hist)
<1>1. PICK all : all = [c \in Class |-> Len(hist[c])]
  OBVIOUS
<1>2. all \in [Class -> Nat] /\ \A c \in Class : upto[c] <= all[c] /\ all[c] <= Len(hist[c])
  <2>1. \A c \in Class : Len(hist[c]) \in Nat
    OBVIOUS
  <2>. QED
    BY <1>1, <2>1
<1>3. /\ Parts(hist, upto) \in Nat /\ Between(hist, upto, all) \in Nat
      /\ Parts(hist, all) = Parts(hist, upto) + Between(hist, upto, all)
  BY <1>2, PartsAdvance
<1>4. Total(hist) = Parts(hist, all)
  BY <1>1, Zenon DEF Total
<1>. QED
  BY <1>3, <1>4

LEMMA PartsNone ==
  ASSUME NEW hist, NEW upto, \A c \in Class : upto[c] = 0
  PROVE  Parts(hist, upto) = 0
<1>1. PICK f : f = [c \in Class |-> SumFunctionOnSet(hist[c], 1..upto[c])]
  OBVIOUS
<1>2. ASSUME NEW c \in Class PROVE f[c] = 0
  <2>1. 1..upto[c] = {}
    OBVIOUS
  <2>2. f[c] = SumFunctionOnSet(hist[c], {})
    BY <1>1, <2>1
  <2>. QED
    BY <2>2, SumEmpty
<1>3. SumFunctionOnSet(f, Class) = SumFunctionOnSet(f, {})
  <2>1. IsFiniteSet(Class) /\ {} \subseteq Class
    BY CurveAssumption
  <2>2. \A c \in Class : f[c] \in Nat
    BY <1>2
  <2>3. \A c \in Class \ {} : f[c] = 0
    BY <1>2
  <2>. QED
    BY <2>1, <2>2, <2>3, SumZeros
<1>4. SumFunctionOnSet(f, Class) = 0
  BY <1>3, SumEmpty
<1>. QED
  BY <1>1, <1>4, Zenon DEF Parts

LEMMA TotalIs ==
  ASSUME NEW hist, NEW f \in [Class -> Nat], \A c \in Class : f[c] = SumFunctionOnSet(hist[c], 1..Len(hist[c]))
  PROVE  Total(hist) = SumFunctionOnSet(f, Class)
<1>1. PICK all : all = [c \in Class |-> Len(hist[c])]
  OBVIOUS
<1>2. [c \in Class |-> SumFunctionOnSet(hist[c], 1..all[c])] = f
  BY <1>1
<1>. QED
  BY <1>1, <1>2, Zenon DEF Total, Parts

\* One more get in the histogram of one class.
CountedIn(hist, c, rd) == [hist EXCEPT ![c] = Counted(hist[c], rd)]

LEMMA TotalCounted ==
  ASSUME NEW hist \in [Class -> Seq(Nat)], NEW c \in Class, NEW rd \in Nat
  PROVE  /\ CountedIn(hist, c, rd) \in [Class -> Seq(Nat)]
         /\ Total(CountedIn(hist, c, rd)) = Total(hist) + 1
<1>. SUFFICES ASSUME NEW next, next = [hist EXCEPT ![c] = Counted(hist[c], rd)]
              PROVE  next \in [Class -> Seq(Nat)] /\ Total(next) = Total(hist) + 1
  BY Zenon DEF CountedIn
<1>0. PICK l \in Seq(Nat) : l = hist[c]
  OBVIOUS
<1>1. PICK m : l = hist[c] /\ m = Counted(l, rd)
  BY <1>0
<1>2. m \in Seq(Nat) /\ Len(m) \in Nat /\ Len(l) \in Nat /\ Len(l) <= Len(m) /\ rd + 1 \in 1..Len(m)
  BY <1>1, CountedIs, LenProperties
<1>3. SumFunctionOnSet(m, 1..Len(m)) = SumFunctionOnSet(l, 1..Len(l)) + 1
  <2>1. PICK n \in Nat : n = Len(m)
    BY <1>2
  <2>2. Within(m, n) = Within(l, n) + 1
    <3>1. Within(m, n) = Within(l, n) + (IF rd <= n THEN 1 ELSE 0)
      BY <1>1, WithinCounted
    <3>2. rd <= n
      BY <1>2, <2>1
    <3>. QED
      BY <3>1, <3>2
  <2>3. {i \in DOMAIN m : i - 1 <= n} = 1..Len(m) /\ {i \in DOMAIN l : i - 1 <= n} = 1..Len(l)
    BY <1>1, <1>2, <2>1
  <2>. QED
    BY <2>2, <2>3, Zenon DEF Within
<1>4. PICK f, g : /\ f = [d \in Class |-> SumFunctionOnSet(hist[d], 1..Len(hist[d]))]
                  /\ g = [d \in Class |-> SumFunctionOnSet(next[d], 1..Len(next[d]))]
  OBVIOUS
<1>5. next[c] = m /\ \A d \in Class \ {c} : next[d] = hist[d]
  BY <1>1
<1>6. g[c] = f[c] + 1 /\ \A d \in Class \ {c} : g[d] = f[d]
  BY <1>1, <1>3, <1>4, <1>5
<1>7. \A d \in Class : f[d] \in Nat
  <2>1. ASSUME NEW d \in Class PROVE f[d] \in Nat
    <3>1. PICK k \in Seq(Nat) : k = hist[d]
      OBVIOUS
    <3>2. SumFunctionOnSet(k, 1..Len(k)) \in Nat
      BY SumOfSome
    <3>. QED
      BY <1>4, <3>1, <3>2
  <2>. QED
    BY <2>1
<1>8. SumFunctionOnSet(g, Class) = SumFunctionOnSet(f, Class) + 1
  <2>1. IsFiniteSet(Class)
    BY CurveAssumption
  <2>. QED
    BY <1>6, <1>7, <2>1, SumMore
<1>9. f \in [Class -> Nat] /\ \A d \in Class : f[d] = SumFunctionOnSet(hist[d], 1..Len(hist[d]))
  BY <1>4, <1>7
<1>10. g \in [Class -> Nat] /\ \A d \in Class : g[d] = SumFunctionOnSet(next[d], 1..Len(next[d]))
  <2>1. ASSUME NEW d \in Class PROVE g[d] \in Nat
    <3>1. f[d] \in Nat
      BY <1>7
    <3>2. g[d] = f[d] + 1 \/ g[d] = f[d]
      BY <1>6
    <3>. QED
      BY <3>1, <3>2
  <2>. QED
    BY <1>4, <2>1
<1>12. Total(next) = SumFunctionOnSet(g, Class)
  BY <1>10, TotalIs, Zenon
<1>13. Total(hist) = SumFunctionOnSet(f, Class)
  BY <1>9, TotalIs, Zenon
<1>11. next \in [Class -> Seq(Nat)]
  BY <1>1, <1>2
<1>. QED
  BY <1>8, <1>12, <1>13, <1>11, Zenon

LEMMA DivNat == ASSUME NEW a \in Nat, NEW b \in Nat \ {0} PROVE a \div b \in Nat
OBVIOUS

LEMMA ModNat == ASSUME NEW a \in Nat, NEW b \in Nat \ {0} PROVE a % b \in Nat /\ a % b \in 0..(b - 1)
OBVIOUS

LEMMA TimesNat == ASSUME NEW a \in Nat, NEW b \in Nat PROVE a * b \in Nat
OBVIOUS

ProfileInv == TypedProfile /\ Lists /\ Total(rd_hist) <= get_count

CurveInv ==
  /\ Len(reque) <= QueueBound
  /\ consumer \in {"sleep", "poll", "drain", "curve", "forget", "done", "crashed"}
  /\ slab_count \in [Class -> SlabCounts \cup {0}]
  /\ index \in [Class -> Nat] /\ misses \in 0..prof_len
  /\ cache_size_base \in 0..(Word - 1) /\ cache_size_power \in 0..(Word - 1)
  /\ \A s \in DOMAIN mrc : mrc[s] \in 0..prof_len
  /\ consumer \in {"curve", "forget"} =>
       /\ \A c \in Class : index[c] <= Len(rd_hist[c])
       /\ misses = get_count - Parts(rd_hist, index)

LEMMA WindowCount == ASSUME WindowInv PROVE get_count \in 0..prof_len /\ ltime \in 0..prof_len
BY LengthsAssumption DEF WindowInv, Measured

LEMMA EmptyList ==
  ASSUME NEW map, map = [k \in Key |-> Unknown], NEW c \in Class
  PROVE  Listed(<<>>, map, c)
<1>1. \A k \in Key : map[k] # c
  BY UnknownAssumption
<1>. QED
  BY <1>1 DEF Listed, Distinct

LEMMA EmptyProfile ==
  ASSUME NEW map, NEW tree, NEW hist, map = [k \in Key |-> Unknown],
         tree = [c \in Class |-> <<>>], hist = [c \in Class |-> <<>>]
  PROVE  /\ map \in [Key -> Class \cup {Unknown}] /\ tree \in [Class -> Seq(Key)]
         /\ hist \in [Class -> Seq(Nat)] /\ \A c \in Class : Listed(tree[c], map, c)
         /\ Total(hist) = 0
<1>1. map \in [Key -> Class \cup {Unknown}]
  OBVIOUS
<1>2. <<>> \in Seq(Key) /\ <<>> \in Seq(Nat) /\ Len(<<>>) = 0
  OBVIOUS
<1>3. tree \in [Class -> Seq(Key)] /\ hist \in [Class -> Seq(Nat)]
  BY <1>2
<1>4. \A c \in Class : Listed(tree[c], map, c)
  BY EmptyList
<1>5. PICK all : all = [c \in Class |-> Len(hist[c])]
  OBVIOUS
<1>6. \A c \in Class : all[c] = 0
  BY <1>2, <1>5
<1>7. Parts(hist, all) = 0
  BY <1>6, PartsNone
<1>. QED
  BY <1>1, <1>3, <1>4, <1>5, <1>7, Zenon DEF Total

LEMMA ProfileInit == ASSUME Init PROVE ProfileInv
<1>1. /\ keyNodeMap = [k \in Key |-> Unknown] /\ rd_tree = [c \in Class |-> <<>>]
      /\ rd_hist = [c \in Class |-> <<>>] /\ get_count = 0
  BY DEF Init, InitProfile
<1>2. TypedProfile /\ Lists /\ Total(rd_hist) = 0
  BY <1>1, EmptyProfile, Zenon DEF TypedProfile, Lists
<1>. QED
  BY <1>1, <1>2 DEF ProfileInv

LEMMA CurveInit == ASSUME Init PROVE CurveInv
<1>1. /\ reque = <<>> /\ consumer = "sleep" /\ slab_count = [c \in Class |-> 0]
      /\ index = [c \in Class |-> 0] /\ misses = 0 /\ cache_size_base = 0 /\ cache_size_power = 0
      /\ mrc = <<>>
  BY DEF Init
<1>2. Len(reque) = 0 /\ QueueBound \in Nat /\ Word \in Nat \ {0} /\ prof_len \in Nat
  BY <1>1, CurveAssumption, LengthsAssumption
<1>3. Len(reque) <= QueueBound /\ 0 \in 0..prof_len /\ 0 \in 0..(Word - 1)
  BY <1>2
<1>4. \A s \in DOMAIN mrc : mrc[s] \in 0..prof_len
  BY <1>1
<1>5. slab_count \in [Class -> SlabCounts \cup {0}] /\ index \in [Class -> Nat]
  BY <1>1
<1>6. consumer \notin {"curve", "forget"} /\ consumer \in {"sleep", "poll", "drain", "curve", "forget", "done", "crashed"}
  BY <1>1
<1>. QED
  BY <1>1, <1>3, <1>4, <1>5, <1>6, Zenon DEF CurveInv

\* A request moves its key, and a measured get enters its histogram.
LEMMA ProfileOfSet ==
  ASSUME ProfileInv, NEW k \in Key, NEW c \in Class, profile_set(k, c)
  PROVE  ProfileInv'
<1>1. TypedProfile /\ Lists /\ MoveToTail(k, c) /\ rd_hist' = rd_hist /\ get_count' = get_count
  BY DEF ProfileInv, profile_set, window
<1>2. /\ keyNodeMap' \in [Key -> Class \cup {Unknown}] /\ rd_tree' \in [Class -> Seq(Key)]
      /\ \A d \in Class : Listed(rd_tree'[d], keyNodeMap', d)
  BY <1>1, MovedTrees
<1>3. TypedProfile' /\ Lists'
  BY <1>1, <1>2, Zenon DEF TypedProfile, Lists
<1>4. Total(rd_hist') <= get_count'
  BY <1>1, Zenon DEF ProfileInv
<1>. QED
  BY <1>3, <1>4, Zenon DEF ProfileInv

LEMMA ProfileOfGet ==
  ASSUME ProfileInv, get_count \in Nat, NEW k \in Key, profile_get(k)
  PROVE  ProfileInv'
<1>1. TypedProfile /\ Lists /\ Total(rd_hist) <= get_count
  BY DEF ProfileInv
<1>2. Total(rd_hist) \in Nat
  <2>1. PICK none : none = [c \in Class |-> 0]
    OBVIOUS
  <2>2. none \in [Class -> Nat] /\ \A c \in Class : none[c] <= Len(rd_hist[c])
    BY <1>1, <2>1 DEF TypedProfile
  <2>. QED
    BY <1>1, <2>2, PartsWithin DEF TypedProfile
<1>3. CASE /\ UNCHANGED <<keyNodeMap, rd_tree, rd_hist>>
           /\ get_count' = get_count \/ get_count' = get_count + 1
  <2>1. TypedProfile' /\ Lists'
    BY <1>1, <1>3, Zenon DEF TypedProfile, Lists
  <2>2. Total(rd_hist') = Total(rd_hist)
    BY <1>3, Zenon
  <2>3. Total(rd_hist') <= get_count'
    BY <1>1, <1>2, <1>3, <2>2
  <2>. QED
    BY <2>1, <2>3, Zenon DEF ProfileInv
<1>4. CASE WindowGet(k) /\ keyNodeMap[k] # Unknown
  <2>1. PICK c \in Class : c = keyNodeMap[k]
    BY <1>1, <1>4 DEF TypedProfile
  <2>2. /\ MoveToTail(k, c)
        /\ get_count' = IF enable_measure' THEN get_count + 1 ELSE get_count
        /\ rd_hist' = IF enable_measure' THEN [rd_hist EXCEPT ![c] = Counted(rd_hist[c], Distance(k))]
                                         ELSE rd_hist
    BY <1>4, <2>1 DEF WindowGet, RecordGet
  <2>3. /\ keyNodeMap' \in [Key -> Class \cup {Unknown}] /\ rd_tree' \in [Class -> Seq(Key)]
        /\ \A d \in Class : Listed(rd_tree'[d], keyNodeMap', d)
    BY <1>1, <2>2, MovedTrees
  <2>4. rd_hist' \in [Class -> Seq(Nat)] /\ Total(rd_hist') <= get_count'
    <3>1. CASE enable_measure'
      <4>1. PICK l \in Seq(Key) : l = rd_tree[c] /\ Listed(l, keyNodeMap, c)
        BY <1>1 DEF TypedProfile, Lists
      <4>2. PICK p \in 1..Len(l) : l[p] = k
        BY <2>1, <4>1, Zenon DEF Listed
      <4>3. Distance(k) = Len(l) + 1 - p
        BY <2>1, <4>1, <4>2, DistanceIs DEF Listed
      <4>4. PICK rd \in Nat : rd = Distance(k)
        <5>1. Len(l) + 1 - p \in Nat
          OBVIOUS
        <5>. QED
          BY <4>3, <5>1, Zenon
      <4>5. rd_hist' = [rd_hist EXCEPT ![c] = Counted(rd_hist[c], rd)] /\ get_count' = get_count + 1
        BY <2>2, <3>1, <4>4, Zenon
      <4>6. rd_hist' \in [Class -> Seq(Nat)] /\ Total(rd_hist') = Total(rd_hist) + 1
        <5>1. rd_hist \in [Class -> Seq(Nat)]
          BY <1>1 DEF TypedProfile
        <5>2. rd_hist' = CountedIn(rd_hist, c, rd)
          BY <4>5, Zenon DEF CountedIn
        <5>. QED
          BY <5>1, <5>2, TotalCounted
      <4>. QED
        BY <1>1, <1>2, <4>5, <4>6
    <3>2. CASE ~enable_measure'
      BY <1>1, <2>2, <3>2, Zenon DEF TypedProfile
    <3>. QED
      BY <3>1, <3>2
  <2>. QED
    BY <2>3, <2>4, Zenon DEF ProfileInv, TypedProfile, Lists
<1>5. CASE LastGet
  BY <1>3, <1>5, Zenon DEF LastGet
<1>6. CASE WindowGet(k) /\ keyNodeMap[k] = Unknown
  <2>1. UNCHANGED <<keyNodeMap, rd_tree, rd_hist>>
    BY <1>6, Zenon DEF WindowGet, RecordGet
  <2>2. get_count' = get_count \/ get_count' = get_count + 1
    BY <1>6, Zenon DEF WindowGet
  <2>. QED
    BY <1>3, <2>1, <2>2
<1>. QED
  BY <1>4, <1>5, <1>6 DEF profile_get

\* alloc_slabs and cap of a class with that many slabs of so many, at a cache size.
AllocOf(base, slabs, total) ==
  LET share == ((base * slabs) % Word) \div total
  IN  IF share > 1 THEN share ELSE 1

CapOf(base, slabs, total, chunk) == ((AllocOf(base, slabs, total) * SlabBytes) % Word) \div chunk

LEMMA CapIs ==
  ASSUME NEW base \in Nat, NEW slabs \in Nat, NEW total \in Nat \ {0}, NEW chunk \in Nat \ {0}
  PROVE  AllocOf(base, slabs, total) \in Nat /\ CapOf(base, slabs, total, chunk) \in Nat
<1>1. Word \in Nat \ {0} /\ SlabBytes \in Nat
  BY CurveAssumption
<1>2. PICK t \in Nat : t = (base * slabs) % Word
  BY <1>1, TimesNat, ModNat
<1>3. PICK share \in Nat : share = t \div total
  BY DivNat
<1>4. AllocOf(base, slabs, total) = IF share > 1 THEN share ELSE 1
  BY <1>2, <1>3, Zenon DEF AllocOf
<1>5. PICK a \in Nat : a = AllocOf(base, slabs, total)
  BY <1>4
<1>6. PICK u \in Nat : u = (a * SlabBytes) % Word
  BY <1>1, TimesNat, ModNat
<1>7. u \div chunk \in Nat
  BY DivNat
<1>8. CapOf(base, slabs, total, chunk) = u \div chunk
  BY <1>5, <1>6, Zenon DEF CapOf
<1>. QED
  BY <1>5, <1>7, <1>8

\* Where the walk over a histogram stops is not before where it was, nor past its end.
LEMMA WalkIs ==
  ASSUME ProfileInv, CurveInv, total_slabs # 0, NEW c \in Class, index[c] <= Len(rd_hist[c])
  PROVE  /\ cap(c) = CapOf(cache_size_base, slab_count[c], total_slabs, chunk_size[c]) /\ cap(c) \in Nat
         /\ cache_size_base \in Nat /\ slab_count[c] \in Nat
         /\ total_slabs \in Nat \ {0} /\ chunk_size[c] \in Nat \ {0}
         /\ Walk(c) \in Nat /\ index[c] <= Walk(c) /\ Walk(c) <= Len(rd_hist[c])
<1>1. Word \in Nat \ {0} /\ chunk_size[c] \in Nat \ {0} /\ IsFiniteSet(Class)
  BY CurveAssumption
<1>2. slab_count \in [Class -> Nat]
  <2>1. SlabCounts \cup {0} \subseteq Nat
    BY CurveAssumption
  <2>2. slab_count \in [Class -> SlabCounts \cup {0}]
    BY DEF CurveInv
  <2>. QED
    BY <2>1, <2>2
<1>3. total_slabs \in Nat \ {0}
  <2>1. \A d \in Class : slab_count[d] \in Nat
    BY <1>2
  <2>2. SumFunctionOnSet(slab_count, Class) \in Nat
    BY <1>1, <2>1, SumTake
  <2>3. DOMAIN slab_count = Class
    BY <1>2
  <2>4. total_slabs \in Nat
    BY <2>2, <2>3, Zenon DEF total_slabs, SumFunction
  <2>. QED
    BY <2>4
<1>4. cache_size_base \in Nat /\ slab_count[c] \in Nat
  BY <1>1, <1>2 DEF CurveInv
<1>10. cap(c) = CapOf(cache_size_base, slab_count[c], total_slabs, chunk_size[c])
  BY Zenon DEF cap, alloc_slabs, CapOf, AllocOf
<1>11. chunk_size[c] \in Nat \ {0}
  BY <1>1
<1>12. CapOf(cache_size_base, slab_count[c], total_slabs, chunk_size[c]) \in Nat
  BY <1>3, <1>4, <1>11, CapIs, Zenon
<1>5. cap(c) \in Nat
  BY <1>10, <1>12, Zenon
<1>6. PICK k \in Nat, i \in Nat, n \in Nat : k = cap(c) /\ i = index[c] /\ n = Len(rd_hist[c])
  <2>1. index[c] \in Nat
    BY DEF CurveInv
  <2>2. Len(rd_hist[c]) \in Nat
    BY LenProperties DEF ProfileInv, TypedProfile
  <2>. QED
    BY <1>5, <2>1, <2>2
<1>7. Walk(c) = IF k + 1 > n THEN n ELSE IF k + 1 > i THEN k + 1 ELSE i
  BY <1>6, Zenon DEF Walk
<1>8. i <= n
  BY <1>6
<1>9. Walk(c) \in Nat /\ i <= Walk(c) /\ Walk(c) <= n
  BY <1>7, <1>8
<1>. QED
  BY <1>1, <1>3, <1>4, <1>5, <1>6, <1>9, <1>10, Zenon

\* A point of the curve: the walk goes on, and takes what it passes from the misses.
LEMMA PointIs ==
  ASSUME ProfileInv, WindowInv, CurveInv, CurvePoint
  PROVE  /\ index' \in [Class -> Nat] /\ \A c \in Class : index'[c] = Walk(c)
         /\ \A c \in Class : index'[c] <= Len(rd_hist[c])
         /\ misses' = get_count - Parts(rd_hist, index')
         /\ Parts(rd_hist, index') \in Nat /\ misses' \in 0..prof_len
<1>1. /\ consumer = "curve" /\ total_slabs # 0 /\ index' = [c \in Class |-> Walk(c)]
      /\ misses' = misses - SumFunction([c \in Class |-> Gets(c, index[c] + 1 .. Walk(c))])
  BY DEF CurvePoint
<1>2. index \in [Class -> Nat] /\ rd_hist \in [Class -> Seq(Nat)] /\ Total(rd_hist) <= get_count
  BY DEF CurveInv, ProfileInv, TypedProfile
<1>3. misses = get_count - Parts(rd_hist, index) /\ \A c \in Class : index[c] <= Len(rd_hist[c])
  BY <1>1 DEF CurveInv
<1>4. PICK to : to = [c \in Class |-> Walk(c)]
  OBVIOUS
<1>5. \A c \in Class : Walk(c) \in Nat /\ index[c] <= Walk(c) /\ Walk(c) <= Len(rd_hist[c])
  BY <1>1, <1>3, WalkIs, Zenon
<1>6. to \in [Class -> Nat] /\ \A c \in Class : index[c] <= to[c] /\ to[c] <= Len(rd_hist[c])
  BY <1>4, <1>5
<1>7. /\ Parts(rd_hist, index) \in Nat /\ Between(rd_hist, index, to) \in Nat
      /\ Parts(rd_hist, to) = Parts(rd_hist, index) + Between(rd_hist, index, to)
  BY <1>2, <1>6, PartsAdvance
<1>8. Parts(rd_hist, to) \in Nat /\ Total(rd_hist) \in Nat /\ Parts(rd_hist, to) <= Total(rd_hist)
  BY <1>2, <1>6, PartsWithin
<1>9. SumFunction([c \in Class |-> Gets(c, index[c] + 1 .. Walk(c))]) = Between(rd_hist, index, to)
  <2>1. PICK g : g = [c \in Class |-> SumFunctionOnSet(rd_hist[c], (index[c] + 1)..to[c])]
    OBVIOUS
  <2>2. [c \in Class |-> Gets(c, index[c] + 1 .. Walk(c))] = g
    <3>1. \A c \in Class : Gets(c, index[c] + 1 .. Walk(c)) = SumFunctionOnSet(rd_hist[c], (index[c] + 1)..to[c])
      BY <1>4, Zenon DEF Gets
    <3>. QED
      BY <2>1, <3>1
  <2>3. DOMAIN g = Class
    BY <2>1
  <2>. QED
    BY <2>1, <2>2, <2>3, Zenon DEF SumFunction, Between
<1>10. misses' = get_count - Parts(rd_hist, to)
  <2>1. misses' = misses - Between(rd_hist, index, to)
    BY <1>1, <1>9, Zenon
  <2>2. get_count \in 0..prof_len /\ prof_len \in Nat
    BY WindowCount, LengthsAssumption
  <2>. QED
    BY <1>3, <1>7, <2>1, <2>2
<1>11. misses' \in 0..prof_len
  <2>1. get_count \in 0..prof_len /\ prof_len \in Nat
    BY WindowCount, LengthsAssumption
  <2>. QED
    BY <1>2, <1>8, <1>10, <2>1
<1>12. index' = to /\ \A c \in Class : to[c] = Walk(c)
  BY <1>1, <1>4
<1>. QED
  BY <1>6, <1>8, <1>10, <1>11, <1>12, Zenon

LEMMA CurveOfPoint ==
  ASSUME ProfileInv, WindowInv, CurveInv, CurvePoint
  PROVE  CurveInv'
<1>1. /\ index' \in [Class -> Nat] /\ misses' \in 0..prof_len
      /\ \A c \in Class : index'[c] <= Len(rd_hist[c])
      /\ misses' = get_count - Parts(rd_hist, index')
  BY PointIs
<1>2. /\ rd_hist' = rd_hist /\ get_count' = get_count /\ reque' = reque /\ slab_count' = slab_count
      /\ consumer' \in {"forget", "curve"}
  BY DEF CurvePoint, profile, window
<1>3. PICK size : mrc' = [s \in DOMAIN mrc \cup {size} |-> IF s = size THEN misses' ELSE mrc[s]]
  BY DEF CurvePoint
<1>4. \A s \in DOMAIN mrc' : mrc'[s] \in 0..prof_len
  BY <1>1, <1>3 DEF CurveInv
<1>5. cache_size_base' \in 0..(Word - 1) /\ cache_size_power' \in 0..(Word - 1)
  <2>1. PICK W \in Nat \ {0}, b \in Nat, p \in Nat :
          W = Word /\ b = cache_size_base /\ p = cache_size_power /\ p \in 0..(W - 1)
    BY CurveAssumption DEF CurveInv
  <2>2. (2 * p) % W \in 0..(W - 1)
    BY ModNat
  <2>3. PICK q \in Nat : q = cache_size_power' /\ q \in 0..(W - 1)
    <3>1. cache_size_power' = (2 * p) % W \/ cache_size_power' = p
      BY <2>1 DEF CurvePoint
    <3>. QED
      BY <2>1, <2>2, <3>1
  <2>4. b + q \div 4 \in Nat
    OBVIOUS
  <2>5. (b + q \div 4) % W \in 0..(W - 1)
    BY <2>4, ModNat
  <2>6. cache_size_base' = (b + q \div 4) % W
    BY <2>1, <2>3, Zenon DEF CurvePoint
  <2>. QED
    BY <2>1, <2>3, <2>5, <2>6
<1>6. Len(reque') <= QueueBound /\ slab_count' \in [Class -> SlabCounts \cup {0}]
  BY <1>2, Zenon DEF CurveInv
<1>7. consumer' \in {"sleep", "poll", "drain", "curve", "forget", "done", "crashed"}
  BY <1>2
<1>8. (\A c \in Class : index'[c] <= Len(rd_hist'[c])) /\ misses' = get_count' - Parts(rd_hist', index')
  BY <1>1, <1>2, Zenon
<1>. QED
  BY <1>1, <1>4, <1>5, <1>6, <1>7, <1>8, Zenon DEF CurveInv

LEMMA CurveOfStart ==
  ASSUME ProfileInv, WindowInv, CurveInv, StartCurve
  PROVE  CurveInv'
<1>1. /\ slab_count' \in [Class -> SlabCounts] /\ index' = [c \in Class |-> 0] /\ misses' = get_count
      /\ cache_size_base' = FirstSize /\ cache_size_power' = FirstSize /\ mrc' = <<>>
      /\ consumer' = "curve" /\ rd_hist' = rd_hist /\ get_count' = get_count /\ reque' = reque
  BY DEF StartCurve, profile, window
<1>2. index' \in [Class -> Nat] /\ (\A c \in Class : index'[c] = 0) /\ slab_count' \in [Class -> SlabCounts \cup {0}]
  BY <1>1
<1>3. get_count \in 0..prof_len /\ get_count \in Nat
  BY WindowCount, LengthsAssumption
<1>4. Parts(rd_hist, index') = 0
  BY <1>2, PartsNone
<1>5. misses' = get_count' - Parts(rd_hist', index')
  BY <1>1, <1>3, <1>4
<1>6. \A c \in Class : index'[c] <= Len(rd_hist'[c])
  BY <1>1, <1>2 DEF ProfileInv, TypedProfile
<1>7. FirstSize \in 0..(Word - 1)
  BY CurveAssumption
<1>8. \A s \in DOMAIN mrc' : mrc'[s] \in 0..prof_len
  BY <1>1
<1>9. consumer' \in {"sleep", "poll", "drain", "curve", "forget", "done", "crashed"}
  BY <1>1
<1>10. Len(reque') <= QueueBound
  BY <1>1, Zenon DEF CurveInv
<1>. QED
  BY <1>1, <1>2, <1>3, <1>5, <1>6, <1>7, <1>8, <1>9, <1>10, Zenon DEF CurveInv

\* The curve stays as it was, and the queue holds what there is room for.
LEMMA CurveKept ==
  ASSUME CurveInv, UNCHANGED curve, Len(reque') <= QueueBound,
         consumer' \in {"sleep", "poll", "drain", "curve", "forget", "done", "crashed"},
         consumer' \in {"curve", "forget"} =>
           consumer \in {"curve", "forget"} /\ rd_hist' = rd_hist /\ get_count' = get_count
  PROVE  CurveInv'
<1>1. /\ slab_count' = slab_count /\ index' = index /\ misses' = misses /\ mrc' = mrc
      /\ cache_size_base' = cache_size_base /\ cache_size_power' = cache_size_power
  BY DEF curve
<1>2. ASSUME consumer' \in {"curve", "forget"}
      PROVE  (\A c \in Class : index'[c] <= Len(rd_hist'[c])) /\ misses' = get_count' - Parts(rd_hist', index')
  BY <1>1, <1>2, Zenon DEF CurveInv
<1>. QED
  BY <1>1, <1>2, Zenon DEF CurveInv

LEMMA ProfilerNext ==
  ASSUME WindowInv, LateInv, ProfileInv, CurveInv, [Next]_vars
  PROVE  ProfileInv' /\ CurveInv'
<1>1. get_count \in Nat /\ Len(reque) <= QueueBound /\ reque \in Seq(Request)
  BY WindowCount, LengthsAssumption DEF CurveInv, LateInv
<1>2. ASSUME UNCHANGED <<keyNodeMap, rd_tree, rd_hist, get_count>> PROVE ProfileInv'
  <2>1. TypedProfile' /\ Lists' /\ Total(rd_hist') <= get_count'
    BY <1>2, Zenon DEF ProfileInv, TypedProfile, Lists
  <2>. QED
    BY <2>1, Zenon DEF ProfileInv
<1>. DEFINE Same == UNCHANGED <<keyNodeMap, rd_tree, rd_hist, get_count>>
<1>3. CASE \E w \in Worker, req \in Request : Trace(w, req)
  <2>1. Same /\ UNCHANGED <<curve, reque, consumer>>
    BY <1>3 DEF Trace, profile, window
  <2>. QED
    BY <1>1, <1>2, <2>1, CurveKept, Zenon DEF CurveInv
<1>4. CASE \E w \in Worker : reque_push(w)
  <2>1. PICK w \in Worker : reque_push(w)
    BY <1>4
  <2>2. Same /\ UNCHANGED <<curve, consumer>> /\ reque' = Append(reque, pending[w]) /\ Len(reque) < QueueBound
    BY <2>1 DEF reque_push, profile, window
  <2>3. Len(reque') <= QueueBound
    <3>1. Len(reque') = Len(reque) + 1 /\ Len(reque) \in Nat
      BY <1>1, <2>2, AppendProperties, LenProperties
    <3>. QED
      BY <2>2, <3>1, CurveAssumption
  <2>4. consumer \in {"sleep", "poll", "drain", "curve", "forget", "done", "crashed"}
    BY DEF CurveInv
  <2>5. CurveInv'
    BY <2>2, <2>3, <2>4, CurveKept
  <2>. QED
    BY <1>2, <2>2, <2>5
<1>5. CASE Wake \/ Poll \/ Drained \/ DivideByZero
  <2>1. Same /\ UNCHANGED <<curve, reque>> /\ consumer' \in {"poll", "drain", "crashed"}
    BY <1>5 DEF Wake, Poll, Drained, DivideByZero, profile, window
  <2>2. CurveInv'
    BY <1>1, <2>1, CurveKept
  <2>. QED
    BY <1>2, <2>1, <2>2
<1>6. CASE PopAndProfile
  <2>1. /\ reque # <<>> /\ reque' = Tail(reque) /\ UNCHANGED <<curve, consumer>> /\ consumer = "drain"
    BY <1>6 DEF PopAndProfile
  <2>2. Len(reque') <= QueueBound
    <3>1. Len(reque') = Len(reque) - 1 /\ Len(reque) \in Nat
      BY <1>1, <2>1, HeadTailProperties, LenProperties
    <3>. QED
      BY <1>1, <3>1, CurveAssumption
  <2>3. CurveInv'
    BY <2>1, <2>2, CurveKept
  <2>4. PICK req \in Request : req = Head(reque)
    BY <1>1, <2>1
  <2>5. CASE ~enable_trace
    <3>1. Same
      BY <1>6, <2>5 DEF PopAndProfile, profile, window
    <3>. QED
      BY <1>2, <2>3, <3>1
  <2>6. CASE enable_trace /\ req.type = "get"
    <3>1. profile_get(req.hv)
      BY <1>6, <2>4, <2>6 DEF PopAndProfile
    <3>2. req.hv \in Key
      BY DEF Request
    <3>. QED
      BY <1>1, <2>3, <3>1, <3>2, ProfileOfGet
  <2>7. CASE enable_trace /\ req.type # "get"
    <3>1. profile_set(req.hv, req.new_clsid)
      BY <1>6, <2>4, <2>7 DEF PopAndProfile
    <3>2. req.hv \in Key /\ req.new_clsid \in Class
      BY <2>7 DEF Request
    <3>. QED
      BY <2>3, <3>1, <3>2, ProfileOfSet
  <2>. QED
    BY <2>5, <2>6, <2>7
<1>7. CASE StartCurve
  <2>1. Same
    BY <1>7 DEF StartCurve, profile, window
  <2>. QED
    BY <1>2, <1>7, <2>1, CurveOfStart
<1>8. CASE CurvePoint
  <2>1. Same
    BY <1>8 DEF CurvePoint, profile, window
  <2>. QED
    BY <1>2, <1>8, <2>1, CurveOfPoint
<1>9. CASE Forget
  <2>1. /\ keyNodeMap' = [k \in Key |-> Unknown] /\ rd_tree' = [c \in Class |-> <<>>]
        /\ rd_hist' = [c \in Class |-> <<>>] /\ consumer' = "done" /\ get_count' = get_count
        /\ UNCHANGED <<curve, reque>>
    BY <1>9 DEF Forget, window
  <2>2. TypedProfile' /\ Lists' /\ Total(rd_hist') = 0
    BY <2>1, EmptyProfile, Zenon DEF TypedProfile, Lists
  <2>3. Total(rd_hist') <= get_count'
    BY <1>1, <2>1, <2>2
  <2>4. ProfileInv'
    BY <2>2, <2>3, Zenon DEF ProfileInv
  <2>5. CurveInv'
    BY <1>1, <2>1, CurveKept
  <2>. QED
    BY <2>4, <2>5
<1>10. CASE UNCHANGED vars
  <2>1. Same /\ UNCHANGED <<curve, reque, consumer>>
    BY <1>10 DEF vars, profile, window
  <2>2. consumer \in {"sleep", "poll", "drain", "curve", "forget", "done", "crashed"}
    BY DEF CurveInv
  <2>3. CurveInv'
    BY <1>1, <2>1, <2>2, CurveKept
  <2>. QED
    BY <1>2, <2>1, <2>3
<1>. QED
  BY <1>3, <1>4, <1>5, <1>6, <1>7, <1>8, <1>9, <1>10 DEF Next, Consume

LEMMA ProfilerTyped == WindowInv /\ LateInv /\ ProfileInv /\ CurveInv => ProfilerTypeOK
<1>. SUFFICES ASSUME WindowInv, LateInv, ProfileInv, CurveInv PROVE ProfilerTypeOK
  OBVIOUS
<1>1. TypeOK
  BY WindowCount DEF TypeOK, WindowInv, ProfileInv, TypedProfile
<1>2. pending \in [Worker -> Request \cup {NoRequest}] /\ reque \in Seq(Request) /\ Len(reque) <= QueueBound
  BY DEF LateInv, CurveInv
<1>3. {cache_size_base, cache_size_power} \subseteq 0 .. Word - 1
  BY DEF CurveInv
<1>. QED
  BY <1>1, <1>2, <1>3, Zenon DEF CurveInv, ProfilerTypeOK

\* ProfilerTypeOK, whatever the requests and however the slabs are spread: above all the
\* unsigned count of misses, from which compute_mrc takes one bucket after the other, never
\* passes zero.
THEOREM ProfilerTypeHolds == Spec => []ProfilerTypeOK
<1>1. Init => ProfileInv /\ CurveInv
  BY ProfileInit, CurveInit
<1>2. WindowInv /\ LateInv /\ ProfileInv /\ CurveInv /\ [Next]_vars => ProfileInv' /\ CurveInv'
  BY ProfilerNext
<1>. QED
  BY WindowInit, WindowNext, LateInit, LateNext, <1>1, <1>2, ProfilerTyped, PTL DEF Spec

\* The sums and products of compute_mrc, which are unsigned, stay below 2^32; a size
\* at which one wrapped could have room for fewer items than the one before it.
NoWrap ==
    consumer = "curve" /\ total_slabs # 0 =>
        /\ cache_size_base + cache_size_power < Word
        /\ \A c \in Class :
             /\ cache_size_base * slab_count[c] < Word
             /\ alloc_slabs(c) * SlabBytes < Word

LEMMA DivMono ==
  ASSUME NEW a \in Nat, NEW c \in Nat, NEW b \in Nat \ {0}, a <= c
  PROVE  a \div b <= c \div b
OBVIOUS

LEMMA TimesMono ==
  ASSUME NEW a \in Nat, NEW c \in Nat, NEW b \in Nat, a <= c
  PROVE  a * b <= c * b
OBVIOUS

LEMMA ModSmall == ASSUME NEW b \in Nat \ {0}, NEW a \in Nat, a < b PROVE a % b = a
OBVIOUS

\* A larger cache has room for no fewer items.
LEMMA CapGrows ==
  ASSUME NEW base \in Nat, NEW next \in Nat, base <= next,
         NEW slabs \in Nat, NEW total \in Nat \ {0}, NEW chunk \in Nat \ {0},
         base * slabs < Word, AllocOf(base, slabs, total) * SlabBytes < Word,
         next * slabs < Word, AllocOf(next, slabs, total) * SlabBytes < Word
  PROVE  CapOf(base, slabs, total, chunk) <= CapOf(next, slabs, total, chunk)
<1>1. Word \in Nat \ {0} /\ SlabBytes \in Nat
  BY CurveAssumption
<1>2. PICK p \in Nat, q \in Nat : p = base * slabs /\ q = next * slabs
  BY TimesNat
<1>3. p <= q /\ p % Word = p /\ q % Word = q
  <2>1. p <= q
    BY <1>2, TimesMono
  <2>2. p % Word = p
    BY <1>1, <1>2, ModSmall
  <2>3. q % Word = q
    BY <1>1, <1>2, ModSmall
  <2>. QED
    BY <2>1, <2>2, <2>3
<1>4. PICK s \in Nat, t \in Nat : s = p \div total /\ t = q \div total
  BY DivNat
<1>5. s <= t
  BY <1>3, <1>4, DivMono
<1>6. PICK a \in Nat, b \in Nat : a = AllocOf(base, slabs, total) /\ b = AllocOf(next, slabs, total)
  BY CapIs
<1>7. a <= b
  <2>1. a = IF s > 1 THEN s ELSE 1
    BY <1>2, <1>3, <1>4, <1>6, Zenon DEF AllocOf
  <2>2. b = IF t > 1 THEN t ELSE 1
    BY <1>2, <1>3, <1>4, <1>6, Zenon DEF AllocOf
  <2>. QED
    BY <1>5, <2>1, <2>2
<1>8. PICK u \in Nat, v \in Nat : u = a * SlabBytes /\ v = b * SlabBytes
  BY <1>1, TimesNat
<1>9. u <= v /\ u % Word = u /\ v % Word = v
  <2>1. u <= v
    BY <1>1, <1>7, <1>8, TimesMono
  <2>2. u % Word = u
    BY <1>1, <1>6, <1>8, ModSmall
  <2>3. v % Word = v
    BY <1>1, <1>6, <1>8, ModSmall
  <2>. QED
    BY <2>1, <2>2, <2>3
<1>10. u \div chunk <= v \div chunk
  BY <1>9, DivMono
<1>11. CapOf(base, slabs, total, chunk) = u \div chunk /\ CapOf(next, slabs, total, chunk) = v \div chunk
  BY <1>6, <1>8, <1>9, Zenon DEF CapOf
<1>. QED
  BY <1>10, <1>11

\* The walk has not passed what fits into the next cache size.
GrowInv == consumer = "curve" /\ total_slabs # 0 => \A c \in Class : index[c] <= cap(c) + 1

\* Then it stops behind the last bucket that fits.
LEMMA WalkStops ==
  ASSUME ProfileInv, CurveInv, GrowInv, consumer = "curve", total_slabs # 0, NEW c \in Class
  PROVE  Walk(c) <= cap(c) + 1 /\ {i \in DOMAIN rd_hist[c] : i - 1 <= cap(c)} = 1..Walk(c)
<1>1. index[c] <= Len(rd_hist[c])
  BY DEF CurveInv
<1>2. cap(c) \in Nat
  BY <1>1, WalkIs
<1>3. PICK l \in Seq(Nat) : l = rd_hist[c]
  BY DEF ProfileInv, TypedProfile
<1>4. PICK k \in Nat, i \in Nat, n \in Nat : k = cap(c) /\ i = index[c] /\ n = Len(l) /\ i <= n /\ i <= k + 1
  <2>1. index[c] \in Nat
    BY DEF CurveInv
  <2>2. Len(l) \in Nat
    BY LenProperties
  <2>3. index[c] <= cap(c) + 1
    BY DEF GrowInv
  <2>. QED
    BY <1>1, <1>2, <1>3, <2>1, <2>2, <2>3, Zenon
<1>5. Walk(c) = IF k + 1 > n THEN n ELSE IF k + 1 > i THEN k + 1 ELSE i
  BY <1>3, <1>4, Zenon DEF Walk
<1>6. PICK w : w = Walk(c)
  OBVIOUS
<1>7. w = IF k + 1 > n THEN n ELSE k + 1
  BY <1>4, <1>5, <1>6
<1>8. {j \in DOMAIN l : j - 1 <= k} = 1..w
  <2>1. DOMAIN l = 1..n
    BY <1>4
  <2>. QED
    BY <1>7, <2>1
<1>9. w <= k + 1
  BY <1>7
<1>. QED
  BY <1>3, <1>4, <1>6, <1>8, <1>9, Zenon

LEMMA GrowOfPoint ==
  ASSUME ProfileInv, WindowInv, CurveInv, CurveInv', ProfileInv', GrowInv, NoWrap, NoWrap', CurvePoint
  PROVE  GrowInv'
<1>1. /\ consumer = "curve" /\ total_slabs # 0 /\ index' = [c \in Class |-> Walk(c)]
      /\ slab_count' = slab_count /\ rd_hist' = rd_hist
  BY DEF CurvePoint, profile
<1>2. total_slabs' = total_slabs
  BY <1>1, Zenon DEF total_slabs
<1>3. \A c \in Class : index[c] <= Len(rd_hist[c])
  BY <1>1 DEF CurveInv
<1>4. PICK W \in Nat \ {0}, b \in Nat, p \in Nat, q \in Nat, next \in Nat :
         /\ W = Word /\ b = cache_size_base /\ p = cache_size_power
         /\ q = cache_size_power' /\ next = cache_size_base'
  BY CurveAssumption DEF CurveInv
<1>5. next = (b + q \div 4) % W /\ (q = (2 * p) % W \/ q = p)
  BY <1>4, Zenon DEF CurvePoint
<1>6. b <= next
  <2>1. q <= 2 * p
    BY <1>5
  <2>2. q \div 4 \in Nat /\ q \div 4 <= p
    BY <2>1
  <2>3. b + p < W
    BY <1>1, <1>4, Zenon DEF NoWrap
  <2>4. b + q \div 4 \in Nat /\ b + q \div 4 < W
    BY <2>2, <2>3
  <2>5. next = b + q \div 4
    BY <1>5, <2>4, ModSmall
  <2>. QED
    BY <2>2, <2>5
<1>7. ASSUME consumer' = "curve", NEW c \in Class PROVE index'[c] <= cap(c)' + 1
  <2>1. /\ cap(c) = CapOf(b, slab_count[c], total_slabs, chunk_size[c]) /\ cap(c) \in Nat
        /\ slab_count[c] \in Nat /\ total_slabs \in Nat \ {0} /\ chunk_size[c] \in Nat \ {0}
    BY <1>1, <1>3, <1>4, WalkIs
  <2>2. cap(c)' = CapOf(next, slab_count[c], total_slabs, chunk_size[c])
    BY <1>1, <1>2, <1>4, Zenon DEF cap, alloc_slabs, CapOf, AllocOf
  <2>3. b * slab_count[c] < Word /\ AllocOf(b, slab_count[c], total_slabs) * SlabBytes < Word
    BY <1>1, <1>4, Zenon DEF NoWrap, alloc_slabs, AllocOf
  <2>4. next * slab_count[c] < Word /\ AllocOf(next, slab_count[c], total_slabs) * SlabBytes < Word
    BY <1>1, <1>2, <1>4, <1>7, Zenon DEF NoWrap, alloc_slabs, AllocOf
  <2>5. cap(c) <= cap(c)'
    BY <1>6, <2>1, <2>2, <2>3, <2>4, CapGrows
  <2>6. CapOf(next, slab_count[c], total_slabs, chunk_size[c]) \in Nat
    BY <2>1, CapIs
  <2>7. Walk(c) <= cap(c) + 1 /\ Walk(c) \in Nat
    BY <1>1, <1>3, WalkStops, WalkIs
  <2>8. index'[c] = Walk(c)
    BY <1>1
  <2>. QED
    BY <2>1, <2>2, <2>5, <2>6, <2>7, <2>8
<1>. QED
  BY <1>7, Zenon DEF GrowInv

LEMMA GrowOfStart ==
  ASSUME CurveInv', ProfileInv, StartCurve
  PROVE  GrowInv'
<1>1. index' = [c \in Class |-> 0] /\ slab_count' \in [Class -> SlabCounts] /\ cache_size_base' = FirstSize
  BY DEF StartCurve
<1>2. IsFiniteSet(Class) /\ SlabCounts \subseteq Nat /\ FirstSize \in Nat
  BY CurveAssumption
<1>3. PICK slabs \in [Class -> Nat] : slabs = slab_count'
  BY <1>1, <1>2
<1>4. PICK total : total = SumFunction(slabs)
  OBVIOUS
<1>5. total \in Nat
  <2>1. DOMAIN slabs = Class /\ \A c \in Class : slabs[c] \in Nat
    OBVIOUS
  <2>2. SumFunctionOnSet(slabs, Class) \in Nat
    BY <1>2, <2>1, SumTake
  <2>. QED
    BY <1>4, <2>1, <2>2, Zenon DEF SumFunction
<1>6. total_slabs' = total
  BY <1>3, <1>4, Zenon DEF total_slabs
<1>7. ASSUME total # 0, NEW c \in Class PROVE index'[c] <= cap(c)' + 1
  <2>1. chunk_size[c] \in Nat \ {0} /\ slabs[c] \in Nat /\ total \in Nat \ {0}
    BY <1>5, <1>7, CurveAssumption
  <2>2. CapOf(FirstSize, slabs[c], total, chunk_size[c]) \in Nat
    BY <1>2, <2>1, CapIs
  <2>3. cap(c)' = CapOf(FirstSize, slabs[c], total, chunk_size[c])
    BY <1>1, <1>3, <1>6, Zenon DEF cap, alloc_slabs, CapOf, AllocOf
  <2>4. index'[c] = 0
    BY <1>1
  <2>. QED
    BY <2>2, <2>3, <2>4
<1>. QED
  BY <1>6, <1>7, Zenon DEF GrowInv

LEMMA GrowNext ==
  ASSUME WindowInv, LateInv, ProfileInv, CurveInv, ProfileInv', CurveInv', GrowInv, NoWrap, NoWrap', [Next]_vars
  PROVE  GrowInv'
<1>1. ASSUME UNCHANGED curve, consumer' = "curve" => consumer = "curve"
      PROVE  GrowInv'
  <2>1. /\ slab_count' = slab_count /\ index' = index /\ cache_size_base' = cache_size_base
    BY <1>1 DEF curve
  <2>2. total_slabs' = total_slabs
    BY <2>1, Zenon DEF total_slabs
  <2>3. \A c \in Class : cap(c)' = cap(c)
    BY <2>1, <2>2, Zenon DEF cap, alloc_slabs
  <2>. QED
    BY <1>1, <2>1, <2>2, <2>3, Zenon DEF GrowInv
<1>2. CASE CurvePoint
  BY <1>2, GrowOfPoint
<1>3. CASE StartCurve
  BY <1>3, GrowOfStart
<1>4. CASE (\E w \in Worker : (\E req \in Request : Trace(w, req)) \/ reque_push(w)) \/ PopAndProfile \/ UNCHANGED vars
  <2>1. UNCHANGED <<curve, consumer>>
    BY <1>4 DEF Trace, reque_push, PopAndProfile, vars
  <2>. QED
    BY <1>1, <2>1
<1>5. CASE Wake \/ Poll \/ Drained \/ DivideByZero \/ Forget
  <2>1. UNCHANGED curve /\ consumer' # "curve"
    BY <1>5 DEF Wake, Poll, Drained, DivideByZero, Forget
  <2>. QED
    BY <1>1, <2>1
<1>. QED
  BY <1>2, <1>3, <1>4, <1>5 DEF Next, Consume

LEMMA PointExact ==
  ASSUME WindowInv, ProfileInv, CurveInv, GrowInv, CurvePoint
  PROVE  misses' = get_count - SumFunction([c \in Class |->
                       Gets(c, {i \in DOMAIN rd_hist[c] : i - 1 <= cap(c)})])
<1>1. consumer = "curve" /\ total_slabs # 0
  BY DEF CurvePoint
<1>2. misses' = get_count - Parts(rd_hist, index') /\ \A c \in Class : index'[c] = Walk(c)
  BY PointIs
<1>3. PICK f : f = [c \in Class |-> SumFunctionOnSet(rd_hist[c], 1..index'[c])]
  OBVIOUS
<1>4. \A c \in Class : {i \in DOMAIN rd_hist[c] : i - 1 <= cap(c)} = 1..Walk(c)
  BY <1>1, WalkStops
<1>5. [c \in Class |-> Gets(c, {i \in DOMAIN rd_hist[c] : i - 1 <= cap(c)})] = f
  <2>1. \A c \in Class : Gets(c, {i \in DOMAIN rd_hist[c] : i - 1 <= cap(c)}) = SumFunctionOnSet(rd_hist[c], 1..index'[c])
    BY <1>2, <1>4, Zenon DEF Gets
  <2>. QED
    BY <1>3, <2>1
<1>6. DOMAIN f = Class
  BY <1>3
<1>7. SumFunction(f) = Parts(rd_hist, index')
  BY <1>3, <1>6, Zenon DEF SumFunction, Parts
<1>. QED
  BY <1>2, <1>5, <1>7, Zenon

(***************************************************************************)
(* When the sizes stay below Word.  While a histogram is unfinished, the   *)
(* size just tried has no room for it, which bounds the size: Edge is the  *)
(* number of slabs at which the class holds its histogram, by its share.   *)
(***************************************************************************)
EdgeOf(slabs, total, chunk, len) ==
  (((((len - 1) * chunk) \div SlabBytes) + 1) * total) \div slabs

Edge(c) == EdgeOf(slab_count[c], total_slabs, chunk_size[c], Len(rd_hist[c]))

\* The size that follows Edge.
Beyond(edge) == edge + edge \div 2

\* The products at this size stay below Word.
Fits(size) ==
  /\ 3 * size < Word
  /\ \A c \in Class : /\ size * slab_count[c] < Word
                      /\ AllocOf(size, slab_count[c], total_slabs) * SlabBytes < Word

\* What is asked of the histograms and of the counts of slabs.
HistogramsFit ==
  consumer = "curve" /\ total_slabs # 0 =>
    Fits(FirstSize) /\ \A c \in Class : rd_hist[c] # <<>> => Fits(Beyond(Edge(c)))

SizeInv ==
  consumer = "curve" =>
    /\ \A c \in Class : rd_hist[c] # <<>> => slab_count[c] # 0
    /\ total_slabs # 0 =>
         /\ cache_size_power <= 2 * cache_size_base
         /\ \/ cache_size_base = FirstSize
            \/ \E c \in Class : rd_hist[c] # <<>> /\ cache_size_base <= Beyond(Edge(c))

LEMMA DivLess ==
  ASSUME NEW a \in Nat, NEW b \in Nat \ {0}, NEW n \in Nat, a \div b <= n
  PROVE  a < (n + 1) * b
OBVIOUS

LEMMA DivRoom ==
  ASSUME NEW a \in Nat, NEW b \in Nat \ {0}, NEW c \in Nat, a * b <= c
  PROVE  a <= c \div b
OBVIOUS

LEMMA EdgeNat ==
  ASSUME NEW slabs \in Nat \ {0}, NEW total \in Nat, NEW chunk \in Nat, NEW len \in Nat \ {0}
  PROVE  EdgeOf(slabs, total, chunk, len) \in Nat
<1>1. SlabBytes \in Nat \ {0}
  BY CurveAssumption
<1>2. PICK m \in Nat : m = (len - 1) * chunk
  BY TimesNat
<1>3. PICK n \in Nat : n = (m \div SlabBytes) + 1
  BY <1>1, DivNat
<1>4. PICK p \in Nat : p = n * total
  BY TimesNat
<1>5. EdgeOf(slabs, total, chunk, len) = p \div slabs
  BY <1>2, <1>3, <1>4, Zenon DEF EdgeOf
<1>. QED
  BY <1>5, DivNat

\* A size with no room for the histogram is not beyond its edge.
LEMMA BelowEdge ==
  ASSUME NEW base \in Nat, NEW slabs \in Nat \ {0}, NEW total \in Nat \ {0}, NEW chunk \in Nat \ {0},
         NEW len \in Nat, base * slabs < Word, AllocOf(base, slabs, total) * SlabBytes < Word,
         CapOf(base, slabs, total, chunk) + 1 < len
  PROVE  base <= EdgeOf(slabs, total, chunk, len)
<1>1. Word \in Nat \ {0} /\ SlabBytes \in Nat \ {0}
  BY CurveAssumption
<1>2. PICK p \in Nat : p = base * slabs
  BY TimesNat
<1>3. p % Word = p
  BY <1>1, <1>2, ModSmall
<1>4. PICK s \in Nat : s = p \div total
  BY DivNat
<1>5. PICK a \in Nat : a = AllocOf(base, slabs, total)
  BY CapIs
<1>6. a = IF s > 1 THEN s ELSE 1
  BY <1>2, <1>3, <1>4, <1>5, Zenon DEF AllocOf
<1>7. s <= a
  BY <1>6
<1>8. PICK u \in Nat : u = a * SlabBytes
  BY <1>1, TimesNat
<1>9. u % Word = u
  BY <1>1, <1>5, <1>8, ModSmall
<1>10. PICK k \in Nat : k = u \div chunk
  BY DivNat
<1>11. k + 1 < len
  BY <1>5, <1>8, <1>9, <1>10, Zenon DEF CapOf
<1>12. PICK l \in Nat : l = len - 1 /\ k + 1 <= l
  BY <1>11
<1>13. PICK m \in Nat, r \in Nat : m = l * chunk /\ r = (k + 1) * chunk
  BY TimesNat
<1>14. u < r
  BY <1>10, <1>13, DivLess
<1>15. r <= m
  BY <1>12, <1>13, TimesMono
<1>16. PICK n \in Nat : n = m \div SlabBytes
  BY <1>1, DivNat
<1>17. a <= n
  <2>1. u <= m
    BY <1>14, <1>15
  <2>. QED
    BY <1>1, <1>8, <1>16, <2>1, DivRoom
<1>18. s <= n
  BY <1>7, <1>17
<1>19. PICK q \in Nat : q = (n + 1) * total
  BY TimesNat
<1>20. p < q
  BY <1>4, <1>18, <1>19, DivLess
<1>21. base <= q \div slabs
  <2>1. base * slabs <= q
    BY <1>2, <1>20
  <2>. QED
    BY <2>1, DivRoom
<1>22. EdgeOf(slabs, total, chunk, len) = q \div slabs
  BY <1>12, <1>13, <1>16, <1>19, Zenon DEF EdgeOf
<1>. QED
  BY <1>21, <1>22

\* A smaller size takes no more slabs.
LEMMA AllocGrows ==
  ASSUME NEW base \in Nat, NEW next \in Nat, base <= next, NEW slabs \in Nat, NEW total \in Nat \ {0},
         next * slabs < Word
  PROVE  AllocOf(base, slabs, total) <= AllocOf(next, slabs, total)
<1>1. Word \in Nat \ {0}
  BY CurveAssumption
<1>2. PICK p \in Nat, q \in Nat : p = base * slabs /\ q = next * slabs
  BY TimesNat
<1>3. p <= q
  BY <1>2, TimesMono
<1>4. p < Word /\ q < Word
  BY <1>1, <1>2, <1>3
<1>5. p % Word = p /\ q % Word = q
  BY <1>1, <1>4, ModSmall
<1>6. PICK s \in Nat, t \in Nat : s = p \div total /\ t = q \div total
  BY DivNat
<1>7. s <= t
  BY <1>3, <1>6, DivMono
<1>8. PICK a, b : a = AllocOf(base, slabs, total) /\ b = AllocOf(next, slabs, total)
  OBVIOUS
<1>9. a = IF s > 1 THEN s ELSE 1
  BY <1>2, <1>5, <1>6, <1>8, Zenon DEF AllocOf
<1>10. b = IF t > 1 THEN t ELSE 1
  BY <1>2, <1>5, <1>6, <1>8, Zenon DEF AllocOf
<1>. QED
  BY <1>7, <1>8, <1>9, <1>10

\* Below a size that fits nothing wraps.
LEMMA FitsBelow ==
  ASSUME ProfileInv, CurveInv, consumer = "curve", NEW size \in Nat, Fits(size),
         cache_size_base <= size, cache_size_power <= 2 * cache_size_base
  PROVE  NoWrap
<1>. SUFFICES ASSUME total_slabs # 0
              PROVE  /\ cache_size_base + cache_size_power < Word
                     /\ \A c \in Class : /\ cache_size_base * slab_count[c] < Word
                                         /\ alloc_slabs(c) * SlabBytes < Word
  BY Zenon DEF NoWrap
<1>1. Word \in Nat \ {0} /\ SlabBytes \in Nat \ {0}
  BY CurveAssumption
<1>2. PICK b \in Nat, p \in Nat : b = cache_size_base /\ p = cache_size_power
  BY <1>1 DEF CurveInv
<1>3. b + p < Word
  <2>1. 3 * size < Word /\ b <= size /\ p <= 2 * b
    BY <1>2, Zenon DEF Fits
  <2>. QED
    BY <1>1, <2>1
<1>4. ASSUME NEW c \in Class
      PROVE  b * slab_count[c] < Word /\ alloc_slabs(c) * SlabBytes < Word
  <2>1. index[c] <= Len(rd_hist[c])
    BY DEF CurveInv
  <2>2. slab_count[c] \in Nat /\ total_slabs \in Nat \ {0}
    BY <2>1, WalkIs
  <2>3. PICK s \in Nat, t \in Nat \ {0} : s = slab_count[c] /\ t = total_slabs
    BY <2>2
  <2>4. size * s < Word /\ AllocOf(size, s, t) * SlabBytes < Word
    BY <2>3, Zenon DEF Fits
  <2>5. PICK q \in Nat, r \in Nat : q = b * s /\ r = size * s
    BY TimesNat
  <2>6. b <= size
    BY <1>2
  <2>7. q < Word
    <3>1. q <= r
      BY <2>5, <2>6, TimesMono
    <3>. QED
      BY <1>1, <2>4, <2>5, <3>1
  <2>8. PICK a \in Nat, d \in Nat : a = AllocOf(b, s, t) /\ d = AllocOf(size, s, t)
    BY CapIs
  <2>9. a <= d
    BY <2>4, <2>6, <2>8, AllocGrows
  <2>10. PICK u \in Nat, v \in Nat : u = a * SlabBytes /\ v = d * SlabBytes
    BY <1>1, TimesNat
  <2>11. u < Word
    <3>1. u <= v
      BY <1>1, <2>9, <2>10, TimesMono
    <3>. QED
      BY <1>1, <2>4, <2>8, <2>10, <3>1
  <2>12. alloc_slabs(c) = a
    BY <1>2, <2>3, <2>8, Zenon DEF alloc_slabs, AllocOf
  <2>. QED
    BY <2>3, <2>5, <2>7, <2>10, <2>11, <2>12, Zenon
<1>. QED
  BY <1>2, <1>3, <1>4

LEMMA EdgeOfClass ==
  ASSUME ProfileInv, CurveInv, SizeInv, consumer = "curve", total_slabs # 0,
         NEW c \in Class, rd_hist[c] # <<>>
  PROVE  /\ slab_count[c] \in Nat \ {0} /\ total_slabs \in Nat \ {0} /\ chunk_size[c] \in Nat \ {0}
         /\ Len(rd_hist[c]) \in Nat \ {0} /\ Edge(c) \in Nat
<1>1. index[c] <= Len(rd_hist[c])
  BY DEF CurveInv
<1>2. slab_count[c] \in Nat /\ total_slabs \in Nat \ {0} /\ chunk_size[c] \in Nat \ {0}
  BY <1>1, WalkIs
<1>3. slab_count[c] # 0
  BY DEF SizeInv
<1>4. Len(rd_hist[c]) \in Nat \ {0}
  <2>1. PICK l \in Seq(Nat) : l = rd_hist[c]
    BY DEF ProfileInv, TypedProfile
  <2>2. Len(l) \in Nat /\ (Len(l) = 0 => l = <<>>)
    BY LenProperties, EmptySeq
  <2>. QED
    BY <2>1, <2>2
<1>5. Edge(c) \in Nat
  BY <1>2, <1>3, <1>4, EdgeNat DEF Edge
<1>. QED
  BY <1>2, <1>3, <1>4, <1>5

LEMMA SizesFit ==
  ASSUME ProfileInv, CurveInv, SizeInv, HistogramsFit
  PROVE  NoWrap
<1>. SUFFICES ASSUME consumer = "curve", total_slabs # 0 PROVE NoWrap
  BY Zenon DEF NoWrap
<1>1. cache_size_power <= 2 * cache_size_base
  BY DEF SizeInv
<1>2. CASE cache_size_base = FirstSize
  <2>1. FirstSize \in Nat /\ Fits(FirstSize)
    BY CurveAssumption DEF HistogramsFit
  <2>2. cache_size_base <= FirstSize
    BY <1>2, <2>1
  <2>. QED
    BY <1>1, <2>1, <2>2, FitsBelow
<1>3. CASE \E c \in Class : rd_hist[c] # <<>> /\ cache_size_base <= Beyond(Edge(c))
  <2>1. PICK c \in Class : rd_hist[c] # <<>> /\ cache_size_base <= Beyond(Edge(c))
    BY <1>3
  <2>2. Edge(c) \in Nat
    BY <2>1, EdgeOfClass
  <2>3. Beyond(Edge(c)) \in Nat
    BY <2>2 DEF Beyond
  <2>4. Fits(Beyond(Edge(c)))
    BY <2>1 DEF HistogramsFit
  <2>. QED
    BY <1>1, <2>1, <2>3, <2>4, FitsBelow
<1>. QED
  BY <1>2, <1>3 DEF SizeInv

\* While a histogram is unfinished, the next size is not beyond its edge by more than a half.
LEMMA SizeOfPoint ==
  ASSUME ProfileInv, CurveInv, CurveInv', GrowInv, SizeInv, NoWrap, CurvePoint
  PROVE  SizeInv'
<1>. SUFFICES ASSUME consumer' = "curve"
              PROVE  /\ \A c \in Class : rd_hist'[c] # <<>> => slab_count'[c] # 0
                     /\ total_slabs' # 0 =>
                          /\ cache_size_power' <= 2 * cache_size_base'
                          /\ \/ cache_size_base' = FirstSize
                             \/ \E c \in Class : rd_hist'[c] # <<>> /\ cache_size_base' <= Beyond(Edge(c)')
  BY Zenon DEF SizeInv, Beyond
<1>1. /\ consumer = "curve" /\ total_slabs # 0 /\ index' = [c \in Class |-> Walk(c)]
      /\ slab_count' = slab_count /\ rd_hist' = rd_hist
      /\ consumer' = IF \A c \in Class : index'[c] = Len(rd_hist[c]) THEN "forget" ELSE "curve"
  BY DEF CurvePoint, profile
<1>2. total_slabs' = total_slabs
  BY <1>1, Zenon DEF total_slabs
<1>3. \A c \in Class : rd_hist[c] # <<>> => slab_count[c] # 0
  BY <1>1 DEF SizeInv
<1>4. PICK c \in Class : Walk(c) # Len(rd_hist[c])
  BY <1>1
<1>5. PICK W \in Nat \ {0}, b \in Nat, p \in Nat, q \in Nat, next \in Nat :
         /\ W = Word /\ b = cache_size_base /\ p = cache_size_power
         /\ q = cache_size_power' /\ next = cache_size_base'
  BY CurveAssumption DEF CurveInv
<1>6. next = (b + q \div 4) % W /\ ((b = p /\ q = (2 * p) % W) \/ q = p)
  BY <1>5, Zenon DEF CurvePoint
<1>7. p <= 2 * b /\ b + p < W
  BY <1>1, <1>5, Zenon DEF SizeInv, NoWrap
<1>8. q <= 2 * b
  <2>1. b = p => 2 * p < W
    BY <1>7
  <2>2. b = p => (2 * p) % W = 2 * p
    BY <2>1, ModSmall
  <2>. QED
    BY <1>6, <1>7, <2>2
<1>9. b <= next /\ next <= b + b \div 2
  <2>1. q <= 2 * p
    BY <1>6, <1>7, <1>8
  <2>2. q \div 4 \in Nat /\ q \div 4 <= p /\ q \div 4 <= b \div 2
    BY <1>8, <2>1
  <2>3. b + q \div 4 \in Nat /\ b + q \div 4 < W
    BY <1>7, <2>2
  <2>4. next = b + q \div 4
    BY <1>6, <2>3, ModSmall
  <2>. QED
    BY <2>2, <2>4
<1>10. q <= 2 * next
  BY <1>8, <1>9
<1>11. index[c] <= Len(rd_hist[c])
  BY <1>1 DEF CurveInv
<1>12. PICK k \in Nat, i \in Nat, n \in Nat : k = cap(c) /\ i = index[c] /\ n = Len(rd_hist[c])
  <2>1. cap(c) \in Nat /\ Len(rd_hist[c]) \in Nat
    BY <1>1, <1>11, WalkIs, LenProperties DEF ProfileInv, TypedProfile
  <2>2. index[c] \in Nat
    BY DEF CurveInv
  <2>. QED
    BY <2>1, <2>2
<1>13. k + 1 < n
  <2>1. Walk(c) = IF k + 1 > n THEN n ELSE IF k + 1 > i THEN k + 1 ELSE i
    BY <1>12, Zenon DEF Walk
  <2>2. i <= k + 1
    BY <1>1, <1>12, Zenon DEF GrowInv
  <2>. QED
    BY <1>4, <1>12, <2>1, <2>2
<1>14. rd_hist[c] # <<>>
  BY <1>12, <1>13
<1>15. PICK edge \in Nat : edge = Edge(c)
  BY <1>1, <1>14, EdgeOfClass
<1>16. b <= edge
  <2>1. /\ slab_count[c] \in Nat \ {0} /\ total_slabs \in Nat \ {0} /\ chunk_size[c] \in Nat \ {0}
    BY <1>1, <1>14, EdgeOfClass
  <2>2. CapOf(b, slab_count[c], total_slabs, chunk_size[c]) = k
    BY <1>1, <1>5, <1>11, <1>12, WalkIs
  <2>3. b * slab_count[c] < Word /\ AllocOf(b, slab_count[c], total_slabs) * SlabBytes < Word
    BY <1>1, <1>5, Zenon DEF NoWrap, alloc_slabs, AllocOf
  <2>4. CapOf(b, slab_count[c], total_slabs, chunk_size[c]) + 1 < n
    BY <1>13, <2>2
  <2>5. b <= EdgeOf(slab_count[c], total_slabs, chunk_size[c], n)
    BY <2>1, <2>3, <2>4, BelowEdge
  <2>. QED
    BY <1>12, <1>15, <2>5, Zenon DEF Edge
<1>17. next <= Beyond(edge)
  BY <1>9, <1>16 DEF Beyond
<1>18. Edge(c)' = edge
  BY <1>1, <1>2, <1>15, Zenon DEF Edge
<1>. QED
  BY <1>1, <1>3, <1>5, <1>10, <1>14, <1>17, <1>18, Zenon

LEMMA SizeNext ==
  ASSUME ProfileInv, CurveInv, CurveInv', GrowInv, SizeInv, HistogramsFit, [Next]_vars
  PROVE  SizeInv'
<1>1. CASE CurvePoint
  BY <1>1, SizesFit, SizeOfPoint
<1>2. CASE StartCurve
  <2>1. /\ rd_hist' = rd_hist /\ cache_size_base' = FirstSize /\ cache_size_power' = FirstSize
        /\ \A c \in Class : rd_hist[c] # <<>> => slab_count'[c] # 0
    BY <1>2 DEF StartCurve, profile
  <2>2. FirstSize \in Nat
    BY CurveAssumption
  <2>3. FirstSize <= 2 * FirstSize
    BY <2>2
  <2>. QED
    BY <2>1, <2>3, Zenon DEF SizeInv
<1>3. CASE (\E w \in Worker : (\E req \in Request : Trace(w, req)) \/ reque_push(w)) \/ UNCHANGED vars
  <2>1. UNCHANGED <<curve, consumer, rd_hist>>
    BY <1>3 DEF Trace, reque_push, vars, profile
  <2>2. /\ slab_count' = slab_count /\ cache_size_base' = cache_size_base
        /\ cache_size_power' = cache_size_power /\ rd_hist' = rd_hist /\ consumer' = consumer
    BY <2>1 DEF curve
  <2>3. total_slabs' = total_slabs
    BY <2>2, Zenon DEF total_slabs
  <2>4. \A c \in Class : Edge(c)' = Edge(c)
    BY <2>2, <2>3, Zenon DEF Edge
  <2>. QED
    BY <2>2, <2>3, <2>4, Zenon DEF SizeInv, Beyond
<1>4. CASE Wake \/ Poll \/ PopAndProfile \/ Drained \/ DivideByZero \/ Forget
  <2>1. consumer' # "curve"
    BY <1>4 DEF Wake, Poll, PopAndProfile, Drained, DivideByZero, Forget
  <2>. QED
    BY <2>1, Zenon DEF SizeInv
<1>. QED
  BY <1>1, <1>2, <1>3, <1>4 DEF Next, Consume

\* From the start, and for every step: histograms and counts of slabs that fit keep the
\* sizes from wrapping, and sizes that do not wrap keep the walk behind them.
LEMMA SizesInit == ASSUME Init PROVE ProfileInv /\ CurveInv /\ GrowInv /\ SizeInv
<1>1. consumer # "curve"
  BY DEF Init
<1>2. GrowInv /\ SizeInv
  BY <1>1, Zenon DEF GrowInv, SizeInv
<1>. QED
  BY <1>2, ProfileInit, CurveInit

LEMMA SizesNext ==
  ASSUME WindowInv, LateInv, ProfileInv, CurveInv, GrowInv, SizeInv, HistogramsFit, HistogramsFit', [Next]_vars
  PROVE  ProfileInv' /\ CurveInv' /\ GrowInv' /\ SizeInv'
<1>1. ProfileInv' /\ CurveInv'
  BY ProfilerNext
<1>2. SizeInv'
  BY <1>1, SizeNext
<1>3. NoWrap
  BY SizesFit
<1>4. NoWrap'
  <2>1. ProfileInv /\ CurveInv /\ SizeInv /\ HistogramsFit => NoWrap
    BY SizesFit
  <2>2. (ProfileInv /\ CurveInv /\ SizeInv /\ HistogramsFit => NoWrap)'
    BY SizesFit, PTL
  <2>. QED
    BY <1>1, <1>2, <2>2
<1>. QED
  BY <1>1, <1>2, <1>3, <1>4, GrowNext

\* NoWrap, for whatever histograms and slabs fit.
THEOREM NoWrapHolds == Spec /\ []HistogramsFit => []NoWrap
<1>1. WindowInv /\ LateInv /\ ProfileInv /\ CurveInv /\ GrowInv /\ SizeInv /\ HistogramsFit
        /\ HistogramsFit' /\ [Next]_vars => ProfileInv' /\ CurveInv' /\ GrowInv' /\ SizeInv'
  BY SizesNext
<1>2. ProfileInv /\ CurveInv /\ SizeInv /\ HistogramsFit => NoWrap
  BY SizesFit
<1>. QED
  BY WindowInit, WindowNext, LateInit, LateNext, SizesInit, <1>1, <1>2, PTL DEF Spec

\* CurveExact, for whatever histograms and slabs fit: every point of the miss ratio curve
\* is what the histograms say, and not what the sizes before left to look at.
THEOREM CurveExactHolds == Spec /\ []HistogramsFit => CurveExact
<1>1. WindowInv /\ LateInv /\ ProfileInv /\ CurveInv /\ GrowInv /\ SizeInv /\ HistogramsFit
        /\ HistogramsFit' /\ [Next]_vars => ProfileInv' /\ CurveInv' /\ GrowInv' /\ SizeInv'
  BY SizesNext
<1>2. WindowInv /\ ProfileInv /\ CurveInv /\ GrowInv /\ [Next]_vars =>
           [consumer = "curve" /\ curve' # curve =>
              misses' = get_count - SumFunction([c \in Class |->
                            Gets(c, {i \in DOMAIN rd_hist[c] : i - 1 <= cap(c)})])]_vars
  <2>. SUFFICES ASSUME WindowInv, ProfileInv, CurveInv, GrowInv, Next, consumer = "curve", curve' # curve
                PROVE  misses' = get_count - SumFunction([c \in Class |->
                            Gets(c, {i \in DOMAIN rd_hist[c] : i - 1 <= cap(c)})])
    OBVIOUS
  <2>1. CurvePoint
    BY DEF Next, Consume, Trace, reque_push, Wake, Poll, PopAndProfile, Drained, StartCurve, DivideByZero, Forget
  <2>. QED
    BY <2>1, PointExact
<1>. QED
  BY WindowInit, WindowNext, LateInit, LateNext, SizesInit, <1>1, <1>2, PTL DEF Spec, CurveExact

================================================================================
