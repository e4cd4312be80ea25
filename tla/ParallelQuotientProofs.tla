----------------------- MODULE ParallelQuotientProofs -----------------------
(***************************************************************************)
(* Proofs that the lock-free parallel loop of compute_quotient_contribution *)
(* is type-correct and leaves the quotient buffer as the sequential loop   *)
(* would, for every number of workers, chunk size, field and key data.     *)
(***************************************************************************)
EXTENDS ParallelQuotient, TLAPS

\* The only facts about P the proofs need.
LEMMA PPositive == P \in Nat /\ P > 0
BY PAssumption

USE PPositive, PartitionAssumption

\* Every field operation yields a canonical residue from integer operands.
LEMMA FieldOpsType ==
    ASSUME NEW a \in Nat, NEW b \in Nat
    PROVE  /\ FAdd(a, b) \in Fr
           /\ FSub(a, b) \in Fr
           /\ FMul(a, b) \in Fr
           /\ FSqr(a) \in Fr
           /\ FConst(a) \in Fr
BY DEF FAdd, FSub, FMul, FSqr, FConst, Fr

\* The value a worker adds into slot k is a field element.
LEMMA PointTermType ==
    ASSUME NEW k \in LargeDomain
    PROVE  PointTerm(k) \in Fr
<1> DEFINE q == SelectorFFT[k]
           w == WireFFT[k]
<1>0. SelectorFFT[k] \in [SelectorNames -> Fr] /\ WireFFT[k] \in [WireNames -> Fr]
      /\ Alpha \in Fr /\ AlphaBase \in Fr
  BY DataAssumption
<1>1. /\ q.q_1 \in Fr /\ q.q_2 \in Fr /\ q.q_3 \in Fr /\ q.q_4 \in Fr
      /\ q.q_5 \in Fr /\ q.q_m \in Fr /\ q.q_c \in Fr /\ q.q_arith \in Fr
      /\ w.w_1 \in Fr /\ w.w_2 \in Fr /\ w.w_3 \in Fr /\ w.w_4 \in Fr
  BY <1>0 DEF SelectorNames, WireNames
<1>2. Fr \subseteq Nat
  BY DEF Fr
<1>3. IsW4Bool(w.w_4) \in Fr
  BY <1>1, <1>2, FieldOpsType DEF IsW4Bool
<1>4. ArithmeticGate(q, w, Alpha) \in Fr
  BY <1>0, <1>1, <1>2, <1>3, FieldOpsType DEF ArithmeticGate
<1>5. QuadExtraction(q.q_arith, w.w_3, w.w_4) \in Fr
  <2> DEFINE delta == FSub(w.w_3, FAdd(FAdd(w.w_4, w.w_4), FAdd(w.w_4, w.w_4)))
             three == FAdd(FAdd(delta, delta), delta)
             nine == FAdd(three, FAdd(three, three))
             poly == FSub(FSub(nine, FAdd(FSqr(delta), FSqr(delta))), FConst(7))
  <2>1. delta \in Fr
    BY <1>1, <1>2, FieldOpsType
  <2>2. three \in Fr /\ nine \in Fr
    BY <2>1, <1>2, FieldOpsType
  <2>3. poly \in Fr
    BY <2>1, <2>2, <1>2, FieldOpsType
  <2>4. FSub(FSqr(q.q_arith), q.q_arith) \in Fr
    BY <1>1, <1>2, FieldOpsType
  <2>5. QED
    BY <2>1, <2>3, <2>4, <1>2, FieldOpsType DEF QuadExtraction
<1>6. QED
  BY <1>0, <1>2, <1>4, <1>5, FieldOpsType DEF PointTerm, QuotientPointTerm

\* A lower-numbered worker's chunk ends where a higher one's may start.
LEMMA ChunkOrder ==
    ASSUME NEW j1 \in Threads, NEW j2 \in Threads, j1 < j2
    PROVE  ChunkEnd(j1) <= ChunkStart(j2)
<1>1. (j2 - (j1 + 1)) * ThreadSize \in Nat
  BY DEF Threads
<1>2. j2 * ThreadSize - (j1 + 1) * ThreadSize = (j2 - (j1 + 1)) * ThreadSize
  BY DEF Threads
<1>3. QED
  BY <1>1, <1>2 DEF ChunkStart, ChunkEnd, Threads

\* Two workers' chunks never share a point.
LEMMA ChunksDisjoint ==
    ASSUME NEW j1 \in Threads, NEW j2 \in Threads, NEW k \in Nat,
           ChunkStart(j1) <= k, k < ChunkEnd(j1),
           ChunkStart(j2) <= k, k < ChunkEnd(j2)
    PROVE  j1 = j2
<1>1. /\ ChunkStart(j1) \in Nat /\ ChunkEnd(j1) \in Nat
      /\ ChunkStart(j2) \in Nat /\ ChunkEnd(j2) \in Nat
  BY DEF ChunkStart, ChunkEnd, Threads
<1>2. ~(j1 < j2)
  <2>1. SUFFICES ASSUME j1 < j2 PROVE FALSE
    OBVIOUS
  <2>2. ChunkEnd(j1) <= ChunkStart(j2)
    BY <2>1, ChunkOrder
  <2>3. QED
    BY <1>1, <2>2
<1>3. ~(j2 < j1)
  <2>1. SUFFICES ASSUME j2 < j1 PROVE FALSE
    OBVIOUS
  <2>2. ChunkEnd(j2) <= ChunkStart(j1)
    BY <2>1, ChunkOrder
  <2>3. QED
    BY <1>1, <2>2
<1>4. QED
  BY <1>2, <1>3 DEF Threads
\* Multiplication by a natural number is monotone.
LEMMA MulMonotone ==
    ASSUME NEW a \in Nat, NEW b \in Nat, NEW c \in Nat, a <= b
    PROVE  a * c <= b * c
<1>1. (b - a) * c \in Nat
  OBVIOUS
<1>2. b * c - a * c = (b - a) * c
  OBVIOUS
<1>3. QED
  BY <1>1, <1>2

\* A worker's chunk lies inside the large domain.
LEMMA ChunkInDomain ==
    ASSUME NEW j \in Threads, NEW k \in Nat, ChunkStart(j) <= k, k < ChunkEnd(j)
    PROVE  k \in LargeDomain
<1>1. ChunkEnd(j) <= NumThreads * ThreadSize
  BY MulMonotone DEF ChunkEnd, Threads
<1>2. NumThreads * ThreadSize \in Nat /\ ChunkEnd(j) \in Nat
  BY DEF ChunkEnd, Threads
<1>3. QED
  BY <1>1, <1>2 DEF LargeDomain

\* Every point of the large domain is in some worker's chunk.
LEMMA ChunkCover ==
    ASSUME NEW k \in LargeDomain
    PROVE  \E j \in Threads : ChunkStart(j) <= k /\ k < ChunkEnd(j)
<1>1. k \in Nat
  BY DEF LargeDomain
<1>2. \E q \in Nat, r \in 0..(ThreadSize - 1) : k = q * ThreadSize + r
  <2>1. k \div ThreadSize \in Nat /\ k % ThreadSize \in 0..(ThreadSize - 1)
        /\ k = (k \div ThreadSize) * ThreadSize + (k % ThreadSize)
    BY <1>1
  <2>2. QED
    BY <2>1
<1>3. PICK j \in Nat, r \in 0..(ThreadSize - 1) : k = j * ThreadSize + r
  BY <1>2
<1>4. j * ThreadSize \in Nat /\ (j + 1) * ThreadSize = j * ThreadSize + ThreadSize
  OBVIOUS
<1>5. j * ThreadSize <= k /\ k < (j + 1) * ThreadSize
  BY <1>3, <1>4
<1>6. j < NumThreads
  <2>1. SUFFICES ASSUME NumThreads <= j PROVE FALSE
    OBVIOUS
  <2>2. NumThreads * ThreadSize <= j * ThreadSize
    BY <2>1, MulMonotone
  <2>3. NumThreads * ThreadSize \in Nat
    OBVIOUS
  <2>4. QED
    BY <1>4, <1>5, <2>2, <2>3 DEF LargeDomain
<1>7. j \in Threads
  BY <1>6 DEF Threads
<1>8. ChunkStart(j) <= k /\ k < ChunkEnd(j)
  BY <1>5 DEF ChunkStart, ChunkEnd
<1>9. QED
  BY <1>7, <1>8
\* The bounds of every chunk, as facts about opaque integers.
LEMMA ChunkBounds ==
    ASSUME NEW j \in Threads
    PROVE  /\ ChunkStart(j) \in Nat /\ ChunkEnd(j) \in Nat
           /\ ChunkStart(j) < ChunkEnd(j)
           /\ ChunkEnd(j) <= NumThreads * ThreadSize
           /\ NumThreads * ThreadSize \in Nat
<1>1. ChunkEnd(j) = ChunkStart(j) + ThreadSize
  BY DEF ChunkStart, ChunkEnd, Threads
<1>2. ChunkEnd(j) <= NumThreads * ThreadSize
  BY MulMonotone DEF ChunkEnd, Threads
<1>3. QED
  BY <1>1, <1>2 DEF ChunkStart, Threads

------------------------------------------------------------------------------
\* The inductive invariant: the type invariant and the per-slot ownership
\* invariant that QuotientCorrect rests on.
IInv == TypeOK /\ SlotsConsistent

\* A worker that has not finished stands inside its own chunk.
LEMMA ActiveIndex ==
    ASSUME IInv, NEW j \in Threads, pc[j] # "done"
    PROVE  /\ ChunkStart(j) <= i[j] /\ i[j] < ChunkEnd(j)
           /\ i[j] \in LargeDomain
<1>1. i[j] \in ChunkStart(j)..ChunkEnd(j) /\ i[j] # ChunkEnd(j)
  BY DEF IInv, SlotsConsistent
<1>2. ChunkStart(j) <= i[j] /\ i[j] < ChunkEnd(j) /\ i[j] \in Nat
  BY <1>1, ChunkBounds
<1>3. QED
  BY <1>2, ChunkInDomain

\* The slot a worker is updating has not been written by anyone: it is
\* in the worker's own chunk, past its own index, and outside every other
\* worker's chunk.
LEMMA ActiveSlotUnwritten ==
    ASSUME IInv, NEW j \in Threads, pc[j] # "done"
    PROVE  /\ ~Written(i[j])
           /\ quotient_large[i[j]] = QuotientIn[i[j]]
<1>1. i[j] \in LargeDomain /\ ChunkStart(j) <= i[j] /\ i[j] < ChunkEnd(j)
  BY ActiveIndex
<1>2. ~Written(i[j])
  <2>1. SUFFICES ASSUME NEW j2 \in Threads, ChunkStart(j2) <= i[j], i[j] < i[j2]
                 PROVE FALSE
    BY DEF Written
  <2>2. i[j2] \in ChunkStart(j2)..ChunkEnd(j2)
    BY DEF IInv, SlotsConsistent
  <2>3. i[j] < ChunkEnd(j2) /\ i[j] \in Nat
    BY <1>1, <2>1, <2>2, ChunkBounds DEF LargeDomain
  <2>4. j2 = j
    BY <1>1, <2>1, <2>3, ChunksDisjoint
  <2>5. QED
    BY <2>1, <2>4, <2>3
<1>3. QED
  BY <1>1, <1>2 DEF IInv, SlotsConsistent

THEOREM InitIInv == Init => IInv
<1> SUFFICES ASSUME Init PROVE IInv
  OBVIOUS
<1>1. TypeOK
  BY ChunkBounds, DataAssumption DEF Init, TypeOK, Fr
<1>2. \A k \in LargeDomain : ~Written(k)
  BY ChunkBounds DEF Init, Written, LargeDomain
<1>3. QED
  BY <1>1, <1>2, ChunkBounds DEF Init, IInv, SlotsConsistent

THEOREM NextIInv == IInv /\ [Next]_vars => IInv'
<1> SUFFICES ASSUME IInv, [Next]_vars PROVE IInv'
  OBVIOUS
<1>1. ASSUME NEW j \in Threads, Load(j) PROVE IInv'
  <2>1. i[j] \in LargeDomain /\ ChunkStart(j) <= i[j] /\ i[j] < ChunkEnd(j)
    BY <1>1, ActiveIndex DEF Load
  <2>2. ~Written(i[j])
    BY <1>1, ActiveSlotUnwritten DEF Load
  <2>3. quotient_large[i[j]] = QuotientIn[i[j]]
    BY <1>1, ActiveSlotUnwritten DEF Load
  <2>4. TypeOK'
    BY <1>1, <2>1 DEF Load, IInv, TypeOK
  <2>5. \A k \in LargeDomain : Written(k)' = Written(k)
    BY <1>1 DEF Load, Written
  <2>6. QED
    BY <1>1, <2>3, <2>4, <2>5 DEF Load, IInv, SlotsConsistent, TypeOK
<1>2. ASSUME NEW j \in Threads, Store(j) PROVE IInv'
  <2>1. i[j] \in LargeDomain /\ ChunkStart(j) <= i[j] /\ i[j] < ChunkEnd(j)
    BY <1>2, ActiveIndex DEF Store
  <2>2. tmp[j] = QuotientIn[i[j]] /\ tmp[j] \in Fr
    BY <1>2, DataAssumption DEF Store, IInv, SlotsConsistent, TypeOK
  <2>3. FAdd(tmp[j], PointTerm(i[j])) = SequentialQuotient[i[j]]
    BY <2>1, <2>2 DEF SequentialQuotient
  <2>4. FAdd(tmp[j], PointTerm(i[j])) \in Fr
    BY <2>1, <2>2, PointTermType, FieldOpsType DEF Fr
  <2>5. \A j2 \in Threads : i'[j2] = IF j2 = j THEN i[j] + 1 ELSE i[j2]
    BY <1>2 DEF Store, IInv, TypeOK
  <2>6. ASSUME NEW k \in LargeDomain
        PROVE  Written(k)' <=> Written(k) \/ k = i[j]
    BY <2>1, <2>5, ChunkBounds DEF Written, LargeDomain
  <2>7. result = NoResult
    BY <1>2 DEF Store, IInv, SlotsConsistent
  <2>8. i[j] + 1 \in ChunkStart(j)..ChunkEnd(j) /\ ChunkEnd(j) <= NumThreads * ThreadSize
    BY <2>1, ChunkBounds DEF LargeDomain
  <2>9. TypeOK'
    <3>1. quotient_large' \in [LargeDomain -> Fr]
      BY <1>2, <2>1, <2>4 DEF Store, IInv, TypeOK
    <3>2. i[j] + 1 \in 0..(NumThreads * ThreadSize)
      BY <2>8, ChunkBounds
    <3>3. i' \in [Threads -> 0..(NumThreads * ThreadSize)]
      BY <1>2, <3>2 DEF Store, IInv, TypeOK
    <3>4. pc' \in [Threads -> {"load", "store", "done"}]
      BY <1>2 DEF Store, IInv, TypeOK
    <3>5. QED
      BY <1>2, <3>1, <3>3, <3>4 DEF Store, IInv, TypeOK
  <2>10. \A k \in LargeDomain :
           quotient_large'[k] = IF Written(k)' THEN SequentialQuotient[k] ELSE QuotientIn[k]
    BY <1>2, <2>3, <2>6 DEF Store, IInv, SlotsConsistent, TypeOK
  <2>11. \A j2 \in Threads :
           /\ i'[j2] \in ChunkStart(j2)..ChunkEnd(j2)
           /\ pc'[j2] = "done" <=> i'[j2] = ChunkEnd(j2)
           /\ pc'[j2] = "store" => tmp'[j2] = QuotientIn[i'[j2]]
    <3>1. SUFFICES ASSUME NEW j2 \in Threads
                   PROVE  /\ i'[j2] \in ChunkStart(j2)..ChunkEnd(j2)
                          /\ pc'[j2] = "done" <=> i'[j2] = ChunkEnd(j2)
                          /\ pc'[j2] = "store" => tmp'[j2] = QuotientIn[i'[j2]]
      OBVIOUS
    <3>2. CASE j2 = j
      <4>1. i'[j2] = i[j] + 1 /\ tmp' = tmp
        BY <1>2, <3>2, <2>5 DEF Store
      <4>2. pc'[j2] = IF i[j] + 1 < ChunkEnd(j) THEN "load" ELSE "done"
        BY <1>2, <3>2 DEF Store, IInv, TypeOK
      <4>3. i[j] + 1 <= ChunkEnd(j) /\ ChunkEnd(j) \in Nat
        BY <2>1, ChunkBounds DEF LargeDomain
      <4>4. QED
        BY <3>2, <4>1, <4>2, <4>3, <2>8
    <3>3. CASE j2 # j
      <4>1. i'[j2] = i[j2] /\ pc'[j2] = pc[j2] /\ tmp' = tmp
        BY <1>2, <3>3, <2>5 DEF Store, IInv, TypeOK
      <4>2. QED
        BY <4>1 DEF IInv, SlotsConsistent
    <3>4. QED
      BY <3>2, <3>3
  <2>12. QED
    BY <1>2, <2>7, <2>9, <2>10, <2>11 DEF Store, IInv, SlotsConsistent
<1>3. CASE Return
  <2>1. NextAlphaBase(AlphaBase, Alpha) \in Fr
    <3>1. Alpha \in Nat /\ AlphaBase \in Nat
      BY DataAssumption DEF Fr
    <3>2. FSqr(Alpha) \in Nat
      BY <3>1, FieldOpsType DEF Fr
    <3>3. QED
      BY <3>1, <3>2, FieldOpsType DEF NextAlphaBase
  <2>2. QED
    BY <1>3, <2>1 DEF Return, IInv, TypeOK, SlotsConsistent, Written
<1>4. CASE Returned \/ UNCHANGED vars
  BY <1>4 DEF Returned, vars, IInv, TypeOK, SlotsConsistent, Written
<1>5. QED
  BY <1>1, <1>2, <1>3, <1>4 DEF Next, Worker
\* Once every worker is through, every slot has been written, so the
\* buffer is the sequential one.
LEMMA AllDoneCorrect ==
    ASSUME IInv, \A j \in Threads : pc[j] = "done"
    PROVE  quotient_large = SequentialQuotient
<1>1. \A j \in Threads : i[j] = ChunkEnd(j)
  BY DEF IInv, SlotsConsistent
<1>2. \A k \in LargeDomain : Written(k)
  BY <1>1, ChunkCover DEF Written
<1>3. \A k \in LargeDomain : quotient_large[k] = SequentialQuotient[k]
  BY <1>2 DEF IInv, SlotsConsistent
<1>4. QED
  BY <1>3 DEF IInv, TypeOK, SequentialQuotient

\* Once the call has returned, the buffer is the sequential one.
LEMMA IInvImpliesCorrect == IInv => QuotientCorrect
<1> SUFFICES ASSUME IInv, result # NoResult
             PROVE  quotient_large = SequentialQuotient
  BY DEF QuotientCorrect
<1>1. \A j \in Threads : pc[j] = "done"
  BY DEF IInv, SlotsConsistent
<1>2. QED
  BY <1>1, AllDoneCorrect

\* Spec keeps the inductive invariant.
THEOREM InvariantHolds == Spec => []IInv
BY InitIInv, NextIInv, PTL DEF Spec

\* The buffer and the workers' state always have their types.
THEOREM TypeCorrect == Spec => []TypeOK
BY InvariantHolds, PTL DEF IInv

\* In every interleaving of the OpenMP workers, each slot of quotient_large
\* is either untouched or updated exactly once, and a worker between its
\* load and its store holds the slot's original value.
THEOREM SlotsAlwaysConsistent == Spec => []SlotsConsistent
BY InvariantHolds, PTL DEF IInv

\* compute_quotient_contribution, run by any number of workers over chunks
\* of any size, returns only once the shared quotient buffer holds exactly
\* what the single-threaded loop would have written.
THEOREM ParallelMatchesSequential == Spec => []QuotientCorrect
BY InvariantHolds, IInvImpliesCorrect, PTL

\* The atomic contract computes the widget's term and the returned value
\* with the same operators as the loop.
LEMMA AtomicOperators ==
    /\ \A a, b : Atomic!FAdd(a, b) = FAdd(a, b)
    /\ \A ab, a : Atomic!NextAlphaBase(ab, a) = NextAlphaBase(ab, a)
    /\ \A q, w, a, ab : Atomic!QuotientPointTerm(q, w, a, ab) = QuotientPointTerm(q, w, a, ab)
BY DEF Atomic!FAdd, FAdd, Atomic!NextAlphaBase, NextAlphaBase, Atomic!FMul, FMul,
       Atomic!FSqr, FSqr, Atomic!FSub, FSub, Atomic!FConst, FConst,
       Atomic!QuotientPointTerm, QuotientPointTerm, Atomic!ArithmeticGate,
       ArithmeticGate, Atomic!QuadExtraction, QuadExtraction, Atomic!IsW4Bool, IsW4Bool

\* Each step of the workers is a step of the atomic contract or leaves the
\* caller's view unchanged.
LEMMA StepRefines ==
    IInv /\ [Next]_vars => [Atomic!Contribute]_<<CallerView, result>>
<1> SUFFICES ASSUME IInv, [Next]_vars
             PROVE  [Atomic!Contribute]_<<CallerView, result>>
  OBVIOUS
<1>1. ASSUME NEW j \in Threads, Worker(j)
      PROVE  UNCHANGED <<CallerView, result>>
  <2>1. pc[j] # "done" /\ result' = result
    BY <1>1 DEF Worker, Load, Store
  <2>2. result = NoResult
    BY <2>1 DEF IInv, SlotsConsistent
  <2>3. QED
    BY <2>1, <2>2 DEF CallerView
<1>2. CASE Return
  <2>1. quotient_large = SequentialQuotient
    BY <1>2, AllDoneCorrect DEF Return
  <2>2. result' # NoResult
    <3>1. Alpha \in Nat /\ AlphaBase \in Nat
      BY DataAssumption DEF Fr
    <3>2. FSqr(Alpha) \in Nat
      BY <3>1, FieldOpsType DEF Fr
    <3>3. NextAlphaBase(AlphaBase, Alpha) \in Fr
      BY <3>1, <3>2, FieldOpsType DEF NextAlphaBase
    <3>4. QED
      BY <1>2, <3>3, DataAssumption DEF Return
  <2>3. CallerView = QuotientIn /\ CallerView' = SequentialQuotient
    BY <1>2, <2>1, <2>2 DEF Return, CallerView
  <2>4. Atomic!Contribute
    <3>1. result = NoResult /\ result' = NextAlphaBase(AlphaBase, Alpha)
      BY <1>2 DEF Return
    <3>2. CallerView' = [k \in LargeDomain |->
                           FAdd(CallerView[k],
                                QuotientPointTerm(SelectorFFT[k], WireFFT[k],
                                                  Alpha, AlphaBase))]
      BY <2>3 DEF SequentialQuotient, PointTerm
    <3>3. QED
      BY <3>1, <3>2, AtomicOperators DEF Atomic!Contribute
  <2>5. QED
    BY <2>4

<1>3. CASE Returned \/ UNCHANGED vars
  BY <1>3 DEF Returned, vars, CallerView
<1>4. QED
  BY <1>1, <1>2, <1>3 DEF Next

(***************************************************************************)
(* compute_quotient_contribution's OpenMP loop implements its atomic       *)
(* contract for every number of workers and every chunk size: the caller   *)
(* sees one step that adds the widget's term at every point of the large   *)
(* domain and returns alpha_base * alpha^2.                                *)
(***************************************************************************)
THEOREM ImplementsAtomic == Spec => AtomicSpec
<1>1. Init => Atomic!Init
  BY DEF Init, Atomic!Init, CallerView
<1>2. QED
  BY <1>1, StepRefines, InvariantHolds, PTL DEF Spec, AtomicSpec, Atomic!Spec

\* A worker at its store holds exactly what its slot still contains.
LEMMA StoreSeesSlot ==
    ASSUME IInv, NEW j \in Threads, pc[j] = "store"
    PROVE  tmp[j] = quotient_large[i[j]]
<1>1. tmp[j] = QuotientIn[i[j]]
  BY DEF IInv, SlotsConsistent
<1>2. QED
  BY <1>1, ActiveSlotUnwritten

(***************************************************************************)
(* In every interleaving of the OpenMP workers, no store of                *)
(* fr::__add(quotient_large[i], T0, quotient_large[i]) is made from a      *)
(* stale load: for every thread count and chunk size.                      *)
(***************************************************************************)
THEOREM NoStaleStore == Spec => LoadNotStale
<1>1. IInv => \A j \in Threads :
                 pc[j] = "store" => tmp[j] = quotient_large[i[j]]
  BY StoreSeesSlot
<1>2. IInv /\ [Next]_vars =>
        [\A j \in Threads :
            pc[j] = "store" /\ pc'[j] # "store" => tmp[j] = quotient_large[i[j]]]_vars
  BY <1>1
<1>3. QED
  BY <1>2, InvariantHolds, PTL DEF LoadNotStale, Spec
==============================================================================
