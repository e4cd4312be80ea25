-------------------------- MODULE ParallelQuotient --------------------------
(***************************************************************************)
(* ProverTurboArithmeticWidget::compute_quotient_contribution (lines       *)
(* 265-363): the OpenMP loop that adds the gate identity, scaled by        *)
(* alpha_base, into the shared quotient buffer over the large domain.      *)
(*                                                                         *)
(* Worker j owns the index range [j * thread_size, (j + 1) * thread_size)   *)
(* and walks it with its own index i.  The update                          *)
(* fr::__add(quotient_large[i], T0, quotient_large[i]) is a load of the    *)
(* slot and a later store of the sum, two steps another worker's steps may *)
(* fall between.  T0 depends only on read-only key data, so computing it   *)
(* is part of the store.  When every worker is through, the implicit       *)
(* barrier of `omp parallel for` ends and the function returns            *)
(* alpha_base * alpha^2.                                                   *)
(***************************************************************************)
EXTENDS TurboArithmetic

CONSTANTS
    NumThreads,     \* key->large_domain.num_threads
    ThreadSize,     \* key->large_domain.thread_size
    SelectorFFT,    \* q_*_fft[i]: the selector values at point i
    WireFFT,        \* w_*_fft[i]: the wire values at point i
    QuotientIn,     \* quotient_large as the earlier widgets left it
    Alpha,          \* transcript.get_challenge("alpha")
    AlphaBase,      \* the alpha_base argument
    NoResult        \* the function has not returned yet

\* The evaluation domain's partition covers the large domain exactly, as
\* the spec's "fixed disjoint contiguous chunks" promise (the domain code
\* computing num_threads and thread_size is not under src/).
LargeDomain == 0..(NumThreads * ThreadSize - 1)
Threads == 0..(NumThreads - 1)

ASSUME PartitionAssumption ==
    NumThreads \in Nat \ {0} /\ ThreadSize \in Nat \ {0}

ASSUME DataAssumption ==
    /\ SelectorFFT \in [LargeDomain -> [SelectorNames -> Fr]]
    /\ WireFFT \in [LargeDomain -> [WireNames -> Fr]]
    /\ QuotientIn \in [LargeDomain -> Fr]
    /\ Alpha \in Fr /\ AlphaBase \in Fr
    /\ NoResult \notin Fr

VARIABLES
    quotient_large, \* the shared buffer
    i,              \* i[j]: worker j's loop index
    pc,             \* pc[j]: "load", "store" or "done"
    tmp,            \* tmp[j]: the slot value worker j loaded
    result          \* the returned alpha_base, NoResult while running

vars == <<quotient_large, i, pc, tmp, result>>

ChunkStart(j) == j * ThreadSize
ChunkEnd(j) == (j + 1) * ThreadSize

\* T0 of the loop body (lines 294-358) at point k.
PointTerm(k) == QuotientPointTerm(SelectorFFT[k], WireFFT[k], Alpha, AlphaBase)

Init ==
    /\ quotient_large = QuotientIn
    /\ i = [j \in Threads |-> ChunkStart(j)]
    /\ pc = [j \in Threads |-> "load"]
    /\ tmp = [j \in Threads |-> 0]
    /\ result = NoResult

\* Mutant: the scratch temporaries declared above the `omp parallel for`,
\* so one worker's load overwrites every worker's scratch.
LoadSharedScratch(j) ==
    /\ pc[j] = "load"
    /\ tmp' = [k \in Threads |-> quotient_large[i[j]]]
    /\ pc' = [pc EXCEPT ![j] = "store"]
    /\ UNCHANGED <<quotient_large, i, result>>

\* The load half of fr::__add(quotient_large[i], T0, quotient_large[i]).
Load(j) ==
    /\ pc[j] = "load"
    /\ tmp' = [tmp EXCEPT ![j] = quotient_large[i[j]]]
    /\ pc' = [pc EXCEPT ![j] = "store"]
    /\ UNCHANGED <<quotient_large, i, result>>

\* Mutant: the store made with __add_without_reduction, leaving the sum
\* in [0, 2P) instead of reducing it.
StoreUnreduced(j) ==
    /\ pc[j] = "store"
    /\ quotient_large' = [quotient_large EXCEPT ![i[j]] = tmp[j] + PointTerm(i[j])]
    /\ i' = [i EXCEPT ![j] = i[j] + 1]
    /\ pc' = [pc EXCEPT ![j] = IF i[j] + 1 < ChunkEnd(j) THEN "load" ELSE "done"]
    /\ UNCHANGED <<tmp, result>>

\* Mutant: ++i dropped, the worker updates the same slot again and again.
StoreNoAdvance(j) ==
    /\ pc[j] = "store"
    /\ quotient_large' = [quotient_large EXCEPT ![i[j]] = FAdd(tmp[j], PointTerm(i[j]))]
    /\ pc' = [pc EXCEPT ![j] = IF i[j] + 1 < ChunkEnd(j) THEN "load" ELSE "done"]
    /\ UNCHANGED <<i, tmp, result>>

\* The store half, then ++i and the loop test i < end.
Store(j) ==
    /\ pc[j] = "store"
    /\ quotient_large' = [quotient_large EXCEPT ![i[j]] = FAdd(tmp[j], PointTerm(i[j]))]
    /\ i' = [i EXCEPT ![j] = i[j] + 1]
    /\ pc' = [pc EXCEPT ![j] = IF i[j] + 1 < ChunkEnd(j) THEN "load" ELSE "done"]
    /\ UNCHANGED <<tmp, result>>

\* The barrier at the end of the parallel region, then line 362.
Return ==
    /\ result = NoResult
    /\ \A j \in Threads : pc[j] = "done"
    /\ result' = NextAlphaBase(AlphaBase, Alpha)
    /\ UNCHANGED <<quotient_large, i, pc, tmp>>

\* The call has returned; nothing more happens.
Returned ==
    /\ result # NoResult
    /\ UNCHANGED vars

Worker(j) == Load(j) \/ Store(j)

Next == (\E j \in Threads : Worker(j)) \/ Return \/ Returned

Spec == Init /\ [][Next]_vars

\* OpenMP runs each worker on a thread of its own, which the OS keeps
\* scheduling while it can run; the master thread passes the barrier once
\* every worker has arrived.
Fairness ==
    /\ \A j \in Threads : WF_vars(Worker(j))
    /\ WF_vars(Return)

LiveSpec == Spec /\ Fairness

------------------------------------------------------------------------------

TypeOK ==
    /\ quotient_large \in [LargeDomain -> Fr]
    /\ i \in [Threads -> 0..(NumThreads * ThreadSize)]
    /\ pc \in [Threads -> {"load", "store", "done"}]
    /\ tmp \in [Threads -> Fr]
    /\ result \in Fr \cup {NoResult}

\* The single-threaded reference: every point's term added exactly once
\* into what the earlier widgets left in the buffer.
SequentialQuotient == [k \in LargeDomain |-> FAdd(QuotientIn[k], PointTerm(k))]

\* When compute_quotient_contribution returns, the buffer the workers
\* updated concurrently equals the sequential loop's: no update lost or
\* doubled, no slot skipped (spec section 8, "concurrency must never change
\* numeric results").
QuotientCorrect ==
    result # NoResult => quotient_large = SequentialQuotient

\* Slot k has been updated once its owner's index has passed it.
Written(k) == \E j \in Threads : ChunkStart(j) <= k /\ k < i[j]

\* At every moment of the parallel region each slot holds either what the
\* earlier widgets left or its final value, never a half-applied or doubly
\* applied update; a worker between its load and its store holds the
\* untouched value of a slot that no other worker has written.  This is
\* what makes the lock-free region race-free, and the inductive
\* strengthening of QuotientCorrect.
SlotsConsistent ==
    /\ \A j \in Threads :
          /\ i[j] \in ChunkStart(j)..ChunkEnd(j)
          /\ pc[j] = "done" <=> i[j] = ChunkEnd(j)
          /\ pc[j] = "store" => tmp[j] = QuotientIn[i[j]]
    /\ \A k \in LargeDomain :
          quotient_large[k] = IF Written(k) THEN SequentialQuotient[k]
                                            ELSE QuotientIn[k]
    /\ result # NoResult => \A j \in Threads : pc[j] = "done"

(***************************************************************************)
(* No store is made from a stale load: when a worker completes             *)
(* fr::__add(quotient_large[i], T0, quotient_large[i]) (line 359), the     *)
(* slot still holds the value it read at the start of that call, so no     *)
(* other worker's update can be overwritten and lost.                      *)
(***************************************************************************)
LoadNotStale ==
    [][\A j \in Threads :
          pc[j] = "store" /\ pc'[j] # "store" => tmp[j] = quotient_large[i[j]]]_vars

(***************************************************************************)
(* With every worker scheduled, compute_quotient_contribution returns: no  *)
(* worker loops forever in its chunk and the barrier is passed.            *)
(***************************************************************************)
Termination == <>(result # NoResult)

\* The caller's view of the buffer: it sees it only when the call returns.
CallerView == IF result = NoResult THEN QuotientIn ELSE quotient_large

Atomic == INSTANCE AtomicQuotient WITH Domain <- LargeDomain,
                                       quotient_large <- CallerView

(***************************************************************************)
(* The OpenMP loop of compute_quotient_contribution implements its atomic  *)
(* contract: whatever the interleaving of the workers' loads and stores,   *)
(* the caller sees a single step that adds the widget's term at every      *)
(* point of the large domain and returns alpha_base * alpha^2.             *)
(***************************************************************************)
AtomicSpec == Atomic!Spec
==============================================================================
