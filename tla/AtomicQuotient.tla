--------------------------- MODULE AtomicQuotient ---------------------------
(***************************************************************************)
(* What ProverTurboArithmeticWidget::compute_quotient_contribution         *)
(* promises its caller (lines 265-363): in one step, every point of the    *)
(* large domain gets the widget's gate term, scaled by alpha_base, added   *)
(* to it, and the call returns alpha_base * alpha^2.  ParallelQuotient is  *)
(* the OpenMP loop that implements it.                                     *)
(***************************************************************************)
EXTENDS TurboArithmetic

CONSTANTS Domain, SelectorFFT, WireFFT, QuotientIn, Alpha, AlphaBase, NoResult

VARIABLES quotient_large, result

Init ==
    /\ quotient_large = QuotientIn
    /\ result = NoResult

\* The whole call, seen from the caller.
Contribute ==
    /\ result = NoResult
    /\ quotient_large' = [k \in Domain |->
          FAdd(quotient_large[k],
               QuotientPointTerm(SelectorFFT[k], WireFFT[k], Alpha, AlphaBase))]
    /\ result' = NextAlphaBase(AlphaBase, Alpha)

Spec == Init /\ [][Contribute]_<<quotient_large, result>>
==============================================================================
