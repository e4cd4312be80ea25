--------------------------- MODULE TurboArithmetic ---------------------------
(***************************************************************************)
(* The identities of the Turbo arithmetic gate, as the prover and the      *)
(* verifier widgets of turbo_arithmetic_widget.cpp compute them.  Each      *)
(* code path that evaluates the identity is its own operator, so that the  *)
(* agreement between the paths is something a run can check rather than   *)
(* something the model assumes.                                            *)
(*                                                                         *)
(* A selector row is a record with the fields of the key's selectors       *)
(* (q_1 .. q_5, q_m, q_c, q_arith); a wire row has w_1 .. w_4.             *)
(***************************************************************************)
EXTENDS Field

SelectorNames == {"q_1", "q_2", "q_3", "q_4", "q_5", "q_m", "q_c", "q_arith"}
WireNames == {"w_1", "w_2", "w_3", "w_4"}

\* (w_4^2 - w_4)(w_4 - 2): zero iff w_4 is 0, 1 or 2 (the q_5 sub-identity).
IsW4Bool(w4) == FMul(FSub(FSqr(w4), w4), FSub(w4, FConst(2)))

\* Prover quotient, lines 294-316: the arithmetic identity at one point of
\* the large domain, q_5's term carrying the extra alpha, gated by q_arith.
ArithmeticGate(q, w, alpha) ==
    LET T0 == FMul(FMul(w.w_1, q.q_m), w.w_2)
        T1 == FMul(w.w_1, q.q_1)
        T2 == FMul(w.w_2, q.q_2)
        T3 == FMul(w.w_3, q.q_3)
        T4 == FMul(w.w_4, q.q_4)
        T5 == FMul(FMul(IsW4Bool(w.w_4), q.q_5), alpha)
    IN  FMul(FAdd(FAdd(FAdd(FAdd(T0, T1), FAdd(T2, T3)), FAdd(T4, T5)), q.q_c),
             q.q_arith)

\* Lines 330-355 (prover) and 453-478 (verifier): the quad extraction term
\* (q_arith^2 - q_arith) * delta * (9 delta - 2 delta^2 - 7), delta = w_3 - 4 w_4.
QuadExtraction(q_arith, w3, w4) ==
    LET gate  == FSub(FSqr(q_arith), q_arith)
        delta == FSub(w3, FAdd(FAdd(w4, w4), FAdd(w4, w4)))
        nine  == FAdd(FAdd(FAdd(delta, delta), delta),
                      FAdd(FAdd(FAdd(delta, delta), delta),
                           FAdd(FAdd(delta, delta), delta)))
        poly  == FSub(FSub(nine, FAdd(FSqr(delta), FSqr(delta))), FConst(7))
    IN  FMul(gate, FMul(delta, poly))

\* Prover quotient, lines 294-359: the value added into quotient_large[i].
QuotientPointTerm(q, w, alpha, alpha_base) ==
    FMul(FAdd(ArithmeticGate(q, w, alpha), QuadExtraction(q.q_arith, w.w_3, w.w_4)),
         alpha_base)

\* What compute_quotient_contribution and compute_linear_contribution
\* return (lines 362, 412): the next widget's alpha_base.
NextAlphaBase(alpha_base, alpha) == FMul(alpha_base, FSqr(alpha))

\* Mutant of LinearRowTerm: line 388 dropped, the q_5 coefficient without alpha.
LinearRowTermNoQ5Alpha(c, e, alpha, alpha_base) ==
    LET T5 == FMul(IsW4Bool(e.w_4), c.q_5)
    IN  FMul(FMul(FAdd(FAdd(FAdd(FAdd(FMul(FMul(e.w_1, e.w_2), c.q_m), FMul(e.w_1, c.q_1)),
                                 FAdd(FMul(e.w_2, c.q_2), FMul(e.w_3, c.q_3))),
                            FAdd(FMul(e.w_4, c.q_4), T5)), c.q_c),
                  e.q_arith),
             alpha_base)

\* Prover linearisation, lines 379-410: the value added into r[i] for the
\* selector coefficients c of row i, from the wire and q_arith evaluations
\* e at z that the transcript holds.
LinearRowTerm(c, e, alpha, alpha_base) ==
    LET w_lr        == FMul(e.w_1, e.w_2)
        is_w_4_bool == FMul(IsW4Bool(e.w_4), alpha)
        T0 == FMul(w_lr, c.q_m)
        T1 == FMul(e.w_1, c.q_1)
        T2 == FMul(e.w_2, c.q_2)
        T3 == FMul(e.w_3, c.q_3)
        T4 == FMul(e.w_4, c.q_4)
        T5 == FMul(is_w_4_bool, c.q_5)
    IN  FMul(FMul(FAdd(FAdd(FAdd(FAdd(T0, T1), FAdd(T2, T3)), FAdd(T4, T5)), c.q_c),
                  e.q_arith),
             alpha_base)

\* Verifier, lines 440-482: the value added into t_eval.
QuotientEvalTerm(e, alpha_base) ==
    FMul(QuadExtraction(e.q_arith, e.w_3, e.w_4), alpha_base)
==============================================================================
