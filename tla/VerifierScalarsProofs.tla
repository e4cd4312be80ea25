------------------------ MODULE VerifierScalarsProofs ------------------------
(***************************************************************************)
(* The scalars append_scalar_multiplication_inputs gives the selector      *)
(* commitments (turbo_arithmetic_widget.cpp, lines 508-589) are the        *)
(* coefficients with which compute_linear_contribution (lines 379-410) and *)
(* compute_opening_poly_contribution (lines 414-425) combine the same      *)
(* selectors, the former scaled by linear_nu.  At any point where the      *)
(* selectors take the values c, the scalars combined with c give           *)
(* linear_nu times the linearisation term plus the opening term; since a   *)
(* commitment is a linear map, this is the pointwise half of               *)
(* VerifierMirrorsProver.  The other half, that evaluation at Tau is       *)
(* linear, is a fact about the recursive PolyEval and is left to TLC.      *)
(***************************************************************************)
EXTENDS WidgetRound, FieldLemmas

\* The verifier's multi-scalar multiplication, at a point where the
\* selectors are c, over the eight commitments in the order it pushes
\* them, all present and on the curve.
ScalarCombination(s, c) ==
    FAdd(FAdd(FAdd(FAdd(FAdd(FAdd(FAdd(FAdd(0,
        FMul(s.Q_1, c.q_1)), FMul(s.Q_2, c.q_2)), FMul(s.Q_3, c.q_3)),
        FMul(s.Q_4, c.q_4)), FMul(s.Q_5, c.q_5)), FMul(s.Q_M, c.q_m)),
        FMul(s.Q_C, c.q_c)), FMul(s.Q_ARITHMETIC_SELECTOR, c.q_arith))

\* The challenge coefficients the verifier passes in.
ChallengeRecords ==
    [alpha_base : Fr, alpha_step : Fr, nu_base : Fr, nu_step : Fr,
     linear_nu : Fr]

(***************************************************************************)
(* For every prime field, every selector value, every challenge and every *)
(* evaluation in the transcript: the verifier's scalars (Scalars, lines    *)
(* 508-589) combined with the selectors give linear_nu times the prover's  *)
(* linearisation term (LinearRowTerm, compute_linear_contribution) plus    *)
(* the prover's opening term q_arith * nu_base                             *)
(* (compute_opening_poly_contribution).                                    *)
(***************************************************************************)
THEOREM ScalarsMatchProver ==
    ASSUME NEW c \in [SelectorNames -> Fr], NEW ch \in ChallengeRecords,
           transcript["w_1"] \in Fr, transcript["w_2"] \in Fr,
           transcript["w_3"] \in Fr, transcript["w_4"] \in Fr,
           transcript["q_arith"] \in Fr
    PROVE  ScalarCombination(Scalars(ch), c) =
               FAdd(FMul(ch.linear_nu,
                         LinearRowTerm(c, Evals, ch.alpha_step, ch.alpha_base)),
                    FMul(c.q_arith, ch.nu_base))
<1> DEFINE w1 == Evals.w_1
           w2 == Evals.w_2
           w3 == Evals.w_3
           w4 == Evals.w_4
           qe == Evals.q_arith
           ab == ch.alpha_base
           ast == ch.alpha_step
           nb == ch.nu_base
           ln == ch.linear_nu
           bv == IsW4Bool(w4)
           lin == FMul(FMul(ab, ln), qe)
           Lin == (ab * ln) * qe
\* The verifier's eight products scalar * selector, and what they stand for.
<1> DEFINE t1 == FMul(FMul(w1, lin), c.q_1)
           t2 == FMul(FMul(w2, lin), c.q_2)
           t3 == FMul(FMul(w3, lin), c.q_3)
           t4 == FMul(FMul(w4, lin), c.q_4)
           t5 == FMul(FMul(FMul(bv, ast), lin), c.q_5)
           tm == FMul(FMul(FMul(w1, w2), lin), c.q_m)
           tc == FMul(lin, c.q_c)
           ta == FMul(nb, c.q_arith)
           X1 == (w1 * Lin) * c.q_1
           X2 == (w2 * Lin) * c.q_2
           X3 == (w3 * Lin) * c.q_3
           X4 == (w4 * Lin) * c.q_4
           X5 == ((bv * ast) * Lin) * c.q_5
           Xm == ((w1 * w2) * Lin) * c.q_m
           Xc == Lin * c.q_c
           Xa == nb * c.q_arith
           lhs == FAdd(FAdd(FAdd(FAdd(FAdd(FAdd(FAdd(FAdd(0, t1), t2), t3), t4),
                                 t5), tm), tc), ta)
           X == (((((((0 + X1) + X2) + X3) + X4) + X5) + Xm) + Xc) + Xa
\* The prover's linearisation term and opening term, and what they stand for.
<1> DEFINE T0 == FMul(FMul(w1, w2), c.q_m)
           T1 == FMul(w1, c.q_1)
           T2 == FMul(w2, c.q_2)
           T3 == FMul(w3, c.q_3)
           T4 == FMul(w4, c.q_4)
           T5 == FMul(FMul(bv, ast), c.q_5)
           S == FAdd(FAdd(FAdd(FAdd(T0, T1), FAdd(T2, T3)), FAdd(T4, T5)), c.q_c)
           Y0 == (w1 * w2) * c.q_m
           Y1 == w1 * c.q_1
           Y2 == w2 * c.q_2
           Y3 == w3 * c.q_3
           Y4 == w4 * c.q_4
           Y5 == (bv * ast) * c.q_5
           YS == (((Y0 + Y1) + (Y2 + Y3)) + (Y4 + Y5)) + c.q_c
           rhs == FAdd(FMul(ln, FMul(FMul(S, qe), ab)), FMul(c.q_arith, nb))
           Y == ln * ((YS * qe) * ab) + c.q_arith * nb
<1>1. /\ w1 \in Fr /\ w2 \in Fr /\ w3 \in Fr /\ w4 \in Fr /\ qe \in Fr
      /\ ab \in Fr /\ ast \in Fr /\ nb \in Fr /\ ln \in Fr
      /\ c.q_1 \in Fr /\ c.q_2 \in Fr /\ c.q_3 \in Fr /\ c.q_4 \in Fr
      /\ c.q_5 \in Fr /\ c.q_m \in Fr /\ c.q_c \in Fr /\ c.q_arith \in Fr
  BY DEF Evals, ChallengeRecords, SelectorNames
<1>2. bv \in Fr /\ 0 \in Fr
  BY <1>1, PBounds DEF IsW4Bool, FMul, FSub, FSqr, FConst, Fr
<1>3. /\ Rep(w1, w1) /\ Rep(w2, w2) /\ Rep(w3, w3) /\ Rep(w4, w4)
      /\ Rep(qe, qe) /\ Rep(ab, ab) /\ Rep(ast, ast) /\ Rep(nb, nb)
      /\ Rep(ln, ln) /\ Rep(bv, bv) /\ Rep(0, 0)
      /\ Rep(c.q_1, c.q_1) /\ Rep(c.q_2, c.q_2) /\ Rep(c.q_3, c.q_3)
      /\ Rep(c.q_4, c.q_4) /\ Rep(c.q_5, c.q_5) /\ Rep(c.q_m, c.q_m)
      /\ Rep(c.q_c, c.q_c) /\ Rep(c.q_arith, c.q_arith)
  BY <1>1, <1>2, RepAtom
<1>4. /\ Rep(FMul(w1, w2), w1 * w2) /\ Rep(FMul(bv, ast), bv * ast)
      /\ Rep(FMul(ab, ln), ab * ln)
  BY <1>3, RepMul
<1>5. Rep(lin, Lin)
  BY <1>3, <1>4, RepMul
\* The verifier's side.
<1>6. /\ Rep(FMul(w1, lin), w1 * Lin) /\ Rep(FMul(w2, lin), w2 * Lin)
      /\ Rep(FMul(w3, lin), w3 * Lin) /\ Rep(FMul(w4, lin), w4 * Lin)
      /\ Rep(FMul(FMul(bv, ast), lin), (bv * ast) * Lin)
      /\ Rep(FMul(FMul(w1, w2), lin), (w1 * w2) * Lin)
  BY <1>3, <1>4, <1>5, RepMul
<1>7. /\ Rep(t1, X1) /\ Rep(t2, X2) /\ Rep(t3, X3) /\ Rep(t4, X4)
      /\ Rep(t5, X5) /\ Rep(tm, Xm) /\ Rep(tc, Xc) /\ Rep(ta, Xa)
  BY <1>3, <1>5, <1>6, RepMul
<1>8. Rep(lhs, X)
  <2>1. Rep(FAdd(FAdd(FAdd(0, t1), t2), t3), ((0 + X1) + X2) + X3)
    BY <1>3, <1>7, RepAdd
  <2>2. Rep(FAdd(FAdd(FAdd(FAdd(FAdd(0, t1), t2), t3), t4), t5),
            (((((0 + X1) + X2) + X3) + X4) + X5))
    BY <1>7, <2>1, RepAdd
  <2>3. QED
    BY <1>7, <2>2, RepAdd
<1>9. ScalarCombination(Scalars(ch), c) = lhs
  BY DEF ScalarCombination, Scalars, Evals
\* The prover's side.
<1>10. /\ Rep(T0, Y0) /\ Rep(T1, Y1) /\ Rep(T2, Y2) /\ Rep(T3, Y3)
       /\ Rep(T4, Y4) /\ Rep(T5, Y5)
  BY <1>3, <1>4, RepMul
<1>11. Rep(S, YS)
  <2>1. Rep(FAdd(FAdd(T0, T1), FAdd(T2, T3)), (Y0 + Y1) + (Y2 + Y3))
    BY <1>10, RepAdd
  <2>2. Rep(FAdd(T4, T5), Y4 + Y5)
    BY <1>10, RepAdd
  <2>3. QED
    BY <1>3, <2>1, <2>2, RepAdd
<1>12. Rep(rhs, Y)
  <2>1. Rep(FMul(FMul(S, qe), ab), (YS * qe) * ab)
    BY <1>3, <1>11, RepMul
  <2>2. Rep(FMul(ln, FMul(FMul(S, qe), ab)), ln * ((YS * qe) * ab))
    BY <1>3, <2>1, RepMul
  <2>3. Rep(FMul(c.q_arith, nb), c.q_arith * nb)
    BY <1>3, RepMul
  <2>4. QED
    BY <2>2, <2>3, RepAdd
<1>13. FAdd(FMul(ln, LinearRowTerm(c, Evals, ast, ab)), FMul(c.q_arith, nb)) = rhs
  BY DEF LinearRowTerm
\* The two sides stand for the same integer.
<1>14. X = Y
  <2>1. /\ w1 \in Int /\ w2 \in Int /\ w3 \in Int /\ w4 \in Int /\ qe \in Int
        /\ ab \in Int /\ ast \in Int /\ nb \in Int /\ ln \in Int /\ bv \in Int
        /\ c.q_1 \in Int /\ c.q_2 \in Int /\ c.q_3 \in Int /\ c.q_4 \in Int
        /\ c.q_5 \in Int /\ c.q_m \in Int /\ c.q_c \in Int /\ c.q_arith \in Int
    BY <1>1, <1>2, FrInt
  <2>2. QED
    BY <2>1
<1>15. QED
  BY <1>8, <1>9, <1>12, <1>13, <1>14, RepEq
==============================================================================
