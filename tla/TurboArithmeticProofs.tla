------------------------ MODULE TurboArithmeticProofs ------------------------
(***************************************************************************)
(* The three code paths of turbo_arithmetic_widget.cpp that evaluate the   *)
(* arithmetic gate agree, for every prime field: at any point, the term    *)
(* the prover adds into quotient_large (lines 294-359) is the term the     *)
(* prover adds into the linearisation r (lines 379-410) plus the term the  *)
(* verifier adds into t_eval (lines 440-482), when the linearisation reads *)
(* that point's wire and q_arith values.  This identity is what makes      *)
(* QuotientSplit hold; the rest of QuotientSplit is the linearity of       *)
(* polynomial evaluation, which needs induction and is left to TLC.       *)
(***************************************************************************)
EXTENDS TurboArithmetic, FieldLemmas

\* The evaluations the linearisation and the verifier read, taken at a
\* point where the selectors are q and the wires are w.
PointEvals(q, w) ==
    [w_1 |-> w.w_1, w_2 |-> w.w_2, w_3 |-> w.w_3, w_4 |-> w.w_4,
     q_arith |-> q.q_arith]

\* Two factors of a product may trade places.
LEMMA MulSwap ==
    ASSUME NEW a \in Int, NEW b \in Int, NEW c \in Int
    PROVE  FMul(FMul(a, b), c) = FMul(FMul(a, c), b)
<1>1. FMul(FMul(a, b), c) = FMul(a, FMul(b, c))
  BY MulAssoc
<1>2. FMul(FMul(a, c), b) = FMul(a, FMul(c, b))
  BY MulAssoc
<1>3. FMul(b, c) = FMul(c, b)
  BY MulComm
<1>4. QED
  BY <1>1, <1>2, <1>3

\* The quad-extraction term is a field element.
LEMMA QuadType ==
    ASSUME NEW qa \in Int, NEW w3 \in Int, NEW w4 \in Int
    PROVE  QuadExtraction(qa, w3, w4) \in Fr
<1> DEFINE delta == FSub(w3, FAdd(FAdd(w4, w4), FAdd(w4, w4)))
           three == FAdd(FAdd(delta, delta), delta)
           nine  == FAdd(three, FAdd(three, three))
           poly  == FSub(FSub(nine, FAdd(FSqr(delta), FSqr(delta))), FConst(7))
           gate  == FSub(FSqr(qa), qa)
<1>1. delta \in Fr
  BY FieldType, FrInt
<1>2. three \in Fr /\ nine \in Fr
  BY <1>1, FieldType, FrInt
<1>3. FSqr(delta) \in Fr /\ FConst(7) \in Fr /\ FSqr(qa) \in Fr
  BY <1>1, PBounds DEF FSqr, FConst, Fr
<1>4. FAdd(FSqr(delta), FSqr(delta)) \in Fr /\ gate \in Fr
  BY <1>3, FieldType, FrInt
<1>5. poly \in Fr
  BY <1>2, <1>3, <1>4, FieldType, FrInt
<1>6. QED
  BY <1>1, <1>4, <1>5, FieldType, FrInt DEF QuadExtraction

(***************************************************************************)
(* At every point, for every prime field: the prover's quotient term      *)
(* (compute_quotient_contribution) equals the prover's linearisation term *)
(* (compute_linear_contribution) plus the verifier's quotient-evaluation  *)
(* term (compute_quotient_evaluation_contribution), the extra alpha on    *)
(* the q_5 term included.                                                  *)
(***************************************************************************)
THEOREM GatePathsAgree ==
    ASSUME NEW q \in [SelectorNames -> Fr], NEW w \in [WireNames -> Fr],
           NEW alpha \in Fr, NEW alpha_base \in Fr
    PROVE  QuotientPointTerm(q, w, alpha, alpha_base) =
               FAdd(LinearRowTerm(q, PointEvals(q, w), alpha, alpha_base),
                    QuotientEvalTerm(PointEvals(q, w), alpha_base))
<1> DEFINE e == PointEvals(q, w)
           B == IsW4Bool(w.w_4)
           T0 == FMul(FMul(w.w_1, q.q_m), w.w_2)
           T1 == FMul(w.w_1, q.q_1)
           T2 == FMul(w.w_2, q.q_2)
           T3 == FMul(w.w_3, q.q_3)
           T4 == FMul(w.w_4, q.q_4)
           T5 == FMul(FMul(B, q.q_5), alpha)
           S == FAdd(FAdd(FAdd(FAdd(T0, T1), FAdd(T2, T3)), FAdd(T4, T5)), q.q_c)
           Q == QuadExtraction(q.q_arith, w.w_3, w.w_4)
<1>1. /\ q.q_1 \in Int /\ q.q_2 \in Int /\ q.q_3 \in Int /\ q.q_4 \in Int
      /\ q.q_5 \in Int /\ q.q_m \in Int /\ q.q_c \in Int /\ q.q_arith \in Int
      /\ w.w_1 \in Int /\ w.w_2 \in Int /\ w.w_3 \in Int /\ w.w_4 \in Int
      /\ alpha \in Int /\ alpha_base \in Int
  BY FrInt DEF SelectorNames, WireNames
<1>2. e.w_1 = w.w_1 /\ e.w_2 = w.w_2 /\ e.w_3 = w.w_3 /\ e.w_4 = w.w_4
      /\ e.q_arith = q.q_arith
  BY DEF PointEvals
<1>3. B \in Int
  BY <1>1, PBounds DEF IsW4Bool, FMul, FSub, FSqr, FConst
<1>4. FMul(FMul(w.w_1, w.w_2), q.q_m) = T0
  BY <1>1, MulSwap
<1>5. FMul(FMul(B, alpha), q.q_5) = T5
  BY <1>1, <1>3, MulSwap
<1>6. /\ T0 \in Int /\ T1 \in Int /\ T2 \in Int /\ T3 \in Int
      /\ T4 \in Int /\ T5 \in Int
  BY <1>1, <1>3, FieldType, FrInt
<1>7. S \in Int /\ Q \in Int /\ FMul(S, q.q_arith) \in Int
  BY <1>1, <1>6, FieldType, QuadType, FrInt
<1>8. LinearRowTerm(q, e, alpha, alpha_base) = FMul(FMul(S, q.q_arith), alpha_base)
  BY <1>2, <1>4, <1>5 DEF LinearRowTerm
<1>9. QuotientEvalTerm(e, alpha_base) = FMul(Q, alpha_base)
  BY <1>2 DEF QuotientEvalTerm
<1>10. QuotientPointTerm(q, w, alpha, alpha_base)
         = FMul(FAdd(FMul(S, q.q_arith), Q), alpha_base)
  BY DEF QuotientPointTerm, ArithmeticGate
<1>11. QED
  BY <1>1, <1>7, <1>8, <1>9, <1>10, MulDistrib

(***************************************************************************)
(* The comment at lines 472-477 of the verifier's quad extraction says     *)
(* that, with q_arith = 2, the term is zero iff delta = w_3 - 4 w_4 is 0   *)
(* or 1.  For every prime modulus above 7 it is also zero at a delta that  *)
(* is neither: delta = 7/2, where 9 delta - 2 delta^2 - 7 =                *)
(* -(2 delta - 7)(delta - 1) vanishes.  So the quad_comment run's          *)
(* counterexample is not an artefact of GF(11).                            *)
(***************************************************************************)
THEOREM QuadCommentFails ==
    \E w3, w4 \in Fr :
        /\ QuadExtraction(FConst(2), w3, w4) = 0
        /\ FSub(w3, FMul(FConst(4), w4)) \notin {0, 1}
<1>1. 2 \in Fr \ {0} /\ 7 \in Fr /\ 0 \in Fr
  BY PBounds DEF Fr
<1>2. PICK i \in Fr : FMul(2, i) = 1
  BY <1>1, InverseCancels
<1>3. PICK d \in Fr : d = FMul(7, i)
  BY <1>1, <1>2, FieldType, FrInt
\* 2 d = 7 + m P for some integer m.
<1>4. PICK m \in Int : 2 * d = 7 + m * P
  <2>1. PICK k \in Int : 2 * i = 1 + k * P
    <3>1. PICK q \in Int : ((2 * i) % P) = 2 * i - q * P
      <4>1. 2 * i \in Int
        BY <1>2, FrInt
      <4>2. QED
        BY <4>1, ModQuotient, Zenon
    <3>2. ((2 * i) % P) = 1
      BY <1>2 DEF FMul
    <3>3. 2 * i = 1 + q * P
      BY <3>1, <3>2, <1>2, FrInt, PBounds
    <3>4. QED
      BY <3>3
  <2>2. PICK q \in Int : d = 7 * i - q * P
    <3>1. 7 * i \in Int
      BY <1>2, FrInt
    <3>2. QED
      BY <1>3, <3>1, ModQuotient, Zenon DEF FMul
  <2>3. 2 * d = 7 + (7 * k - 2 * q) * P /\ 7 * k - 2 * q \in Int
    BY <1>2, <2>1, <2>2, FrInt, PBounds
  <2>4. QED
    BY <2>3
<1>5. d # 0 /\ d # 1
  <2>1. d \in Int
    BY <1>3, FrInt
  <2>2. m * P # -7 /\ m * P # -5
    BY PBounds
  <2>3. m * P \in Int
    BY PBounds
  <2>4. d # 0
    <3>1. SUFFICES ASSUME d = 0 PROVE FALSE
      OBVIOUS
    <3>2. 7 + m * P = 0
      BY <1>4, <3>1
    <3>3. QED
      BY <2>2, <2>3, <3>2
  <2>5. d # 1
    <3>1. SUFFICES ASSUME d = 1 PROVE FALSE
      OBVIOUS
    <3>2. 7 + m * P = 2
      BY <1>4, <3>1
    <3>3. QED
      BY <2>2, <2>3, <3>2
  <2>6. QED
    BY <2>4, <2>5
\* The quad term at w_3 = d, w_4 = 0 stands for an integer divisible by P.
<1> DEFINE delta == FSub(d, FAdd(FAdd(0, 0), FAdd(0, 0)))
           three == FAdd(FAdd(delta, delta), delta)
           nine  == FAdd(three, FAdd(three, three))
           poly  == FSub(FSub(nine, FAdd(FSqr(delta), FSqr(delta))), FConst(7))
           gate  == FSub(FSqr(FConst(2)), FConst(2))
           D3 == (d + d) + d
           R == ((2 * 2) - 2) * (d * (((D3 + (D3 + D3)) - (d * d + d * d)) - 7))
<1>6. Rep(d, d) /\ Rep(0, 0) /\ Rep(FConst(2), 2) /\ Rep(FConst(7), 7)
  BY <1>1, <1>3, RepAtom, RepConst
<1>7. Rep(delta, d)
  <2>1. Rep(FAdd(FAdd(0, 0), FAdd(0, 0)), (0 + 0) + (0 + 0))
    BY <1>6, RepAdd
  <2>2. Rep(delta, d - ((0 + 0) + (0 + 0)))
    BY <1>6, <2>1, RepSub
  <2>3. d - ((0 + 0) + (0 + 0)) = d
    BY <1>3, FrInt
  <2>4. QED
    BY <2>2, <2>3
<1>8. Rep(nine, D3 + (D3 + D3))
  <2>1. Rep(three, D3)
    BY <1>7, RepAdd
  <2>2. QED
    BY <2>1, RepAdd
<1>9. Rep(poly, ((D3 + (D3 + D3)) - (d * d + d * d)) - 7)
  <2>1. Rep(FSqr(delta), d * d)
    BY <1>7, RepMul DEF FSqr, FMul
  <2>2. Rep(FAdd(FSqr(delta), FSqr(delta)), d * d + d * d)
    BY <2>1, RepAdd
  <2>3. QED
    BY <1>6, <1>8, <2>2, RepSub
<1>10. Rep(gate, (2 * 2) - 2)
  <2>1. Rep(FSqr(FConst(2)), 2 * 2)
    BY <1>6, RepMul DEF FSqr, FMul
  <2>2. QED
    BY <1>6, <2>1, RepSub
<1>11. Rep(QuadExtraction(FConst(2), d, 0), R)
  <2>1. Rep(FMul(delta, poly), d * (((D3 + (D3 + D3)) - (d * d + d * d)) - 7))
    BY <1>7, <1>9, RepMul
  <2>2. Rep(FMul(gate, FMul(delta, poly)), R)
    BY <1>10, <2>1, RepMul
  <2>3. QED
    BY <2>2 DEF QuadExtraction
<1>12. R = 0 + (2 * d * m * (1 - d)) * P /\ 2 * d * m * (1 - d) \in Int
  <2>1. d \in Int
    BY <1>3, FrInt
  <2>2. R = 2 * d * (2 * d - 7 - m * P * d)
    BY <1>4, <2>1, PBounds
  <2>3. QED
    BY <1>4, <2>1, <2>2, PBounds
<1>13. QuadExtraction(FConst(2), d, 0) = 0
  BY <1>6, <1>11, <1>12, RepCongEq
<1>14. FSub(d, FMul(FConst(4), 0)) = d
  BY <1>3, PBounds DEF FSub, FMul, FConst, Fr
<1>15. QED
  BY <1>1, <1>3, <1>5, <1>13, <1>14
==============================================================================
