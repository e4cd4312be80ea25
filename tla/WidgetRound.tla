----------------------------- MODULE WidgetRound -----------------------------
(***************************************************************************)
(* One proving round and one verification round through the Turbo          *)
(* arithmetic widget: the four prover operations and the three verifier    *)
(* operations of turbo_arithmetic_widget.cpp, in the order the prover and  *)
(* the verifier call them, around a transcript.                            *)
(*                                                                         *)
(* Polynomials are coefficient vectors over the small domain.  The         *)
(* quotient buffer, which the code keeps as evaluations over the large     *)
(* coset domain, is kept as the polynomial's value at every field point,   *)
(* so its value at the challenge z can be read off; the parallel loop that *)
(* fills it is ParallelQuotient, proved to equal this atomic update.  A    *)
(* commitment [p] is p evaluated at the setup secret Tau, which is how the *)
(* group homomorphism acts on the linear combinations the verifier forms;  *)
(* the commitment to the zero polynomial is the point at infinity, which   *)
(* fails g1::on_curve.                                                     *)
(***************************************************************************)
EXTENDS TurboArithmetic, Sequences

CONSTANTS
    N,           \* key->small_domain.size
    Circuits,    \* the selector polynomials a proving key may hold
    Witnesses,   \* the wire polynomials a witness may give
    Challenges,  \* the values a Fiat-Shamir challenge may take
    Tau,         \* the setup secret
    VKNames,     \* the names present in key->constraint_selectors (verifier)
    Absent       \* a transcript entry not yet added / a value not returned

Poly == [0..(N - 1) -> Fr]

\* polynomial::evaluate(z, n): the value at x of a coefficient vector.
PolyEval(p, x) ==
    LET acc[m \in 0..N] == IF m = 0 THEN 0
                           ELSE FAdd(acc[m - 1], FMul(p[m - 1], FPow(x, m - 1)))
    IN  acc[N]

\* The selector commitments append_scalar_multiplication_inputs reads, in
\* the order it reads them, and the selector each one commits to.
CommitNames == <<"Q_1", "Q_2", "Q_3", "Q_4", "Q_5", "Q_M", "Q_C", "Q_ARITHMETIC_SELECTOR">>
SelectorOf == [Q_1 |-> "q_1", Q_2 |-> "q_2", Q_3 |-> "q_3", Q_4 |-> "q_4",
               Q_5 |-> "q_5", Q_M |-> "q_m", Q_C |-> "q_c",
               Q_ARITHMETIC_SELECTOR |-> "q_arith"]

TranscriptNames == {"alpha", "z", "nu", "w_1", "w_2", "w_3", "w_4", "q_arith"}
ReturnNames == {"quotient", "linear", "opening", "eval", "batch",
                "scalar_alpha", "scalar_nu"}

ASSUME RoundAssumption ==
    /\ N \in Nat \ {0}
    /\ Circuits \subseteq [SelectorNames -> Poly]
    /\ Witnesses \subseteq [WireNames -> Poly]
    /\ Challenges \subseteq Fr /\ Tau \in Fr
    /\ VKNames \subseteq {CommitNames[k] : k \in 1..8}
    /\ Absent \notin Fr

VARIABLES
    selectors, wires,        \* the proving key's selectors, the witness
    alpha_base, nu_base, linear_nu,  \* the chain values this widget is handed
    transcript,              \* name -> value, Absent until added
    quotient,                \* key->quotient_large, as a function on Fr
    r,                       \* the linearisation polynomial
    opening,                 \* the batched opening polynomial
    t_eval, batch_eval,      \* the verifier's accumulators
    points,                  \* the verifier's <<commitment, scalar>> pairs
    returned,                \* what each operation handed the next widget
    step                     \* where the round is

vars == <<selectors, wires, alpha_base, nu_base, linear_nu, transcript,
          quotient, r, opening, t_eval, batch_eval, points, returned, step>>

\* Selector and wire values at a point x, and row k of the selectors.
SelAt(x) == [n \in SelectorNames |-> PolyEval(selectors[n], x)]
WireAt(x) == [n \in WireNames |-> PolyEval(wires[n], x)]
SelRow(k) == [n \in SelectorNames |-> selectors[n][k]]

\* The evaluations the transcript holds, as the widgets read them.
Evals == [w_1 |-> transcript["w_1"], w_2 |-> transcript["w_2"],
          w_3 |-> transcript["w_3"], w_4 |-> transcript["w_4"],
          q_arith |-> transcript["q_arith"]]

\* The verification key's commitment to a selector.
Commitment(c) == PolyEval(selectors[SelectorOf[c]], Tau)

Init ==
    /\ selectors \in Circuits
    /\ wires \in Witnesses
    /\ alpha_base \in Challenges
    /\ nu_base \in Challenges
    /\ linear_nu \in Challenges
    /\ \E a \in Challenges :
          transcript = [n \in TranscriptNames |-> IF n = "alpha" THEN a ELSE Absent]
    /\ quotient = [x \in Fr |-> 0]
    /\ r = [k \in 0..(N - 1) |-> 0]
    /\ opening = [k \in 0..(N - 1) |-> 0]
    /\ t_eval = 0
    /\ batch_eval = 0
    /\ points = <<>>
    /\ returned = [n \in ReturnNames |-> Absent]
    /\ step = "quotient"

(***************************************************************************)
(* Prover, first pass: compute_quotient_contribution adds the widget's     *)
(* gate and quad-extraction terms, scaled by alpha_base, to the quotient   *)
(* and hands alpha_base * alpha^2 to the next widget.                      *)
(***************************************************************************)
ProverQuotient ==
    /\ step = "quotient"
    /\ quotient' = [x \in Fr |->
          FAdd(quotient[x], QuotientPointTerm(SelAt(x), WireAt(x),
                                              transcript["alpha"], alpha_base))]
    /\ returned' = [returned EXCEPT
          !["quotient"] = NextAlphaBase(alpha_base, transcript["alpha"])]
    /\ step' = "evaluations"
    /\ UNCHANGED <<selectors, wires, alpha_base, nu_base, linear_nu, transcript,
                   r, opening, t_eval, batch_eval, points>>

\* The prover derives z and adds the wire evaluations at z (prover.cpp).
AddEvaluations ==
    /\ step = "evaluations"
    /\ \E z \in Challenges :
          transcript' = [transcript EXCEPT
              !["z"] = z,
              !["w_1"] = PolyEval(wires["w_1"], z), !["w_2"] = PolyEval(wires["w_2"], z),
              !["w_3"] = PolyEval(wires["w_3"], z), !["w_4"] = PolyEval(wires["w_4"], z)]
    /\ step' = "transcript"
    /\ UNCHANGED <<selectors, wires, alpha_base, nu_base, linear_nu, quotient,
                   r, opening, t_eval, batch_eval, points, returned>>

\* compute_transcript_elements: add q_arith(z).
ProverTranscriptElements ==
    /\ step = "transcript"
    /\ transcript' = [transcript EXCEPT
          !["q_arith"] = PolyEval(selectors["q_arith"], transcript["z"])]
    /\ step' = "nu"
    /\ UNCHANGED <<selectors, wires, alpha_base, nu_base, linear_nu, quotient,
                   r, opening, t_eval, batch_eval, points, returned>>

\* The prover derives the opening challenge nu from the transcript.
DeriveNu ==
    /\ step = "nu"
    /\ \E nu \in Challenges : transcript' = [transcript EXCEPT !["nu"] = nu]
    /\ step' = "linear"
    /\ UNCHANGED <<selectors, wires, alpha_base, nu_base, linear_nu, quotient,
                   r, opening, t_eval, batch_eval, points, returned>>

\* compute_linear_contribution: add the selectors, weighted by the
\* evaluations, to the linearisation polynomial r.
ProverLinear ==
    /\ step = "linear"
    /\ r' = [k \in 0..(N - 1) |->
          FAdd(r[k], LinearRowTerm(SelRow(k), Evals, transcript["alpha"], alpha_base))]
    /\ returned' = [returned EXCEPT
          !["linear"] = NextAlphaBase(alpha_base, transcript["alpha"])]
    /\ step' = "opening"
    /\ UNCHANGED <<selectors, wires, alpha_base, nu_base, linear_nu, transcript,
                   quotient, opening, t_eval, batch_eval, points>>

\* compute_opening_poly_contribution: add nu_base * q_arith to the opening
\* polynomial and hand nu_base * nu on.
ProverOpening ==
    /\ step = "opening"
    /\ opening' = [k \in 0..(N - 1) |->
          FAdd(opening[k], FMul(selectors["q_arith"][k], nu_base))]
    /\ returned' = [returned EXCEPT !["opening"] = FMul(nu_base, transcript["nu"])]
    /\ step' = "quot_eval"
    /\ UNCHANGED <<selectors, wires, alpha_base, nu_base, linear_nu, transcript,
                   quotient, r, t_eval, batch_eval, points>>

\* compute_quotient_evaluation_contribution: the verifier's share of t(z).
VerifierQuotientEval ==
    /\ step = "quot_eval"
    /\ t_eval' = FAdd(t_eval, QuotientEvalTerm(Evals, alpha_base))
    /\ returned' = [returned EXCEPT
          !["eval"] = NextAlphaBase(alpha_base, transcript["alpha"])]
    /\ step' = "batch_eval"
    /\ UNCHANGED <<selectors, wires, alpha_base, nu_base, linear_nu, transcript,
                   quotient, r, opening, batch_eval, points>>

\* compute_batch_evaluation_contribution: add nu_base * q_arith(z).
VerifierBatchEval ==
    /\ step = "batch_eval"
    /\ batch_eval' = FAdd(batch_eval, FMul(Evals.q_arith, nu_base))
    /\ returned' = [returned EXCEPT !["batch"] = FMul(nu_base, transcript["nu"])]
    /\ step' = "scalar"
    /\ UNCHANGED <<selectors, wires, alpha_base, nu_base, linear_nu, transcript,
                   quotient, r, opening, t_eval, points>>

\* The challenge_coefficients the verifier hands this widget: its own chain
\* values, and alpha and nu as the steps.
Challenge == [alpha_base |-> alpha_base, alpha_step |-> transcript["alpha"],
              nu_base |-> nu_base, nu_step |-> transcript["nu"],
              linear_nu |-> linear_nu]

\* Mutant of Scalars: the Q_5 scalar without alpha_step (line 558 dropped).
ScalarsNoAlphaStep(ch) ==
    LET lin == FMul(FMul(ch.alpha_base, ch.linear_nu), Evals.q_arith)
    IN  [Q_1 |-> FMul(Evals.w_1, lin), Q_2 |-> FMul(Evals.w_2, lin),
         Q_3 |-> FMul(Evals.w_3, lin), Q_4 |-> FMul(Evals.w_4, lin),
         Q_5 |-> FMul(IsW4Bool(Evals.w_4), lin),
         Q_M |-> FMul(FMul(Evals.w_1, Evals.w_2), lin), Q_C |-> lin,
         Q_ARITHMETIC_SELECTOR |-> ch.nu_base]

\* Mutant of Scalars: the common factor left unreduced mod P.
ScalarsCoarse(ch) ==
    LET lin == ch.alpha_base * ch.linear_nu * Evals.q_arith
    IN  [Q_1 |-> FMul(Evals.w_1, lin), Q_2 |-> FMul(Evals.w_2, lin),
         Q_3 |-> FMul(Evals.w_3, lin), Q_4 |-> FMul(Evals.w_4, lin),
         Q_5 |-> FMul(FMul(IsW4Bool(Evals.w_4), ch.alpha_step), lin),
         Q_M |-> FMul(FMul(Evals.w_1, Evals.w_2), lin), Q_C |-> lin,
         Q_ARITHMETIC_SELECTOR |-> ch.nu_base]

\* Lines 508-589: the scalar each selector commitment is multiplied by.
Scalars(ch) ==
    LET lin == FMul(FMul(ch.alpha_base, ch.linear_nu), Evals.q_arith)
    IN  [Q_1 |-> FMul(Evals.w_1, lin), Q_2 |-> FMul(Evals.w_2, lin),
         Q_3 |-> FMul(Evals.w_3, lin), Q_4 |-> FMul(Evals.w_4, lin),
         Q_5 |-> FMul(FMul(IsW4Bool(Evals.w_4), ch.alpha_step), lin),
         Q_M |-> FMul(FMul(Evals.w_1, Evals.w_2), lin), Q_C |-> lin,
         Q_ARITHMETIC_SELECTOR |-> ch.nu_base]

\* Mutant of ScalarReturn: alpha_base advanced by one power of alpha only.
ScalarReturnOnePower(ch) ==
    [alpha |-> FMul(ch.alpha_base, ch.alpha_step),
     nu |-> FMul(ch.nu_base, ch.nu_step)]

\* Lines 591-595: the coefficients handed to the next widget.
ScalarReturn(ch) ==
    [alpha |-> NextAlphaBase(ch.alpha_base, ch.alpha_step),
     nu |-> FMul(ch.nu_base, ch.nu_step)]

\* g1::on_curve: the point at infinity, the commitment to 0, is not on it.
OnCurve(c) == Commitment(c) # 0

\* constraint_selectors.at(c) throws std::out_of_range for an absent name;
\* Reached is how many names are read before the first absent one.
Faults == \E k \in 1..8 : CommitNames[k] \notin VKNames
Reached == IF Faults
           THEN (CHOOSE k \in 1..8 : CommitNames[k] \notin VKNames
                   /\ \A m \in 1..(k - 1) : CommitNames[m] \in VKNames) - 1
           ELSE 8

\* append_scalar_multiplication_inputs: push the on-curve commitments with
\* their scalars, in order; an absent name throws out of the call, leaving
\* the pairs pushed before it, and the verification is abandoned.
VerifierScalarMult ==
    /\ step = "scalar"
    /\ LET kept == SelectSeq(SubSeq(CommitNames, 1, Reached), OnCurve)
       IN  points' = points \o [k \in 1..Len(kept) |->
                                  <<kept[k], Scalars(Challenge)[kept[k]]>>]
    /\ IF Faults
       THEN step' = "fault" /\ returned' = returned
       ELSE /\ step' = "done"
            /\ returned' = [returned EXCEPT
                  !["scalar_alpha"] = ScalarReturn(Challenge).alpha,
                  !["scalar_nu"] = ScalarReturn(Challenge).nu]
    /\ UNCHANGED <<selectors, wires, alpha_base, nu_base, linear_nu, transcript,
                   quotient, r, opening, t_eval, batch_eval>>

\* The round is over (verified or abandoned).
Finished ==
    /\ step \in {"done", "fault"}
    /\ UNCHANGED vars

Next ==
    \/ ProverQuotient \/ AddEvaluations \/ ProverTranscriptElements \/ DeriveNu
    \/ ProverLinear \/ ProverOpening
    \/ VerifierQuotientEval \/ VerifierBatchEval \/ VerifierScalarMult
    \/ Finished

Spec == Init /\ [][Next]_vars

-----------------------------------------------------------------------------
\* The multi-scalar multiplication the verifier's points describe.
MSM == LET acc[m \in 0..Len(points)] ==
               IF m = 0 THEN 0
               ELSE FAdd(acc[m - 1], FMul(points[m][2], Commitment(points[m][1])))
       IN  acc[Len(points)]

Steps == {"quotient", "evaluations", "transcript", "nu", "linear", "opening",
          "quot_eval", "batch_eval", "scalar", "done", "fault"}

TypeOK ==
    /\ transcript \in [TranscriptNames -> Fr \cup {Absent}]
    /\ quotient \in [Fr -> Fr]
    /\ r \in Poly /\ opening \in Poly
    /\ t_eval \in Fr /\ batch_eval \in Fr
    /\ \A k \in 1..Len(points) : points[k][2] \in Fr
    /\ returned \in [ReturnNames -> Fr \cup {Absent}]
    /\ step \in Steps

(***************************************************************************)
(* The quotient the prover accumulated (compute_quotient_contribution),    *)
(* read at z, splits into the verifier's t_eval                            *)
(* (compute_quotient_evaluation_contribution) and the prover's              *)
(* linearisation r (compute_linear_contribution) at z: the three code      *)
(* paths that evaluate the gate agree, alpha on the q_5 term included.     *)
(***************************************************************************)
QuotientSplit ==
    step \in {"batch_eval", "scalar", "done", "fault"} =>
        quotient[transcript["z"]] = FAdd(t_eval, PolyEval(r, transcript["z"]))

(***************************************************************************)
(* After append_scalar_multiplication_inputs, the verifier's points and    *)
(* scalars describe linear_nu * [r] + [opening], the commitments to what   *)
(* the prover's compute_linear_contribution and                            *)
(* compute_opening_poly_contribution built, and its batch evaluation       *)
(* (compute_batch_evaluation_contribution) is the opening polynomial at z. *)
(***************************************************************************)
VerifierMirrorsProver ==
    step = "done" =>
        /\ MSM = FAdd(FMul(linear_nu, PolyEval(r, Tau)), PolyEval(opening, Tau))
        /\ batch_eval = PolyEval(opening, transcript["z"])

(***************************************************************************)
(* Every operation hands the next widget the same alpha_base (quotient,    *)
(* linearisation, quotient evaluation, scalar inputs) and the same         *)
(* nu_base (opening, batch evaluation, scalar inputs), so the widgets      *)
(* after this one weight their terms alike on both sides.                  *)
(***************************************************************************)
ChainsAgree ==
    step = "done" =>
        /\ returned["linear"] = returned["quotient"]
        /\ returned["eval"] = returned["quotient"]
        /\ returned["scalar_alpha"] = returned["quotient"]
        /\ returned["batch"] = returned["opening"]
        /\ returned["scalar_nu"] = returned["opening"]

(***************************************************************************)
(* Spec section 4.2: a commitment that is absent is skipped;               *)
(* append_scalar_multiplication_inputs always completes the round.         *)
(***************************************************************************)
ScalarMultCompletes == step # "fault"

(***************************************************************************)
(* The comments at lines 472-477 of the verifier's quad extraction: when   *)
(* the verifier reads q_arith(z) = 2, its quotient term is zero iff        *)
(* delta = w_3(z) - 4 w_4(z) is 0 or 1.                                    *)
(***************************************************************************)
QuadZeroIffComment ==
    step \in {"batch_eval", "scalar", "done"} /\ Evals.q_arith = FConst(2) =>
        (QuadExtraction(Evals.q_arith, Evals.w_3, Evals.w_4) = 0
            <=> FSub(Evals.w_3, FMul(FConst(4), Evals.w_4)) \in {0, 1})
=============================================================================
