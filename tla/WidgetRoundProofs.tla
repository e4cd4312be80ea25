-------------------------- MODULE WidgetRoundProofs --------------------------
(***************************************************************************)
(* Proof that the prover's and the verifier's widget operations hand the   *)
(* next widget the same alpha_base and nu_base, for every field, every key *)
(* and every transcript.                                                   *)
(***************************************************************************)
EXTENDS WidgetRound, TLAPS

\* Where each step lies in the round, and after which step each returned
\* value has been handed on.
Rank == [quotient |-> 1, evaluations |-> 2, transcript |-> 3, nu |-> 4,
         linear |-> 5, opening |-> 6, quot_eval |-> 7, batch_eval |-> 8,
         scalar |-> 9, done |-> 10, fault |-> 10]
SetBy == [quotient |-> 1, linear |-> 5, opening |-> 6, eval |-> 7, batch |-> 8,
          scalar_alpha |-> 9, scalar_nu |-> 9]

\* The next widget's alpha_base and nu_base, from this widget's.
NextAlpha == NextAlphaBase(alpha_base, transcript["alpha"])
NextNu == FMul(nu_base, transcript["nu"])
Expected == [quotient |-> NextAlpha, linear |-> NextAlpha, eval |-> NextAlpha,
             scalar_alpha |-> NextAlpha, opening |-> NextNu, batch |-> NextNu,
             scalar_nu |-> NextNu]

\* Has operation n returned?  The scalar inputs never do when they throw.
HasReturned(n) ==
    /\ Rank[step] > SetBy[n]
    /\ ~(step = "fault" /\ n \in {"scalar_alpha", "scalar_nu"})

\* Every operation that has returned handed on the expected value.
ChainInv ==
    /\ step \in Steps
    /\ DOMAIN transcript = TranscriptNames
    /\ DOMAIN returned = ReturnNames
    /\ \A n \in ReturnNames :
          returned[n] = IF HasReturned(n) THEN Expected[n] ELSE Absent

LEMMA InitChainInv == Init => ChainInv
BY DEF Init, ChainInv, HasReturned, Rank, SetBy, Steps, ReturnNames

\* A step that leaves alpha, nu and the returned values alone and moves
\* from one step to a later one at which no further value has returned.
LEMMA QuietStep ==
    ASSUME ChainInv,
           NEW s1 \in Steps, NEW s2 \in Steps,
           step = s1, step' = s2,
           \A n \in ReturnNames : (Rank[s2] > SetBy[n]) = (Rank[s1] > SetBy[n]),
           s1 # "fault", s2 # "fault",
           returned' = returned, alpha_base' = alpha_base, nu_base' = nu_base,
           DOMAIN transcript' = TranscriptNames,
           transcript'["alpha"] = transcript["alpha"],
           transcript'["nu"] = transcript["nu"]
    PROVE  ChainInv'
BY DEF ChainInv, HasReturned, Expected, NextAlpha, NextNu

THEOREM NextChainInv == ChainInv /\ [Next]_vars => ChainInv'
<1> SUFFICES ASSUME ChainInv, [Next]_vars PROVE ChainInv'
  OBVIOUS
<1>1. CASE ProverQuotient
  BY <1>1 DEF ProverQuotient, ChainInv, HasReturned, Expected, NextAlpha, NextNu,
             Rank, SetBy, Steps, ReturnNames
<1>2. CASE AddEvaluations
  <2>1. PICK z \in Challenges :
          transcript' = [transcript EXCEPT
              !["z"] = z,
              !["w_1"] = PolyEval(wires["w_1"], z), !["w_2"] = PolyEval(wires["w_2"], z),
              !["w_3"] = PolyEval(wires["w_3"], z), !["w_4"] = PolyEval(wires["w_4"], z)]
    BY <1>2 DEF AddEvaluations
  <2>2. DOMAIN transcript' = TranscriptNames
        /\ transcript'["alpha"] = transcript["alpha"]
        /\ transcript'["nu"] = transcript["nu"]
    BY <2>1 DEF ChainInv, TranscriptNames
  <2>3. QED
    BY <1>2, <2>2, QuietStep DEF AddEvaluations, Rank, SetBy, Steps, ReturnNames
<1>3. CASE ProverTranscriptElements
  <2>1. DOMAIN transcript' = TranscriptNames
        /\ transcript'["alpha"] = transcript["alpha"]
        /\ transcript'["nu"] = transcript["nu"]
    BY <1>3 DEF ProverTranscriptElements, ChainInv, TranscriptNames
  <2>2. QED
    BY <1>3, <2>1, QuietStep DEF ProverTranscriptElements, Rank, SetBy, Steps,
                                 ReturnNames
<1>4. CASE DeriveNu
  <2>1. PICK nu \in Challenges : transcript' = [transcript EXCEPT !["nu"] = nu]
    BY <1>4 DEF DeriveNu
  <2>2. DOMAIN transcript' = TranscriptNames
        /\ transcript'["alpha"] = transcript["alpha"]
    BY <2>1 DEF ChainInv, TranscriptNames
  <2>3. QED
    BY <1>4, <2>2 DEF DeriveNu, ChainInv, HasReturned, Expected, NextAlpha,
                      Rank, SetBy, Steps, ReturnNames
<1>5. CASE ProverLinear
  BY <1>5 DEF ProverLinear, ChainInv, HasReturned, Expected, NextAlpha, NextNu,
             Rank, SetBy, Steps, ReturnNames
<1>6. CASE ProverOpening
  BY <1>6 DEF ProverOpening, ChainInv, HasReturned, Expected, NextAlpha, NextNu,
             Rank, SetBy, Steps, ReturnNames
<1>7. CASE VerifierQuotientEval
  BY <1>7 DEF VerifierQuotientEval, ChainInv, HasReturned, Expected, NextAlpha,
             NextNu, Rank, SetBy, Steps, ReturnNames
<1>8. CASE VerifierBatchEval
  BY <1>8 DEF VerifierBatchEval, ChainInv, HasReturned, Expected, NextAlpha,
             NextNu, Rank, SetBy, Steps, ReturnNames
<1>9. CASE VerifierScalarMult
  <2>1. CASE Faults
    BY <1>9, <2>1 DEF VerifierScalarMult, ChainInv, HasReturned, Expected,
                      NextAlpha, NextNu, Rank, SetBy, Steps, ReturnNames
  <2>2. CASE ~Faults
    <3>1. /\ step = "scalar" /\ step' = "done"
          /\ returned' = [returned EXCEPT !["scalar_alpha"] = NextAlpha,
                                          !["scalar_nu"] = NextNu]
          /\ UNCHANGED <<alpha_base, nu_base, transcript>>
      BY <1>9, <2>2 DEF VerifierScalarMult, ScalarReturn, Challenge, NextAlpha, NextNu
    <3>2. NextAlpha' = NextAlpha /\ NextNu' = NextNu
      BY <3>1 DEF NextAlpha, NextNu
    <3>3. ASSUME NEW n \in ReturnNames
          PROVE  returned'[n] = IF HasReturned(n)' THEN Expected'[n] ELSE Absent
      <4>1. HasReturned(n)'
        BY <3>1 DEF HasReturned, Rank, SetBy, ReturnNames
      <4>2. Expected'[n] = Expected[n]
        BY <3>2 DEF Expected
      <4>3. n \notin {"scalar_alpha", "scalar_nu"} => HasReturned(n)
        BY <3>1 DEF HasReturned, Rank, SetBy, ReturnNames
      <4>4. QED
        BY <3>1, <4>1, <4>2, <4>3 DEF ChainInv, Expected, ReturnNames
    <3>4. QED
      BY <3>1, <3>3 DEF ChainInv, Steps
  <2>3. QED
    BY <2>1, <2>2
<1>10. CASE Finished \/ UNCHANGED vars
  BY <1>10 DEF Finished, vars, ChainInv, HasReturned, Expected, NextAlpha, NextNu
<1>11. QED
  BY <1>1, <1>2, <1>3, <1>4, <1>5, <1>6, <1>7, <1>8, <1>9, <1>10 DEF Next

LEMMA ChainInvImpliesAgree == ChainInv => ChainsAgree
BY DEF ChainInv, ChainsAgree, HasReturned, Expected, Rank, SetBy, ReturnNames

(***************************************************************************)
(* For every field, key, witness and transcript, a round that reaches the  *)
(* end of append_scalar_multiplication_inputs has every prover and         *)
(* verifier operation of the widget hand the next widget the same          *)
(* alpha_base (alpha_base * alpha^2) and the same nu_base (nu_base * nu).  *)
(***************************************************************************)
THEOREM ChainsAlwaysAgree == Spec => []ChainsAgree
<1>1. Spec => []ChainInv
  BY InitChainInv, NextChainInv, PTL DEF Spec
<1>2. QED
  BY <1>1, ChainInvImpliesAgree, PTL

==============================================================================
