---------------------------- MODULE PublicInputs ----------------------------
(***************************************************************************)
(* compute_public_input_delta (public_inputs.cpp, lines 118-143): the loop  *)
(* that folds every public input into a numerator and a denominator, the   *)
(* i-th subgroup root built by repeated multiplication, then one inversion *)
(* and the product.  The arguments are fixed for the call and chosen in    *)
(* Init from small sets; each loop iteration is one step.                  *)
(***************************************************************************)
EXTENDS DeltaContract

\* The constants, the arguments, delta and the reference products are those
\* of DeltaContract, the promise this loop keeps.
VARIABLES
    numerator, denominator, work_root,        \* the loop's accumulators
    idx                                       \* inputs already folded in

vars == <<inputs, beta, gamma, subgroup_generator, numerator, denominator,
          work_root, idx, delta>>

Init ==
    /\ inputs \in InputSeqs
    /\ beta \in Challenges
    /\ gamma \in Challenges
    /\ subgroup_generator \in Generators
    /\ numerator = 1
    /\ denominator = 1
    /\ work_root = 1
    /\ idx = 0
    /\ delta = NoDelta

\* Mutant: T2 taken from T1 after T0 was added to it, so the coset
\* generator also multiplies witness + gamma.
LoopBodyLateCoset ==
    /\ idx < Len(inputs)
    /\ LET T0 == FAdd(inputs[idx + 1], gamma)
           T1 == FAdd(FMul(work_root, beta), T0)
           T2 == FAdd(FMul(T1, CosetGenerator), T0)
       IN  /\ numerator' = FMul(numerator, T2)
           /\ denominator' = FMul(denominator, T1)
    /\ work_root' = FMul(work_root, subgroup_generator)
    /\ idx' = idx + 1
    /\ UNCHANGED <<inputs, beta, gamma, subgroup_generator, delta>>

\* Mutant: work_root multiplied without the final reduction.
LoopBodyUnreduced ==
    /\ idx < Len(inputs)
    /\ LET T0 == FAdd(inputs[idx + 1], gamma)
           T1 == FMul(work_root, beta)
           T2 == FMul(T1, CosetGenerator)
       IN  /\ numerator' = FMul(numerator, FAdd(T2, T0))
           /\ denominator' = FMul(denominator, FAdd(T1, T0))
    /\ work_root' = work_root * subgroup_generator
    /\ idx' = idx + 1
    /\ UNCHANGED <<inputs, beta, gamma, subgroup_generator, delta>>

\* Lines 130-139: one iteration for the public input `witness`.
LoopBody ==
    /\ idx < Len(inputs)
    /\ LET T0 == FAdd(inputs[idx + 1], gamma)
           T1 == FMul(work_root, beta)
           T2 == FMul(T1, CosetGenerator)
       IN  /\ numerator' = FMul(numerator, FAdd(T2, T0))
           /\ denominator' = FMul(denominator, FAdd(T1, T0))
    /\ work_root' = FMul(work_root, subgroup_generator)
    /\ idx' = idx + 1
    /\ UNCHANGED <<inputs, beta, gamma, subgroup_generator, delta>>

\* Lines 140-142: denominator.invert() (no check for zero), then the product.
Return ==
    /\ idx = Len(inputs)
    /\ delta = NoDelta
    /\ delta' = FMul(FInv(denominator), numerator)
    /\ UNCHANGED <<inputs, beta, gamma, subgroup_generator, numerator,
                   denominator, work_root, idx>>

\* The call has returned.
Returned ==
    /\ delta # NoDelta
    /\ UNCHANGED vars

Next == LoopBody \/ Return \/ Returned

Spec == Init /\ [][Next]_vars

------------------------------------------------------------------------------
\* The definition the code is measured against (spec section 4.3): with
\* g^e the e-th power of the generator, the public input at row r (counted
\* from Offset) contributes v + beta k g^r + gamma above and v + beta g^r +
\* gamma below.
RowProduct(ins, b, c, g, k, offset) ==
    LET term(r) == FAdd(FAdd(ins[r], FMul(FMul(FPow(g, r - 1 + offset), b), k)), c)
        prod[m \in 0..Len(ins)] == IF m = 0 THEN 1 ELSE FMul(prod[m - 1], term(m))
    IN  prod[Len(ins)]

RefNumerator(offset) ==
    RowProduct(inputs, beta, gamma, subgroup_generator, CosetGenerator, offset)
RefDenominator(offset) ==
    RowProduct(inputs, beta, gamma, subgroup_generator, 1, offset)

TypeOK ==
    /\ inputs \in InputSeqs
    /\ beta \in Challenges /\ gamma \in Challenges
    /\ subgroup_generator \in Generators
    /\ numerator \in Fr /\ denominator \in Fr /\ work_root \in Fr
    /\ idx \in 0..Len(inputs)
    /\ delta \in Fr \cup {NoDelta}

\* The returned delta is the ratio of the two row products with the public
\* input of row r paired with g^r (row 0 with 1), the iteratively built
\* work_root standing in for the exponentiation; with no public inputs it is
\* 1.  Whenever that ratio exists, compute_public_input_delta returns it.
DeltaCorrect ==
    delta # NoDelta /\ RefDenominator(0) # 0 =>
        FMul(delta, RefDenominator(0)) = RefNumerator(0)

(***************************************************************************)
(* The value compute_public_input_delta returns, multiplied by the         *)
(* denominator product of spec section 4.3, is the numerator product,      *)
(* whenever the denominator is non-zero: the code's delta is the ratio the *)
(* permutation argument needs, for any prime field and any number of      *)
(* public inputs.                                                          *)
(***************************************************************************)
DeltaIsRatio == delta # NoDelta => IsRatio(delta)

\* Spec section 8's example, delta([5], 2, 3, 7) = (7*2*k+5+3)/(7*2+5+3),
\* and the source comment's product over i = 1..m pair the first public
\* input with g^1.  Checked against the code as a violation run.
DeltaOneBased ==
    delta # NoDelta /\ RefDenominator(1) # 0 =>
        FMul(delta, RefDenominator(1)) = RefNumerator(1)

\* Spec section 7: a zero denominator is a degenerate challenge and the
\* proof aborts; no delta is produced from it.  Checked against the code as
\* a violation run.
DegenerateAborts ==
    delta # NoDelta => denominator # 0
==============================================================================
