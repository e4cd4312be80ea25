------------------------- MODULE PublicInputsProofs -------------------------
(***************************************************************************)
(* Proofs about compute_public_input_delta for every prime, every generator *)
(* and every number of public inputs: the loop's accumulators stay field   *)
(* elements, and the returned delta is the ratio of the two row products  *)
(* of spec section 4.3, row r of the public inputs paired with g^(r-1).    *)
(*                                                                         *)
(* The reference products of PublicInputs are recursive functions, which  *)
(* the provers cannot unfold without induction.  Here a product is given   *)
(* by the recurrence that defines it: a "table" t with t[0] = 1 and        *)
(* t[m] = t[m-1] * term(m), the powers of g by pw[0] = 1 and               *)
(* pw[m] = pw[m-1] * g.  The theorem holds for every such table, and the   *)
(* recursive RowProduct of PublicInputs is one (TLC checks DeltaCorrect on *)
(* it).                                                                    *)
(***************************************************************************)
EXTENDS PublicInputs, FieldLemmas

\* After idx iterations the loop holds g^idx and the two products of the
\* first idx rows; once it has returned, delta is their quotient.
AccInv ==
    /\ TypeOK
    /\ \A pw \in Tables : PowTable(pw) =>
         /\ work_root = pw[idx]
         /\ \A num \in Tables : ProdTable(num, CosetGenerator, pw) => numerator = num[idx]
         /\ \A den \in Tables : ProdTable(den, 1, pw) => denominator = den[idx]
    /\ delta # NoDelta => idx = L /\ delta = FMul(FInv(denominator), numerator)

-----------------------------------------------------------------------------
USE PBounds, InputsAssumption

\* A sequence of public inputs is indexed 1..Len and holds field elements.
LEMMA InputSeqFacts ==
    ASSUME NEW s \in InputSeqs
    PROVE  /\ Len(s) \in Nat
           /\ DOMAIN s = 1..Len(s)
           /\ \A m \in 1..Len(s) : s[m] \in Fr
<1>1. PICK n \in 0..MaxInputs : s \in [1..n -> InputValues]
  BY DEF InputSeqs
<1>2. Len(s) = n
  BY <1>1
<1>3. QED
  BY <1>1, <1>2

\* The code adds beta g^i k to (witness + gamma); the spec adds witness,
\* then beta g^i k, then gamma: the same element.
LEMMA RegroupRow ==
    ASSUME NEW x \in Int, NEW v \in Int, NEW c \in Int
    PROVE  FAdd(x, FAdd(v, c)) = FAdd(FAdd(v, x), c)
<1>1. FAdd(FAdd(x, v), c) = FAdd(x, FAdd(v, c))
  BY AddAssoc
<1>2. FAdd(x, v) = FAdd(v, x)
  BY AddComm
<1>3. QED
  BY <1>1, <1>2

\* (n / d) * d = n for a non-zero d.
LEMMA RatioCancels ==
    ASSUME NEW d \in Fr \ {0}, NEW n \in Fr
    PROVE  FMul(FMul(FInv(d), n), d) = n
<1> DEFINE i == FInv(d)
<1>1. i \in Fr /\ FMul(d, i) = 1
  BY InverseCancels
<1>2. d \in Int /\ n \in Int /\ i \in Int
  BY <1>1, FrInt
<1>3. FMul(FMul(i, n), d) = FMul(i, FMul(n, d))
  BY <1>2, MulAssoc
<1>4. FMul(n, d) = FMul(d, n)
  BY <1>2, MulComm
<1>5. FMul(i, FMul(d, n)) = FMul(FMul(i, d), n)
  BY <1>2, MulAssoc
<1>6. FMul(i, d) = 1
  BY <1>1, <1>2, MulComm
<1>7. QED
  BY <1>3, <1>4, <1>5, <1>6, Identities

THEOREM InitAccInv == Init => AccInv
<1> SUFFICES ASSUME Init PROVE AccInv
  OBVIOUS
<1>1. inputs \in InputSeqs
  BY DEF Init
<1>2. Len(inputs) \in Nat
  BY <1>1, InputSeqFacts
<1>3. TypeOK
  BY <1>2 DEF Init, TypeOK, Fr
<1>4. QED
  BY <1>3 DEF Init, AccInv, PowTable, ProdTable, Tables, L

THEOREM NextAccInv == AccInv /\ [Next]_vars => AccInv'
<1> SUFFICES ASSUME AccInv, [Next]_vars PROVE AccInv'
  OBVIOUS
<1>0. /\ Len(inputs) \in Nat /\ DOMAIN inputs = 1..Len(inputs)
      /\ \A m \in 1..Len(inputs) : inputs[m] \in Fr
      /\ beta \in Fr /\ gamma \in Fr /\ subgroup_generator \in Fr
      /\ numerator \in Fr /\ denominator \in Fr /\ work_root \in Fr
      /\ idx \in 0..Len(inputs) /\ CosetGenerator \in Fr
      /\ L = Len(inputs)
  BY InputSeqFacts DEF AccInv, TypeOK, L
<1>1. CASE LoopBody
  <2> DEFINE v == inputs[idx + 1]
             T0 == FAdd(v, gamma)
             T1 == FMul(work_root, beta)
             T2 == FMul(T1, CosetGenerator)
  <2>1. idx + 1 \in 1..L /\ idx \in Nat /\ v \in Fr
    BY <1>0, <1>1 DEF LoopBody, L
  <2>2. T0 \in Fr /\ T1 \in Fr /\ T2 \in Fr
    BY <1>0, <2>1, FieldType, FrInt
  <2>2a. T0 \in Int /\ T1 \in Int /\ T2 \in Int /\ v \in Int /\ gamma \in Int
    BY <1>0, <2>1, <2>2, FrInt
  <2>3. /\ numerator' = FMul(numerator, FAdd(T2, T0))
        /\ denominator' = FMul(denominator, FAdd(T1, T0))
        /\ work_root' = FMul(work_root, subgroup_generator)
        /\ idx' = idx + 1
        /\ UNCHANGED <<inputs, beta, gamma, subgroup_generator, delta>>
    BY <1>1 DEF LoopBody
  <2>4. FAdd(T2, T0) \in Fr /\ FAdd(T1, T0) \in Fr
    BY <2>2, FieldType, FrInt
  <2>5. numerator' \in Fr /\ denominator' \in Fr /\ work_root' \in Fr
    BY <1>0, <2>3, <2>4, FieldType, FrInt
  <2>6. delta = NoDelta
    <3>1. L \in Nat
      BY <1>0
    <3>2. idx + 1 <= L
      BY <2>1, <3>1
    <3>3. idx # L
      BY <2>1, <3>1, <3>2
    <3>4. QED
      BY <3>3 DEF AccInv
  <2>7. TypeOK'
    BY <1>0, <2>1, <2>3, <2>5, <2>6 DEF AccInv, TypeOK, L
  <2>8. ASSUME NEW pw \in Tables, PowTable(pw)
        PROVE  /\ work_root' = pw[idx + 1]
               /\ \A num \in Tables : ProdTable(num, CosetGenerator, pw) =>
                     numerator' = num[idx + 1]
               /\ \A den \in Tables : ProdTable(den, 1, pw) =>
                     denominator' = den[idx + 1]
    <3>1. work_root = pw[idx]
      BY <2>8 DEF AccInv
    <3>2. pw[idx + 1] = FMul(pw[idx], subgroup_generator)
      BY <2>1, <2>8 DEF PowTable
    <3>3. FAdd(T2, T0) = FAdd(FAdd(v, T2), gamma)
      BY <2>2a, RegroupRow
    <3>4. FAdd(T2, T0) = RowTerm(idx + 1, CosetGenerator, pw)
      BY <2>1, <3>1, <3>3 DEF RowTerm
    <3>5. FAdd(T1, T0) = RowTerm(idx + 1, 1, pw)
      <4>1. FMul(T1, 1) = T1
        BY <2>2, Identities
      <4>2. FAdd(T1, T0) = FAdd(FAdd(v, T1), gamma)
        BY <2>2a, RegroupRow
      <4>3. QED
        BY <2>1, <3>1, <4>1, <4>2 DEF RowTerm
    <3>6. ASSUME NEW num \in Tables, ProdTable(num, CosetGenerator, pw)
          PROVE  numerator' = num[idx + 1]
      <4>1. numerator = num[idx]
        BY <2>8, <3>6 DEF AccInv
      <4>2. num[idx + 1] = FMul(num[idx], RowTerm(idx + 1, CosetGenerator, pw))
        BY <2>1, <3>6 DEF ProdTable
      <4>3. QED
        BY <2>3, <3>4, <4>1, <4>2
    <3>7. ASSUME NEW den \in Tables, ProdTable(den, 1, pw)
          PROVE  denominator' = den[idx + 1]
      <4>1. denominator = den[idx]
        BY <2>8, <3>7 DEF AccInv
      <4>2. den[idx + 1] = FMul(den[idx], RowTerm(idx + 1, 1, pw))
        BY <2>1, <3>7 DEF ProdTable
      <4>3. QED
        BY <2>3, <3>5, <4>1, <4>2
    <3>8. QED
      BY <2>3, <3>1, <3>2, <3>6, <3>7
  <2>9. /\ L' = L /\ Tables' = Tables
        /\ \A pw : PowTable(pw)' = PowTable(pw)
        /\ \A t, k, pw : ProdTable(t, k, pw)' = ProdTable(t, k, pw)
    BY <2>3 DEF L, Tables, PowTable, ProdTable, RowTerm
  <2>10. QED
    BY <2>3, <2>6, <2>7, <2>8, <2>9 DEF AccInv
<1>2. CASE Return
  <2>1. /\ delta' = FMul(FInv(denominator), numerator)
        /\ UNCHANGED <<inputs, beta, gamma, subgroup_generator, numerator,
                       denominator, work_root, idx>>
        /\ idx = L
    BY <1>2 DEF Return, L
  <2>2. FInv(denominator) \in Fr
    BY <1>0, InverseType
  <2>3. FMul(FInv(denominator), numerator) \in Fr
    BY <1>0, <2>2, FieldType, FrInt
  <2>4. TypeOK'
    BY <2>1, <2>3 DEF AccInv, TypeOK
  <2>5. /\ L' = L /\ Tables' = Tables
        /\ \A pw : PowTable(pw)' = PowTable(pw)
        /\ \A t, k, pw : ProdTable(t, k, pw)' = ProdTable(t, k, pw)
    BY <2>1 DEF L, Tables, PowTable, ProdTable, RowTerm
  <2>6. QED
    BY <2>1, <2>4, <2>5 DEF AccInv
<1>3. CASE Returned \/ UNCHANGED vars
  <2>1. UNCHANGED vars
    BY <1>3 DEF Returned
  <2>2. /\ L' = L /\ Tables' = Tables
        /\ \A pw : PowTable(pw)' = PowTable(pw)
        /\ \A t, k, pw : ProdTable(t, k, pw)' = ProdTable(t, k, pw)
    BY <2>1 DEF vars, L, Tables, PowTable, ProdTable, RowTerm
  <2>3. TypeOK'
    BY <2>1 DEF vars, AccInv, TypeOK
  <2>4. QED
    BY <2>1, <2>2, <2>3 DEF vars, AccInv
<1>4. QED
  BY <1>1, <1>2, <1>3 DEF Next

\* Once the loop has run over every input, the quotient of its
\* accumulators is the ratio of the two row products.
LEMMA ReturnRatio ==
    ASSUME AccInv, idx = L
    PROVE  IsRatio(FMul(FInv(denominator), numerator))
<1> SUFFICES ASSUME NEW pw \in Tables, PowTable(pw),
                    NEW num \in Tables, ProdTable(num, CosetGenerator, pw),
                    NEW den \in Tables, ProdTable(den, 1, pw), den[L] # 0
             PROVE  FMul(FMul(FInv(denominator), numerator), den[L]) = num[L]
  BY DEF IsRatio
<1>1. numerator = num[L] /\ denominator = den[L]
  BY DEF AccInv
<1>2. numerator \in Fr /\ denominator \in Fr \ {0}
  BY <1>1 DEF AccInv, TypeOK
<1>3. QED
  BY <1>1, <1>2, RatioCancels

LEMMA AccInvImpliesRatio == AccInv => DeltaIsRatio
<1> SUFFICES ASSUME AccInv, delta # NoDelta
             PROVE  IsRatio(delta)
  BY DEF DeltaIsRatio
<1>1. idx = L /\ delta = FMul(FInv(denominator), numerator)
  BY DEF AccInv
<1>2. QED
  BY <1>1, ReturnRatio

(***************************************************************************)
(* The loop's accumulators, the subgroup root it builds and the returned   *)
(* delta are always field elements (field_t::invert of 0 included).        *)
(***************************************************************************)
THEOREM TypeCorrect == Spec => []TypeOK
<1>1. AccInv => TypeOK
  BY DEF AccInv
<1>2. QED
  BY <1>1, InitAccInv, NextAccInv, PTL DEF Spec

(***************************************************************************)
(* compute_public_input_delta returns the ratio of the numerator and the   *)
(* denominator products of spec section 4.3 whenever the denominator is    *)
(* non-zero, for every prime modulus, generator and number of inputs.      *)
(***************************************************************************)
THEOREM DeltaAlwaysRatio == Spec => []DeltaIsRatio
<1>1. QED
  BY InitAccInv, NextAccInv, AccInvImpliesRatio, PTL DEF Spec

(***************************************************************************)
(* compute_public_input_delta implements its contract DeltaContract: the   *)
(* loop's iterations leave the arguments and the result alone, and its     *)
(* return is one Compute step, a field element that is the ratio of the    *)
(* row products, produced once.  The mapping is the identity on the        *)
(* arguments and delta; the accumulators are hidden.                       *)
(***************************************************************************)
THEOREM ImplementsContract == Spec => ContractSpec
<1>1. Init => ContractInit
  BY DEF Init, ContractInit
<1>2. AccInv /\ [Next]_vars => [Compute]_<<args, delta>>
  <2> SUFFICES ASSUME AccInv, [Next]_vars
               PROVE  [Compute]_<<args, delta>>
    OBVIOUS
  <2>1. CASE LoopBody
    BY <2>1 DEF LoopBody, args
  <2>2. CASE Return
    <3>1. /\ delta = NoDelta /\ idx = L
          /\ delta' = FMul(FInv(denominator), numerator)
          /\ UNCHANGED args
      BY <2>2 DEF Return, L, args
    <3>2. numerator \in Fr /\ denominator \in Fr
      BY DEF AccInv, TypeOK
    <3>3. FInv(denominator) \in Fr
      BY <3>2, InverseType
    <3>4. delta' \in Fr
      BY <3>1, <3>2, <3>3, FieldType, FrInt
    <3>5. IsRatio(delta')
      BY <3>1, ReturnRatio
    <3>6. QED
      BY <3>1, <3>4, <3>5 DEF Compute
  <2>3. CASE Returned \/ UNCHANGED vars
    BY <2>3 DEF Returned, vars, args
  <2>4. QED
    BY <2>1, <2>2, <2>3 DEF Next
<1>3. QED
  BY <1>1, <1>2, InitAccInv, NextAccInv, PTL DEF Spec, ContractSpec
==============================================================================
