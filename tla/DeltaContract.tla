---------------------------- MODULE DeltaContract ----------------------------
(***************************************************************************)
(* What compute_public_input_delta (public_inputs.cpp, lines 118-143)      *)
(* promises its caller, as one step: given the public inputs, beta, gamma  *)
(* and the subgroup generator, it returns a field element delta that,      *)
(* times the denominator product of lines 83-92, gives the numerator       *)
(* product, whenever the denominator product is non-zero.  When it is      *)
(* zero the contract says nothing of delta (the code returns 0, see        *)
(* DegenerateAborts in PublicInputs).                                      *)
(*                                                                         *)
(* The products are given by the recurrences that define them: a table t  *)
(* with t[0] = 1 and t[m] = t[m-1] * term(m), and the powers of g by       *)
(* pw[0] = 1 and pw[m] = pw[m-1] * g.  Exactly one table satisfies each    *)
(* recurrence; stating the products this way keeps them within reach of   *)
(* the provers, which cannot unfold a recursive function.  PublicInputs    *)
(* extends this module and implements ContractSpec.                        *)
(***************************************************************************)
EXTENDS Field, Sequences

CONSTANTS
    CosetGenerator, \* fr::field_t::coset_generators[0], the k of column 2
    InputValues,    \* the values a public input may take
    MaxInputs,      \* the most public inputs a call is given
    Challenges,     \* the values beta and gamma may take
    Generators,     \* the subgroup generators the domain may supply
    NoDelta         \* the call has not returned yet

ASSUME InputsAssumption ==
    /\ CosetGenerator \in Fr
    /\ InputValues \subseteq Fr /\ Challenges \subseteq Fr
    /\ Generators \subseteq Fr \ {0}
    /\ MaxInputs \in Nat
    /\ NoDelta \notin Fr

VARIABLES
    inputs, beta, gamma, subgroup_generator,  \* the arguments
    delta                                     \* the returned value

args == <<inputs, beta, gamma, subgroup_generator>>

InputSeqs == UNION {[1..m -> InputValues] : m \in 0..MaxInputs}

\* L is the number of public inputs.
L == Len(inputs)

\* pw[m] is g^m, built the way the recurrence builds it.
PowTable(pw) ==
    /\ pw[0] = 1
    /\ \A m \in 1..L : pw[m] = FMul(pw[m - 1], subgroup_generator)

\* The factor of row m, as spec section 4.3 writes it, with k the column's
\* coset generator (1 for the denominator) and pw[m - 1] for g^(m-1).
RowTerm(m, k, pw) ==
    FAdd(FAdd(inputs[m], FMul(FMul(pw[m - 1], beta), k)), gamma)

\* t[m] is the product of the first m row factors.
ProdTable(t, k, pw) ==
    /\ t[0] = 1
    /\ \A m \in 1..L : t[m] = FMul(t[m - 1], RowTerm(m, k, pw))

Tables == [0..L -> Fr]

\* d times the denominator product is the numerator product, if the
\* denominator product is non-zero.
IsRatio(d) ==
    \A pw \in Tables : PowTable(pw) =>
    \A num \in Tables : ProdTable(num, CosetGenerator, pw) =>
    \A den \in Tables : ProdTable(den, 1, pw) /\ den[L] # 0 =>
        FMul(d, den[L]) = num[L]

\* The call's arguments; it has not returned.
ContractInit ==
    /\ inputs \in InputSeqs
    /\ beta \in Challenges
    /\ gamma \in Challenges
    /\ subgroup_generator \in Generators
    /\ delta = NoDelta

\* The call returns, once, a field element that is the ratio.
Compute ==
    /\ delta = NoDelta
    /\ delta' \in Fr
    /\ IsRatio(delta')
    /\ UNCHANGED args

(***************************************************************************)
(* The contract of compute_public_input_delta: the arguments never change, *)
(* and the call returns once, with the ratio of the row products.  The     *)
(* loop of PublicInputs implements it: its iterations are invisible to the *)
(* caller, and its return is the one Compute step.                         *)
(***************************************************************************)
ContractSpec == ContractInit /\ [][Compute]_<<args, delta>>
==============================================================================
