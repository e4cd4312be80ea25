-------------------------------- MODULE Field --------------------------------
(***************************************************************************)
(* The scalar field fr of barretenberg, as the operations the widget and   *)
(* the public-input binder call on it (fr::add, fr::sub, fr::mul, fr::sqr, *)
(* field_t::invert).  The library itself is outside src/: the operations   *)
(* are modelled by the value they compute.  Montgomery form and the        *)
(* coarse (partial) reductions of the __*_with_coarse_reduction variants   *)
(* are representation details that never change the field value, so an    *)
(* element is its canonical residue in 0..P-1.                             *)
(***************************************************************************)
EXTENDS Naturals

CONSTANT P    \* the field modulus; the real one is the 254-bit BN254 r

IsPrime(n) == n > 1 /\ \A d \in 2..(n - 1) : n % d # 0

\* The code writes the constants 2, 4, 6, 7 and 9 into its identities; a
\* prime above 7 keeps them distinct and 2 invertible, as in BN254's fr.
ASSUME PAssumption == P \in Nat /\ P > 7 /\ IsPrime(P)

Fr == 0..(P - 1)

FAdd(a, b) == (a + b) % P
FSub(a, b) == (a + (P - b)) % P
FMul(a, b) == (a * b) % P
FSqr(a) == (a * a) % P

\* GF(P) is a field: every non-zero element has an inverse.  This is what
\* field_t::invert relies on; it follows from P being prime (Bezout), which
\* the provers cannot derive without induction, so it is stated here and
\* evaluated by TLC on every run.
ASSUME InverseAssumption == \A a \in Fr \ {0} : \E b \in Fr : (a * b) % P = 1

\* field_t::invert computes a^(P-2) (Fermat): the inverse of a non-zero
\* element, and 0 for 0, with no error signalled.
FInv(a) == IF a = 0 THEN 0 ELSE CHOOSE b \in Fr : (a * b) % P = 1

\* x^n by repeated multiplication.
FPow(x, n) ==
    LET pw[m \in 0..n] == IF m = 0 THEN 1 ELSE FMul(pw[m - 1], x)
    IN  pw[n]

\* fr::to_montgomery_form({ { k, 0, 0, 0 } }): the small constant k.
FConst(k) == k % P
==============================================================================
