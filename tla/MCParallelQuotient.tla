------------------------- MODULE MCParallelQuotient -------------------------
(* Three workers of two points each over a six-point large domain in F_11. *)
EXTENDS ParallelQuotient

\* Selector values chosen so that every term of the identity, the quad
\* extraction term (q_arith = 2) included, is non-zero at some point.
MCSelectorFFT ==
    [k \in 0..5 |-> [q_1 |-> (k + 1) % 11, q_2 |-> 2, q_3 |-> k, q_4 |-> 1,
                     q_5 |-> k % 2, q_m |-> 3, q_c |-> 5, q_arith |-> k % 3]]

MCWireFFT ==
    [k \in 0..5 |-> [w_1 |-> k, w_2 |-> (2 * k + 1) % 11, w_3 |-> (k + 7) % 11,
                     w_4 |-> (3 * k) % 11]]

MCQuotientIn == [k \in 0..5 |-> (k + 4) % 11]
==============================================================================
