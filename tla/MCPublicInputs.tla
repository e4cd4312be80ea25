--------------------------- MODULE MCPublicInputs ---------------------------
(* Up to two public inputs over F_11, beta and gamma ranging over the     *)
(* whole field, generators of the order-5 and order-2 subgroups.          *)
EXTENDS PublicInputs

MCFr == 0..10
==============================================================================
