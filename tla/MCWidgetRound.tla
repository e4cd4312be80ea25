---------------------------- MODULE MCWidgetRound ----------------------------
(* Two small circuits and two witnesses over a two-row domain, in GF(11). *)
EXTENDS WidgetRound, TLC

\* A coefficient vector <<c0, c1>> indexed from 0, as polynomial stores it.
V(c0, c1) == (0 :> c0) @@ (1 :> c1)

\* The second circuit has q_5 = 0, so its Q_5 commitment is the point at
\* infinity and the verifier skips it; its q_arith is 2 on every row, the
\* quad-extraction gate.
MCCircuits ==
    { [q_1 |-> V(1, 2), q_2 |-> V(3, 0), q_3 |-> V(10, 1), q_4 |-> V(2, 5),
       q_5 |-> V(4, 2), q_m |-> V(1, 7), q_c |-> V(6, 3), q_arith |-> V(1, 1)],
      [q_1 |-> V(0, 5), q_2 |-> V(1, 1), q_3 |-> V(2, 9), q_4 |-> V(7, 0),
       q_5 |-> V(0, 0), q_m |-> V(4, 4), q_c |-> V(0, 8), q_arith |-> V(2, 0)] }

MCWitnesses ==
    { [w_1 |-> V(3, 1), w_2 |-> V(2, 4), w_3 |-> V(5, 9), w_4 |-> V(3, 2)],
      [w_1 |-> V(0, 6), w_2 |-> V(8, 1), w_3 |-> V(1, 0), w_4 |-> V(7, 10)] }

MCChallenges == {2, 3, 5}

MCAllNames == {CommitNames[k] : k \in 1..8}
MCNamesWithoutQ5 == MCAllNames \ {"Q_5"}
==============================================================================
