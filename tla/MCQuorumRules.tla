--------------------------- MODULE MCQuorumRules ----------------------------
(* Instances of QuorumRules for TLC. *)
EXTENDS QuorumRules

SmallWeights == {0, 1, 2, 5}

\* Around the thirds and halves where rounding decides.
Boundaries == {0, 1, 3333, 3334, 5000, 5001, 6666, 6667, 9999, 10000}
=============================================================================
