---------------------- MODULE MCAggregationService --------------------------
(* Instances of AggregationService for TLC. *)
EXTENDS AggregationService, TLC

CONSTANTS c1, c2,       \* outputs, which also stand for the messages they give
          t1, t2        \* tasks

Unit(n) == [i \in 0..(n - 1) |-> 1]

Context(out, n, threshold, stakes) ==
    [output |-> out, message |-> out, operator_count |-> n, threshold |-> threshold,
     stakes |-> stakes]

\* The result most operators computed, by count and by stake (operator 1 is enough
\* alone), and another result for the same call.
Results == {Context(c1, 2, Count(2), Unit(2)),
            Context(c1, 2, StakeWeighted(6000), 0 :> 1 @@ 1 :> 2),
            Context(c2, 2, Count(2), Unit(2))}

OneOfTwo == {Context(c1, 2, Count(1), Unit(2))}

BothRoutes == {"library", "http"}
AllAndSubmitted == {"All", "Submitted"}
NoCalls == {}

TaskSymmetry == Permutations(TaskId)
=============================================================================
