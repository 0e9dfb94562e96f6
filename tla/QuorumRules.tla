---------------------------- MODULE QuorumRules -----------------------------
(***************************************************************************)
(* From the basis points a blueprint asks for to "the threshold is met":   *)
(* how an operator turns the on-chain configuration into the threshold of  *)
(* an aggregation task (prepare_aggregation_task and                       *)
(* calculate_required_signers of crates/tangle-extra), and how the service *)
(* evaluates it while signatures arrive (Threshold).                       *)
(***************************************************************************)
EXTENDS Threshold, Integers, Sequences, SequencesExt

CONSTANTS
    MaxOperators,       \* bound: operators of a service
    Weights,            \* exposure weights an operator may have (u16)
    BpsValues           \* values of threshold_bps (u16)

ASSUME RulesAssumption ==
    /\ MaxOperators \in Nat \ {0}
    /\ Weights \subseteq Nat
    /\ BpsValues \subseteq 0..Bps

\* Weights are u16 and operators are counted in u32: no sum, times Bps, reaches 2^64.
ASSUME NoWrapAssumption == \A w \in Weights : w <= (U64 - 1) \div (MaxOperators * Bps)

VARIABLES
    operators,  \* the indices of the service's operators
    weights,    \* get_operator_weights: an operator may be missing
    kind,       \* config.threshold_type
    bps,        \* config.threshold_bps
    signers     \* who has signed so far

vars == <<operators, weights, kind, bps, signers>>

div_ceil(x, y) == (x + y - 1) \div y

\* Mutant: the quotient is rounded down.
count_based_floor(total) ==
    IF total = 0 THEN 1
    ELSE Max({1, Min({total, (total * bps) \div Bps})})

count_based(total) ==
    IF total = 0 THEN 1
    ELSE Max({1, Min({total, div_ceil(total * bps, Bps)})})

\* An operator without a weight weighs nothing.
numeric_stakes == [i \in operators |-> StakeOf(weights, i)]

\* A sequence rearranged by the permutation p of its indices.
Rearranged(stakes, p) == [i \in DOMAIN stakes |-> stakes[p[i]]]

\* Mutant: the smallest stakes are counted first.
Sorted_ascending(stakes) ==
    Rearranged(stakes, CHOOSE p \in Injection(DOMAIN stakes, DOMAIN stakes) :
        \A i, j \in DOMAIN stakes : i < j => stakes[p[i]] <= stakes[p[j]])

Sorted(stakes) ==
    Rearranged(stakes, CHOOSE p \in Injection(DOMAIN stakes, DOMAIN stakes) :
        \A i, j \in DOMAIN stakes : i < j => stakes[p[i]] >= stakes[p[j]])

\* What the loop over the sorted stakes has added up after going through s.
accumulated(s) == FoldLeft(+, 0, s)

\* The largest stakes first, until the required stake is reached.
greedy(stakes, required) ==
    LET s == Sorted(stakes)
        enough == {k \in 1..Len(s) : accumulated(SubSeq(s, 1, k)) >= required}
    IN  IF enough = {} THEN Len(s) ELSE Min(enough)

calculate_required_signers(total, stakes) ==
    IF \A i \in DOMAIN stakes : stakes[i] = 0
    THEN count_based(total)
    ELSE LET sum == StakeSum(stakes, DOMAIN stakes)
             required_stake == Max({1, div_ceil(sum * bps, Bps)})
         IN  Max({1, Min({Max({total, 1}), greedy(stakes, required_stake)})})

\* Mutant: the weights are used although all of them are zero.
prepare_aggregation_task_no_fallback ==
    IF kind = "CountBased" \/ weights = <<>>
    THEN Count(count_based(Cardinality(operators)))
    ELSE StakeWeighted(bps)

\* Without any weight the threshold is counted.
prepare_aggregation_task ==
    IF \/ kind = "CountBased"
       \/ weights = <<>>
       \/ \A i \in operators : numeric_stakes[i] = 0
    THEN Count(count_based(Cardinality(operators)))
    ELSE StakeWeighted(bps)

\* The stakes the service keeps for the task (its default when none are sent).
operator_stakes ==
    IF prepare_aggregation_task.type = "Count" THEN [i \in operators |-> 1] ELSE numeric_stakes

MetBy(S) == threshold_met(prepare_aggregation_task, operator_stakes, S)

-----------------------------------------------------------------------------
Init ==
    /\ \E n \in 1..MaxOperators :
         /\ operators = 0..(n - 1)
         /\ \E known \in SUBSET (0..(n - 1)) : weights \in [known -> Weights]
    /\ kind \in {"CountBased", "StakeWeighted"}
    /\ bps \in BpsValues
    /\ signers = {}

\* submit_signature is accepted from an operator that has not signed.
Sign(i) ==
    /\ i \in operators \ signers
    /\ signers' = signers \cup {i}
    /\ UNCHANGED <<operators, weights, kind, bps>>

Next == \E i \in 0..(MaxOperators - 1) : Sign(i)

Spec == Init /\ [][Next]_vars

-----------------------------------------------------------------------------
(***************************************************************************)
(* Properties.                                                             *)
(***************************************************************************)

\* The whole of what counts, and the part of it that signed.
Whole == IF prepare_aggregation_task.type = "Count"
         THEN Cardinality(operators)
         ELSE StakeSum(numeric_stakes, operators)

Part(S) == IF prepare_aggregation_task.type = "Count"
           THEN Cardinality(S)
           ELSE StakeSum(numeric_stakes, S)

\* The rounding in count_based and in signed_stake_bps never matters: for a positive
\* bps the threshold is met exactly when the signed part, as an exact fraction of the
\* whole, reaches bps/10000 (state.rs, signed_stake_bps; aggregating_consumer.rs).
ThresholdIsExact ==
    bps > 0 => (MetBy(signers) <=> Part(signers) * Bps >= Whole * bps)

\* Every threshold an operator derives can be met: once all operators have signed,
\* also when some or all of their weights are missing or zero.
EveryoneIsEnough == MetBy(operators)

\* calculate_required_signers is the size of the smallest coalition that the service
\* would accept.
RequiredIsLeast ==
    LET stakes == [i \in 1..Cardinality(operators) |-> operator_stakes[i - 1]]
    IN  bps > 0 => calculate_required_signers(Cardinality(operators), stakes)
                      = Min({Cardinality(S) : S \in {T \in SUBSET operators : MetBy(T)}})

\* Signatures never take a met threshold back (submit_signature).
MetIsStable == [][MetBy(signers) => MetBy(signers')]_vars
=============================================================================
