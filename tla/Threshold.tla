----------------------------- MODULE Threshold ------------------------------
(***************************************************************************)
(* When has an aggregation task collected enough signatures?  The pure     *)
(* part of crates/tangle-aggregation-svc/src/state.rs: the two kinds of    *)
(* threshold a task can have and how the service evaluates them.           *)
(***************************************************************************)
EXTENDS Naturals, FiniteSets, FiniteSetsExt, Functions

CONSTANT U64        \* number of values of a u64: stakes are summed modulo it

ASSUME U64Assumption == U64 \in Nat \ {0}

Bps == 10000        \* basis points in the whole

(***************************************************************************)
(* ThresholdType: Count(n) or StakeWeighted(bps).                          *)
(***************************************************************************)
ThresholdType == [type : {"Count", "StakeWeighted"}, value : Nat]

Count(n) == [type |-> "Count", value |-> n]
StakeWeighted(bps) == [type |-> "StakeWeighted", value |-> bps]

(***************************************************************************)
(* operator_stakes maps an index to a stake; an index it does not hold     *)
(* weighs nothing.  u64 addition and multiplication wrap in a release      *)
(* build, which the definitions below keep.  The quotient's cast to u32 is *)
(* left out: without a wrap the quotient is at most Bps.                   *)
(***************************************************************************)
StakeOf(stakes, i) == IF i \in DOMAIN stakes THEN stakes[i] ELSE 0

StakeSum(stakes, S) == SumFunctionOnSet([i \in S |-> StakeOf(stakes, i)], S)

total_stake(stakes) == StakeSum(stakes, DOMAIN stakes) % U64

signed_stake(stakes, signers) == StakeSum(stakes, signers) % U64

signed_stake_bps(stakes, signers) ==
    IF total_stake(stakes) = 0
    THEN 0
    ELSE ((signed_stake(stakes, signers) * Bps) % U64) \div total_stake(stakes)

\* Mutant: equality instead of an inequality.
threshold_met_exactly(threshold, stakes, signers) ==
    CASE threshold.type = "Count" -> Cardinality(signers) = threshold.value
      [] threshold.type = "StakeWeighted" ->
           signed_stake_bps(stakes, signers) = threshold.value

threshold_met(threshold, stakes, signers) ==
    CASE threshold.type = "Count" -> Cardinality(signers) >= threshold.value
      [] threshold.type = "StakeWeighted" ->
           signed_stake_bps(stakes, signers) >= threshold.value
=============================================================================
