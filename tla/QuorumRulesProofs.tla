------------------------- MODULE QuorumRulesProofs --------------------------
(***************************************************************************)
(* Proofs about QuorumRules, for every number of operators, every choice   *)
(* of weights (also missing ones and zero) and every threshold.            *)
(***************************************************************************)
EXTENDS QuorumRules, SumProofs

-----------------------------------------------------------------------------
(***************************************************************************)
(* Arithmetic: rounding down and up, and the larger and smaller of two.    *)
(***************************************************************************)

\* A quotient rounded down reaches b exactly when the dividend reaches b divisors.
LEMMA QuotientReaches ==
    ASSUME NEW x \in Nat, NEW t \in Nat, t > 0, NEW b \in Nat
    PROVE  x \div t >= b <=> x >= b * t
OBVIOUS

\* Multiplying by a natural keeps the order.
LEMMA ProductMonotone ==
    ASSUME NEW a \in Nat, NEW b \in Nat, NEW m \in Nat, a <= b
    PROVE  a * m \in Nat /\ b * m \in Nat /\ a * m <= b * m
OBVIOUS

\* Numbers below the modulus do not wrap.
LEMMA NoWrap == ASSUME NEW x \in Nat, NEW m \in Nat, x < m PROVE x % m = x
OBVIOUS

\* k reaches a quotient by Bps rounded up exactly when k times Bps reaches the dividend.
LEMMA CeilingReached ==
    ASSUME NEW x \in Nat, NEW k \in Nat
    PROVE  /\ div_ceil(x, Bps) \in Nat
           /\ k >= div_ceil(x, Bps) <=> k * Bps >= x
BY DEF div_ceil, Bps

\* The larger of two numbers (u64::max).
LEMMA MaxOfTwo ==
    ASSUME NEW x \in Nat, NEW y \in Nat
    PROVE  Max({x, y}) = IF x >= y THEN x ELSE y
<1>1. \E z \in {x, y} : \A w \in {x, y} : z >= w
  BY x >= y \/ y >= x
<1>2. Max({x, y}) \in {x, y} /\ \A w \in {x, y} : Max({x, y}) >= w
  BY <1>1 DEF Max
<1> QED
  BY <1>2

\* The smaller of two numbers (u64::min).
LEMMA MinOfTwo ==
    ASSUME NEW x \in Nat, NEW y \in Nat
    PROVE  Min({x, y}) = IF x <= y THEN x ELSE y
<1>1. \E z \in {x, y} : \A w \in {x, y} : z <= w
  BY x <= y \/ y <= x
<1>2. Min({x, y}) \in {x, y} /\ \A w \in {x, y} : Min({x, y}) <= w
  BY <1>1 DEF Min
<1> QED
  BY <1>2

-----------------------------------------------------------------------------
(***************************************************************************)
(* The states of QuorumRules.                                              *)
(***************************************************************************)

\* The operators are 0..n-1, some of them have a weight, and only operators sign.
TypeInv ==
    /\ \E n \in 1..MaxOperators : operators = 0..(n - 1)
    /\ \E known \in SUBSET operators : weights \in [known -> Weights]
    /\ bps \in BpsValues
    /\ signers \in SUBSET operators

\* Every reachable state is such a state.
LEMMA TypeInvHolds == Spec => []TypeInv
<1>1. Init => TypeInv
  BY DEF Init, TypeInv
<1>2. TypeInv /\ [Next]_vars => TypeInv'
  <2> SUFFICES ASSUME TypeInv, [Next]_vars PROVE TypeInv'
    OBVIOUS
  <2>1. UNCHANGED <<operators, weights, bps>> /\ signers' \in SUBSET operators
    BY DEF Next, Sign, vars, TypeInv
  <2> QED
    BY <2>1 DEF TypeInv
<1> QED
  BY <1>1, <1>2, PTL DEF Spec

\* There is an operator and there are at most MaxOperators.
LEMMA OperatorsFinite ==
    ASSUME TypeInv
    PROVE  /\ IsFiniteSet(operators)
           /\ Cardinality(operators) \in 1..MaxOperators
           /\ bps \in Nat /\ bps <= Bps
<1>1. PICK n \in 1..MaxOperators : operators = 0..(n - 1)
  BY DEF TypeInv
<1>2. IsFiniteSet(0..(n - 1)) /\ Cardinality(0..(n - 1)) = n
  BY RulesAssumption, FS_Interval
<1>3. bps \in Nat /\ bps <= Bps
  <2>1. bps \in BpsValues
    BY DEF TypeInv
  <2>2. bps \in 0..Bps
    BY <2>1, RulesAssumption
  <2> QED
    BY <2>2 DEF Bps
<1> QED
  BY <1>1, <1>2, <1>3

\* A subset of the operators is no larger.
LEMMA SubsetCounts ==
    ASSUME NEW S, IsFiniteSet(S), NEW A \in SUBSET S
    PROVE  /\ IsFiniteSet(A) /\ Cardinality(A) \in Nat /\ Cardinality(S) \in Nat
           /\ Cardinality(A) <= Cardinality(S)
BY FS_Subset, FS_CardinalityType

-----------------------------------------------------------------------------
(***************************************************************************)
(* Thresholds that count operators.                                        *)
(***************************************************************************)

\* count_based asks for the smallest number whose share of the operators reaches bps,
\* and for at least one (aggregating_consumer.rs, count_based).
LEMMA CountIsExact ==
    ASSUME TypeInv, NEW k \in Nat
    PROVE  LET n == Cardinality(operators)
           IN  /\ count_based(n) \in 1..n
               /\ bps > 0 => (k >= count_based(n) <=> k * Bps >= n * bps)
<1> DEFINE n == Cardinality(operators)
           c == div_ceil(n * bps, Bps)
<1>1. n \in Nat /\ n >= 1 /\ bps \in Nat /\ bps <= Bps
  BY OperatorsFinite, RulesAssumption
<1>2. n * bps \in Nat /\ n * bps <= n * Bps
  BY <1>1 DEF Bps
<1>3. c \in Nat /\ \A j \in Nat : j >= c <=> j * Bps >= n * bps
  BY <1>2, CeilingReached
<1>4. n >= c
  BY <1>1, <1>2, <1>3
<1>5. bps > 0 => c >= 1
  <2> SUFFICES ASSUME bps > 0, c = 0 PROVE FALSE
    BY <1>3
  <2>1. 0 * Bps >= n * bps
    BY <1>3
  <2>2. n * bps > 0
    BY <1>1
  <2> QED
    BY <2>1, <2>2, <1>2 DEF Bps
<1> HIDE DEF n, c
<1>6. Min({n, c}) = c
  BY <1>1, <1>3, <1>4, MinOfTwo
<1>7. Max({1, c}) = IF c >= 1 THEN c ELSE 1
  BY <1>3, MaxOfTwo
<1>8. count_based(n) = IF c >= 1 THEN c ELSE 1
  BY <1>1, <1>6, <1>7 DEF count_based, c
<1>9. count_based(n) \in 1..n /\ (bps > 0 => (k >= count_based(n) <=> k * Bps >= n * bps))
  BY <1>1, <1>3, <1>4, <1>5, <1>8
<1> QED
  BY <1>9 DEF n

-----------------------------------------------------------------------------
(***************************************************************************)
(* Thresholds that weigh operators.                                        *)
(***************************************************************************)

\* The stake of every operator is a number that no sum of stakes makes wrap.
LEMMA StakesType ==
    ASSUME TypeInv, NEW i \in operators
    PROVE  numeric_stakes[i] \in 0..((U64 - 1) \div (MaxOperators * Bps))
<1> DEFINE m == (U64 - 1) \div (MaxOperators * Bps)
<1>1. MaxOperators * Bps \in Nat /\ MaxOperators * Bps > 0 /\ U64 - 1 \in Nat
  BY RulesAssumption, U64Assumption DEF Bps
<1>2. m \in Nat
  BY <1>1
<1>3. PICK known \in SUBSET operators : weights \in [known -> Weights]
  BY DEF TypeInv
<1>4. i \in DOMAIN weights => weights[i] \in Nat /\ weights[i] <= m
  BY <1>3, RulesAssumption, NoWrapAssumption
<1> HIDE DEF m
<1>5. StakeOf(weights, i) \in 0..m
  BY <1>2, <1>4 DEF StakeOf
<1> QED
  BY <1>5 DEF numeric_stakes, m

\* The sum of the stakes of some operators, times Bps, is below U64.
LEMMA StakeSumSmall ==
    ASSUME TypeInv, NEW S \in SUBSET operators
    PROVE  /\ StakeSum(numeric_stakes, S) = SumFunctionOnSet(numeric_stakes, S)
           /\ StakeSum(numeric_stakes, S) \in Nat
           /\ StakeSum(numeric_stakes, S) <= StakeSum(numeric_stakes, operators)
           /\ StakeSum(numeric_stakes, operators) * Bps < U64
<1> DEFINE m == (U64 - 1) \div (MaxOperators * Bps)
<1>0. IsFiniteSet(operators) /\ Cardinality(operators) \in 1..MaxOperators
  BY OperatorsFinite
<1>1. ASSUME NEW A \in SUBSET operators
      PROVE  StakeSum(numeric_stakes, A) = SumFunctionOnSet(numeric_stakes, A)
  <2>1. IsFiniteSet(A)
    BY <1>0, FS_Subset
  <2>2. \A i \in A : [j \in A |-> StakeOf(numeric_stakes, j)][i] = numeric_stakes[i]
    BY DEF StakeOf, numeric_stakes
  <2> QED
    BY <2>1, <2>2, SumSameValues DEF StakeSum
<1>2. MaxOperators * Bps \in Nat /\ MaxOperators * Bps > 0 /\ U64 - 1 \in Nat
  BY RulesAssumption, U64Assumption DEF Bps
<1>3. m \in Nat /\ m * (MaxOperators * Bps) <= U64 - 1
  BY <1>2, QuotientReaches
<1>4. \A i \in operators : numeric_stakes[i] \in 0..m
  BY StakesType
<1> HIDE DEF m
<1>5. \A i \in operators : numeric_stakes[i] \in Nat
  BY <1>3, <1>4
<1>6. /\ SumFunctionOnSet(numeric_stakes, S) \in Nat
      /\ SumFunctionOnSet(numeric_stakes, operators) \in Nat
      /\ SumFunctionOnSet(numeric_stakes, S) <= SumFunctionOnSet(numeric_stakes, operators)
  BY <1>0, <1>5, SumMonotone
<1>7. SumFunctionOnSet(numeric_stakes, operators) <= Cardinality(operators) * m
  BY <1>0, <1>3, <1>4, SumAtMost
<1>8. /\ Cardinality(operators) * m \in Nat /\ MaxOperators * m \in Nat
      /\ Cardinality(operators) * m <= MaxOperators * m
  <2>1. /\ Cardinality(operators) \in Nat /\ MaxOperators \in Nat
        /\ Cardinality(operators) <= MaxOperators
    BY <1>0, RulesAssumption
  <2> QED
    BY <1>3, <2>1, ProductMonotone
<1>9. SumFunctionOnSet(numeric_stakes, operators) <= MaxOperators * m
  BY <1>6, <1>7, <1>8
<1>10. SumFunctionOnSet(numeric_stakes, operators) * Bps <= (MaxOperators * m) * Bps
  <2>1. Bps \in Nat
    BY DEF Bps
  <2> QED
    BY <1>6, <1>8, <1>9, <2>1, ProductMonotone
<1>11. (MaxOperators * m) * Bps = m * (MaxOperators * Bps)
  BY <1>3, RulesAssumption DEF Bps
<1>12. SumFunctionOnSet(numeric_stakes, operators) * Bps < U64
  BY <1>2, <1>3, <1>6, <1>10, <1>11, U64Assumption DEF Bps
<1> QED
  BY <1>1, <1>6, <1>12

\* The service's evaluation of a stake-weighted threshold is exact: neither the division
\* nor u64 arithmetic loses anything (state.rs, signed_stake_bps).
LEMMA StakeIsExact ==
    ASSUME TypeInv, prepare_aggregation_task.type # "Count", NEW S \in SUBSET operators
    PROVE  /\ StakeSum(numeric_stakes, operators) > 0
           /\ MetBy(S) <=> StakeSum(numeric_stakes, S) * Bps
                              >= StakeSum(numeric_stakes, operators) * bps
<1> DEFINE total == StakeSum(numeric_stakes, operators)
           signed == StakeSum(numeric_stakes, S)
<1>1. prepare_aggregation_task = StakeWeighted(bps) /\ \E i \in operators : numeric_stakes[i] # 0
  BY DEF prepare_aggregation_task, Count, StakeWeighted
<1>2. total \in Nat /\ signed \in Nat /\ signed <= total /\ total * Bps < U64
  BY StakeSumSmall
<1>3. total > 0
  <2>1. PICK i \in operators : numeric_stakes[i] # 0
    BY <1>1
  <2>2. \A j \in operators : numeric_stakes[j] \in Nat
    BY StakesType
  <2>3. numeric_stakes[i] <= SumFunctionOnSet(numeric_stakes, operators)
    BY <2>2, OperatorsFinite, SumAtLeast
  <2>4. total = SumFunctionOnSet(numeric_stakes, operators)
    BY StakeSumSmall
  <2> HIDE DEF total
  <2> QED
    BY <1>2, <2>1, <2>2, <2>3, <2>4
<1>4. operator_stakes = numeric_stakes /\ DOMAIN numeric_stakes = operators
  BY DEF operator_stakes, numeric_stakes
<1>5. MetBy(S) <=> signed_stake_bps(numeric_stakes, S) >= bps
  BY <1>1, <1>4 DEF MetBy, threshold_met, StakeWeighted
<1>6. total_stake(numeric_stakes) = total % U64 /\ signed_stake(numeric_stakes, S) = signed % U64
  BY <1>4 DEF total_stake, signed_stake
<1> HIDE DEF total, signed
<1>7. /\ signed < U64 /\ total < U64 /\ signed * Bps \in Nat /\ signed * Bps < U64
      /\ U64 \in Nat /\ total \in Nat /\ bps \in Nat
  BY <1>2, U64Assumption, OperatorsFinite DEF Bps
<1>8. /\ total_stake(numeric_stakes) = total /\ signed_stake(numeric_stakes, S) = signed
      /\ (signed * Bps) % U64 = signed * Bps
  BY <1>2, <1>6, <1>7, NoWrap
<1>9. signed_stake_bps(numeric_stakes, S) = (signed * Bps) \div total
  BY <1>3, <1>8 DEF signed_stake_bps
<1>10. (signed * Bps) \div total >= bps <=> signed * Bps >= bps * total
  BY <1>3, <1>7, QuotientReaches
<1>11. bps * total = total * bps
  BY <1>7
<1>12. MetBy(S) <=> signed * Bps >= total * bps
  BY <1>5, <1>9, <1>10, <1>11
<1> QED
  BY <1>3, <1>12 DEF total, signed

\* A threshold that counts is met by so many operators, whoever they are.
LEMMA CountMet ==
    ASSUME TypeInv, prepare_aggregation_task.type = "Count", NEW S \in SUBSET operators
    PROVE  MetBy(S) <=> Cardinality(S) >= count_based(Cardinality(operators))
<1>1. prepare_aggregation_task = Count(count_based(Cardinality(operators)))
  BY DEF prepare_aggregation_task, Count, StakeWeighted
<1> QED
  BY <1>1 DEF MetBy, threshold_met, Count

-----------------------------------------------------------------------------
(***************************************************************************)
(* The properties.                                                         *)
(***************************************************************************)

\* For every positive bps a threshold is met exactly when the signed part, as an exact
\* fraction of the whole, reaches bps/10000: no rounding matters and nothing wraps
\* (aggregating_consumer.rs, count_based; state.rs, signed_stake_bps).
THEOREM ThresholdIsAlwaysExact == Spec => []ThresholdIsExact
<1>1. TypeInv => ThresholdIsExact
  <2> SUFFICES ASSUME TypeInv, bps > 0
               PROVE  MetBy(signers) <=> Part(signers) * Bps >= Whole * bps
    BY DEF ThresholdIsExact
  <2>0. signers \in SUBSET operators
    BY DEF TypeInv
  <2>1. CASE prepare_aggregation_task.type = "Count"
    <3>1. Cardinality(signers) \in Nat
      BY <2>0, OperatorsFinite, SubsetCounts
    <3>2. /\ Part(signers) = Cardinality(signers)
          /\ Whole = Cardinality(operators)
      BY <2>1 DEF Part, Whole
    <3> QED
      BY <2>0, <2>1, <3>1, <3>2, CountMet, CountIsExact
  <2>2. CASE prepare_aggregation_task.type # "Count"
    <3>1. /\ Part(signers) = StakeSum(numeric_stakes, signers)
          /\ Whole = StakeSum(numeric_stakes, operators)
      BY <2>2 DEF Part, Whole
    <3> QED
      BY <2>0, <2>2, <3>1, StakeIsExact
  <2> QED
    BY <2>1, <2>2
<1> QED
  BY <1>1, TypeInvHolds, PTL

\* All operators together meet every threshold that one of them derives.
LEMMA EveryoneMeets == ASSUME TypeInv PROVE MetBy(operators)
<1>1. CASE prepare_aggregation_task.type = "Count"
  <2>1. Cardinality(operators) \in Nat
    BY OperatorsFinite
  <2>2. count_based(Cardinality(operators)) \in 1..Cardinality(operators)
    BY <2>1, CountIsExact
  <2>3. Cardinality(operators) >= count_based(Cardinality(operators))
    BY <2>1, <2>2
  <2> QED
    BY <1>1, <2>3, CountMet
<1>2. CASE prepare_aggregation_task.type # "Count"
  <2> DEFINE total == StakeSum(numeric_stakes, operators)
  <2>1. total \in Nat /\ bps \in Nat /\ bps <= Bps
    BY StakeSumSmall, OperatorsFinite
  <2>2. MetBy(operators) <=> total * Bps >= total * bps
    BY <1>2, StakeIsExact
  <2> HIDE DEF total
  <2> QED
    BY <2>1, <2>2 DEF Bps
<1> QED
  BY <1>1, <1>2

\* Every threshold an operator derives is met once all operators have signed, also when
\* weights are missing or zero (prepare_aggregation_task's fallback).
THEOREM EveryoneIsAlwaysEnough == Spec => []EveryoneIsEnough
<1>1. TypeInv => EveryoneIsEnough
  BY EveryoneMeets DEF EveryoneIsEnough
<1> QED
  BY <1>1, TypeInvHolds, PTL

\* More signers never meet less.
LEMMA MetMonotone ==
    ASSUME TypeInv, NEW B \in SUBSET operators, NEW A \in SUBSET B, MetBy(A)
    PROVE  MetBy(B)
<1>0. IsFiniteSet(B) /\ IsFiniteSet(operators) /\ A \in SUBSET operators
  BY OperatorsFinite, FS_Subset
<1>1. CASE prepare_aggregation_task.type = "Count"
  <2>1. Cardinality(A) \in Nat /\ Cardinality(B) \in Nat /\ Cardinality(A) <= Cardinality(B)
    BY <1>0, SubsetCounts
  <2>2. count_based(Cardinality(operators)) \in Nat
    BY CountIsExact, OperatorsFinite
  <2>3. Cardinality(A) >= count_based(Cardinality(operators))
    BY <1>0, <1>1, CountMet
  <2>4. Cardinality(B) >= count_based(Cardinality(operators))
    BY <2>1, <2>2, <2>3
  <2> QED
    BY <1>1, <2>4, CountMet
<1>2. CASE prepare_aggregation_task.type # "Count"
  <2> DEFINE total == StakeSum(numeric_stakes, operators)
             a == StakeSum(numeric_stakes, A)
             b == StakeSum(numeric_stakes, B)
  <2>1. /\ a = SumFunctionOnSet(numeric_stakes, A) /\ a \in Nat
        /\ b = SumFunctionOnSet(numeric_stakes, B) /\ b \in Nat
        /\ total \in Nat /\ bps \in Nat
    BY <1>0, StakeSumSmall, OperatorsFinite
  <2>2. \A i \in B : numeric_stakes[i] \in Nat
    BY StakesType
  <2>3. SumFunctionOnSet(numeric_stakes, A) <= SumFunctionOnSet(numeric_stakes, B)
    BY <1>0, <2>2, SumMonotone
  <2>4. a * Bps >= total * bps
    BY <1>0, <1>2, StakeIsExact
  <2>5. MetBy(B) <=> b * Bps >= total * bps
    BY <1>2, StakeIsExact
  <2> HIDE DEF total, a, b
  <2>6. total * bps \in Nat /\ a * Bps <= b * Bps
    BY <2>1, <2>3 DEF Bps
  <2> QED
    BY <2>1, <2>4, <2>5, <2>6 DEF Bps
<1> QED
  BY <1>1, <1>2

\* Signatures never take a met threshold back (submit_signature).
THEOREM MetStaysMet == Spec => MetIsStable
<1>1. TypeInv /\ [Next]_vars => [MetBy(signers) => MetBy(signers')]_vars
  <2> SUFFICES ASSUME TypeInv, [Next]_vars, MetBy(signers) PROVE MetBy(signers')
    OBVIOUS
  <2>1. signers \subseteq signers' /\ signers' \in SUBSET operators
    BY DEF Next, Sign, vars, TypeInv
  <2> QED
    BY <2>1, MetMonotone
<1> QED
  BY <1>1, TypeInvHolds, PTL DEF Spec, MetIsStable

-----------------------------------------------------------------------------
(***************************************************************************)
(* The required number of signers.  calculate_required_signers sorts the   *)
(* stakes and adds up the largest; what the lemmas below show is that the  *)
(* sequence it goes through is a rearrangement of the stakes, that no k of *)
(* them weigh more than its first k, and that adding it up from the left   *)
(* gives the sum that the service evaluates.                               *)
(***************************************************************************)

\* A set of naturals has a smallest element, which Min gives.
LEMMA LeastNatural ==
    ASSUME NEW S \in SUBSET Nat, S # {}
    PROVE  Min(S) \in S /\ \A x \in S : Min(S) <= x
<1> DEFINE R == {ss \in Nat \X Nat : ss[1] < ss[2]}
<1>1. IsWellFoundedOn(R, Nat)
  BY NatLessThanWellFounded DEF OpToRel
<1> HIDE DEF R
<1>2. PICK m \in S : \A x \in S : ~ (<<x, m>> \in R)
  BY <1>1, WFMin
<1>3. ASSUME NEW x \in S PROVE m <= x
  <2>1. x \in Nat /\ m \in Nat /\ ~ (<<x, m>> \in R)
    BY <1>2
  <2>2. x < m => <<x, m>> \in R
    BY <2>1 DEF R
  <2> QED
    BY <2>1, <2>2
<1> QED
  BY <1>3 DEF Min

\* A set of indices of a sequence has a largest element, which Max gives.
LEMMA GreatestIndex ==
    ASSUME NEW n \in Nat, NEW S \in SUBSET (1..n), S # {}
    PROVE  Max(S) \in S /\ \A x \in S : Max(S) >= x
<1> DEFINE bounds == {u \in Nat : \A x \in S : x <= u}
           m == Min(bounds)
<1>1. n \in bounds
  OBVIOUS
<1>2. m \in bounds /\ \A u \in bounds : m <= u
  BY <1>1, LeastNatural
<1> HIDE DEF m
<1>3. m \in S
  <2> SUFFICES ASSUME m \notin S PROVE FALSE
    OBVIOUS
  <2>0. \A x \in S : x \in Nat /\ x >= 1
    OBVIOUS
  <2>1. m \in Nat /\ \A x \in S : x < m
    BY <1>2, <2>0
  <2>1a. PICK x \in S : TRUE
    OBVIOUS
  <2>1b. m - 1 \in Nat /\ \A y \in S : y <= m - 1
    BY <2>0, <2>1, <2>1a
  <2>2. m - 1 \in bounds
    BY <2>1b
  <2> QED
    BY <1>2, <2>1, <2>2
<1> QED
  BY <1>2, <1>3 DEF Max

\* g adds up the elements of s in every set of its indices, the last one last.
Folds(g, s) ==
    g = [A \in SUBSET (DOMAIN s) |->
           IF A = {} THEN 0 ELSE g[A \ {Max(A)}] + s[Max(A)]]

\* The sum that a loop over a sequence computes is the sum of its elements.
LEMMA FoldIsSum ==
    ASSUME NEW n \in Nat, NEW s \in [1..n -> Nat]
    PROVE  accumulated(s) = SumFunctionOnSet(s, 1..n)
<1> DEFINE D == 1..n
           h == [A \in SUBSET D |-> SumFunctionOnSet(s, A)]
           G == CHOOSE g : Folds(g, s)
<1>0. IsFiniteSet(D) /\ DOMAIN s = D /\ \A i \in D : s[i] \in Nat
  <2>1. IsFiniteSet(D)
    BY FS_Interval
  <2> QED
    BY <2>1
<1>1. accumulated(s) = G[D]
  BY <1>0 DEF accumulated, FoldLeft, MapThenFoldSet, Folds
<1>1a. \A A \in SUBSET D : A # {} => Max(A) \in A
  BY GreatestIndex
<1> HIDE DEF D
<1>2. ASSUME NEW A \in SUBSET (D), A # {}
      PROVE  /\ Max(A) \in A
             /\ SumFunctionOnSet(s, A) = SumFunctionOnSet(s, A \ {Max(A)}) + s[Max(A)]
  <2>1. Max(A) \in A /\ IsFiniteSet(A)
    BY <1>0, <1>1a, <1>2, FS_Subset
  <2>1a. \A x \in A : s[x] \in Nat
    BY <1>0
  <2>2. SumFunctionOnSet(s, A) = s[Max(A)] + SumFunctionOnSet(s, A \ {Max(A)})
    BY <2>1, <2>1a, SumRemove
  <2>3. SumFunctionOnSet(s, A \ {Max(A)}) \in Nat
    BY <2>1, <2>1a, FS_Subset, SumType
  <2>4. s[Max(A)] \in Nat
    BY <2>1, <2>1a
  <2> QED
    BY <2>1, <2>2, <2>3, <2>4
<1>3. ASSUME NEW A \in SUBSET (D)
      PROVE  h[A] = IF A = {} THEN 0 ELSE h[A \ {Max(A)}] + s[Max(A)]
  BY <1>2, SumEmpty
<1>4. h = [A \in SUBSET (D) |-> h[A]]
  OBVIOUS
<1> HIDE DEF h
<1>5. Folds(h, s)
  BY <1>0, <1>3, <1>4 DEF Folds
<1>6. Folds(G, s)
  BY <1>5
<1> HIDE DEF G
<1>7. \A A \in SUBSET (D) : G[A] = SumFunctionOnSet(s, A)
  <2> DEFINE T == {A \in SUBSET (D) : G[A] # SumFunctionOnSet(s, A)}
  <2>1. T \in SUBSET (SUBSET (D))
    OBVIOUS
  <2>2. SUFFICES ASSUME T # {} PROVE FALSE
    BY DEF T
  <2> HIDE DEF T
  <2>3. PICK A \in T : \A B \in T : B \subseteq A => B = A
    BY <1>0, <2>1, <2>2, SmallestSubset
  <2>4. A \in SUBSET (D) /\ G[A] # SumFunctionOnSet(s, A)
    BY DEF T
  <2>5. G[A] = IF A = {} THEN 0 ELSE G[A \ {Max(A)}] + s[Max(A)]
    BY <1>0, <1>6, <2>4 DEF Folds
  <2>6. A # {}
    BY <2>4, <2>5, SumEmpty
  <2>7. Max(A) \in A
    BY <1>2, <2>4, <2>6
  <2>8. G[A \ {Max(A)}] = SumFunctionOnSet(s, A \ {Max(A)})
    BY <2>3, <2>4, <2>7 DEF T
  <2> QED
    BY <1>2, <2>4, <2>5, <2>6, <2>8
<1> QED
  BY <1>1, <1>7 DEF D

\* e goes through the indices in A, those of larger elements of f first.
Descends(e, A, f) ==
    LET k == Cardinality(A)
    IN  /\ e \in [1..k -> A]
        /\ \A i, j \in 1..k : e[i] = e[j] => i = j
        /\ \A i, j \in 1..k : i < j => f[e[i]] >= f[e[j]]

\* Every set of indices can be gone through that way: the index of a smallest element
\* goes last.
LEMMA DescentExists ==
    ASSUME NEW S, IsFiniteSet(S), NEW f, \A x \in S : f[x] \in Nat
    PROVE  \E e : Descends(e, S, f)
<1> DEFINE T == {A \in SUBSET S : ~ \E e : Descends(e, A, f)}
<1>1. T \in SUBSET (SUBSET S)
  OBVIOUS
<1> HIDE DEF T
<1>2. SUFFICES ASSUME T # {} PROVE FALSE
  BY DEF T
<1>3. PICK A \in T : \A B \in T : B \subseteq A => B = A
  BY <1>1, <1>2, SmallestSubset
<1>4. A \in SUBSET S /\ IsFiniteSet(A) /\ ~ \E e : Descends(e, A, f)
  BY FS_Subset DEF T
<1>5. A # {}
  <2> SUFFICES ASSUME A = {} PROVE FALSE
    OBVIOUS
  <2>1. Cardinality(A) = 0 /\ 1..0 = {}
    BY FS_EmptySet
  <2>2. Descends([i \in {} |-> 0], A, f)
    BY <2>1 DEF Descends
  <2> QED
    BY <1>4, <2>2
<1>6. PICK x \in A : \A y \in A : f[x] <= f[y]
  <2> DEFINE V == {f[y] : y \in A}
  <2>1. V \in SUBSET Nat /\ V # {}
    BY <1>4, <1>5
  <2>2. Min(V) \in V /\ \A v \in V : Min(V) <= v
    BY <2>1, LeastNatural
  <2> QED
    BY <2>2
<1> DEFINE B == A \ {x}
           k == Cardinality(B)
<1>7. B \in SUBSET S /\ B # A /\ B \subseteq A /\ IsFiniteSet(B)
  BY <1>4, FS_Subset
<1>8. k \in Nat /\ Cardinality(A) = k + 1
  BY <1>4, <1>7, FS_RemoveElement, FS_CardinalityType
<1>9. PICK e : Descends(e, B, f)
  BY <1>3, <1>7 DEF T
<1>10. /\ e \in [1..k -> B]
       /\ \A i, j \in 1..k : e[i] = e[j] => i = j
       /\ \A i, j \in 1..k : i < j => f[e[i]] >= f[e[j]]
  BY <1>9 DEF Descends
<1> DEFINE d == [i \in 1..(k + 1) |-> IF i = k + 1 THEN x ELSE e[i]]
<1> HIDE DEF k
<1>11. \A i \in 1..(k + 1) : i # k + 1 => i \in 1..k /\ e[i] \in A /\ e[i] # x
  BY <1>8, <1>10
<1>12. d \in [1..(k + 1) -> A]
  BY <1>11
<1>13. \A i, j \in 1..(k + 1) : d[i] = d[j] => i = j
  BY <1>10, <1>11
<1>14. ASSUME NEW i \in 1..(k + 1), NEW j \in 1..(k + 1), i < j PROVE f[d[i]] >= f[d[j]]
  <2>1. i \in 1..k /\ d[i] = e[i] /\ e[i] \in A
    BY <1>8, <1>11, <1>14
  <2>2. CASE j = k + 1
    <3>1. d[j] = x /\ f[x] \in Nat /\ f[e[i]] \in Nat /\ f[x] <= f[e[i]]
      BY <1>4, <1>6, <2>1, <2>2
    <3> QED
      BY <2>1, <3>1
  <2>3. CASE j # k + 1
    <3>1. j \in 1..k /\ d[j] = e[j]
      BY <1>11, <2>3
    <3> QED
      BY <1>10, <1>14, <2>1, <3>1
  <2> QED
    BY <2>2, <2>3
<1> HIDE DEF d
<1>15. Descends(d, A, f)
  BY <1>8, <1>12, <1>13, <1>14 DEF Descends
<1> QED
  BY <1>4, <1>15

\* What calculate_required_signers goes through is a rearrangement of the stakes in
\* which no stake is followed by a larger one.
LEMMA SortedStakes ==
    ASSUME NEW n \in Nat, NEW f \in [1..n -> Nat]
    PROVE  \E p \in [1..n -> 1..n] :
             /\ \A i, j \in 1..n : p[i] = p[j] => i = j
             /\ Sorted(f) = [i \in 1..n |-> f[p[i]]]
             /\ \A i, j \in 1..n : i < j => Sorted(f)[i] >= Sorted(f)[j]
<1> DEFINE D == 1..n
           Good(p) == \A i, j \in D : i < j => f[p[i]] >= f[p[j]]
           P == CHOOSE p \in Injection(D, D) : Good(p)
<1>1. IsFiniteSet(D) /\ Cardinality(D) = n
  BY FS_Interval
<1>2. \A x \in D : f[x] \in Nat
  OBVIOUS
<1>3. DOMAIN f = D
  OBVIOUS
<1>4. PICK e : Descends(e, D, f)
  <2> HIDE DEF D
  <2> QED
    BY <1>1, <1>2, DescentExists
<1>5. e \in Injection(D, D) /\ Good(e)
  BY <1>1, <1>4 DEF Descends, Injection, IsInjective
<1>6. P \in Injection(D, D) /\ Good(P)
  <2> HIDE DEF Good
  <2> QED
    BY <1>5
<1>7. Sorted(f) = [i \in D |-> f[P[i]]]
  BY <1>3 DEF Sorted, Rearranged
<1> HIDE DEF P
<1>8. P \in [D -> D] /\ \A i, j \in D : P[i] = P[j] => i = j
  BY <1>6 DEF Injection, IsInjective
<1>9. \A i, j \in D : i < j => Sorted(f)[i] >= Sorted(f)[j]
  BY <1>6, <1>7
<1> QED
  BY <1>7, <1>8, <1>9

\* The size of two sets that share nothing.
LEMMA UnionCounts ==
    ASSUME NEW R, NEW S, IsFiniteSet(R), IsFiniteSet(S), R \cap S = {}
    PROVE  /\ Cardinality(R) \in Nat /\ Cardinality(S) \in Nat
           /\ Cardinality(R \cup S) = Cardinality(R) + Cardinality(S)
<1>1. Cardinality(R \cup S) = Cardinality(R) + Cardinality(S) - Cardinality(R \cap S)
  BY FS_Union
<1>2. Cardinality(R \cap S) = 0
  BY FS_EmptySet
<1>3. Cardinality(R) \in Nat /\ Cardinality(S) \in Nat
  BY FS_CardinalityType
<1> QED
  BY <1>1, <1>2, <1>3

\* Of a sequence that never rises, no k elements sum up to more than the first k.
LEMMA LargestFirst ==
    ASSUME NEW n \in Nat, NEW s \in [1..n -> Nat],
           \A i, j \in 1..n : i < j => s[i] >= s[j],
           NEW T \in SUBSET (1..n), NEW k \in 1..n, Cardinality(T) <= k
    PROVE  SumFunctionOnSet(s, T) <= SumFunctionOnSet(s, 1..k)
<1> DEFINE K == 1..k
           C == T \cap K
           A == T \ K
           B == K \ T
           m == s[k]
<1>1. IsFiniteSet(T) /\ IsFiniteSet(K) /\ Cardinality(K) = k /\ k \in Nat
  <2>1. IsFiniteSet(1..n)
    BY FS_Interval
  <2>2. IsFiniteSet(T)
    BY <2>1, FS_Subset
  <2>3. k \in Nat /\ k >= 1
    OBVIOUS
  <2>4. IsFiniteSet(K) /\ Cardinality(K) = k
    BY <2>3, FS_Interval
  <2> QED
    BY <2>2, <2>3, <2>4
<1>2. m \in Nat /\ \A x \in 1..n : s[x] \in Nat
  OBVIOUS
<1>3. \A x \in A : s[x] \in 0..m
  <2> SUFFICES ASSUME NEW x \in A PROVE s[x] \in 0..m
    OBVIOUS
  <2>1. x \in 1..n /\ k < x
    OBVIOUS
  <2>2. s[k] >= s[x]
    BY <2>1
  <2> QED
    BY <1>2, <2>1, <2>2
<1>4. \A x \in B : s[x] \in Nat /\ s[x] >= m
  <2> SUFFICES ASSUME NEW x \in B PROVE s[x] \in Nat /\ s[x] >= m
    OBVIOUS
  <2>1. x \in 1..n /\ (x < k \/ x = k)
    OBVIOUS
  <2> QED
    BY <1>2, <2>1
<1>5. \A x \in T \cup K : s[x] \in Nat
  OBVIOUS
<1>6. /\ T = C \cup A /\ C \cap A = {} /\ K = C \cup B /\ C \cap B = {}
      /\ C \subseteq K /\ A \subseteq T /\ B \subseteq K /\ C \subseteq T
  OBVIOUS
<1> HIDE DEF K, C, A, B, m
<1>7. IsFiniteSet(A) /\ IsFiniteSet(B) /\ IsFiniteSet(C)
  BY <1>1, <1>6, FS_Subset
<1>8. /\ Cardinality(A) \in Nat /\ Cardinality(B) \in Nat /\ Cardinality(C) \in Nat
      /\ Cardinality(C \cup A) = Cardinality(C) + Cardinality(A)
      /\ Cardinality(C \cup B) = Cardinality(C) + Cardinality(B)
  BY <1>6, <1>7, UnionCounts
<1>9. /\ Cardinality(T) = Cardinality(C) + Cardinality(A)
      /\ Cardinality(K) = Cardinality(C) + Cardinality(B)
  <2>1. T = C \cup A /\ K = C \cup B
    BY <1>6
  <2> QED
    BY <1>8, <2>1, Zenon
<1>9a. Cardinality(A) <= Cardinality(B)
  BY <1>1, <1>8, <1>9
<1>10. /\ Cardinality(A) * m \in Nat /\ Cardinality(B) * m \in Nat
       /\ Cardinality(A) * m <= Cardinality(B) * m
  BY <1>2, <1>8, <1>9a, ProductMonotone
<1>11. SumFunctionOnSet(s, A) <= Cardinality(A) * m
  BY <1>2, <1>3, <1>7, SumAtMost
<1>12. SumFunctionOnSet(s, B) >= Cardinality(B) * m
  BY <1>2, <1>4, <1>7, SumAtLeastEach
<1>13. /\ SumFunctionOnSet(s, A) \in Nat /\ SumFunctionOnSet(s, B) \in Nat
       /\ SumFunctionOnSet(s, C) \in Nat
  BY <1>5, <1>6, <1>7, SumType
<1>14. SumFunctionOnSet(s, T) = SumFunctionOnSet(s, C) + SumFunctionOnSet(s, A)
  BY <1>5, <1>6, <1>7, SumUnion
<1>15. SumFunctionOnSet(s, K) = SumFunctionOnSet(s, C) + SumFunctionOnSet(s, B)
  BY <1>5, <1>6, <1>7, SumUnion
<1>16. SumFunctionOnSet(s, T) <= SumFunctionOnSet(s, K)
  BY <1>10, <1>11, <1>12, <1>13, <1>14, <1>15
<1> QED
  BY <1>16 DEF K

\* Both kinds of threshold ask for a total of the stakes the task carries: 1 for every
\* operator where the threshold counts (state.rs, init_task's default).
LEMMA MetByStake ==
    ASSUME TypeInv, bps > 0, NEW S \in SUBSET operators
    PROVE  LET W(A) == SumFunctionOnSet(operator_stakes, A)
               required == div_ceil(W(operators) * bps, Bps)
           IN  /\ operator_stakes \in [operators -> Nat]
               /\ W(S) \in Nat /\ W(operators) \in Nat /\ W(operators) > 0
               /\ required \in Nat /\ required >= 1
               /\ MetBy(S) <=> W(S) >= required
<1> DEFINE W(A) == SumFunctionOnSet(operator_stakes, A)
           total == W(operators)
           required == div_ceil(total * bps, Bps)
<1>0. IsFiniteSet(operators) /\ IsFiniteSet(S) /\ bps \in Nat
  BY OperatorsFinite, FS_Subset
<1>1. operator_stakes \in [operators -> Nat]
  <2>1. \A i \in operators : numeric_stakes[i] \in Nat
    BY StakesType
  <2>2. numeric_stakes = [i \in operators |-> numeric_stakes[i]]
    BY DEF numeric_stakes
  <2> QED
    BY <2>1, <2>2 DEF operator_stakes
<1>2. W(S) \in Nat /\ total \in Nat
  BY <1>0, <1>1, SumMonotone
<1>3. total > 0 /\ (MetBy(S) <=> W(S) * Bps >= total * bps)
  <2>1. CASE prepare_aggregation_task.type = "Count"
    <3>1. \A i \in operators : operator_stakes[i] = 1
      BY <2>1 DEF operator_stakes
    <3>2. W(S) = Cardinality(S) /\ total = Cardinality(operators)
      BY <1>0, <3>1, SumOfOnes
    <3>3. total > 0
      BY <3>2, OperatorsFinite
    <3>4. MetBy(S) <=> Cardinality(S) >= count_based(Cardinality(operators))
      BY <2>1, CountMet
    <3>5. Cardinality(S) \in Nat
      BY <1>2, <3>2
    <3>6. Cardinality(S) >= count_based(Cardinality(operators))
            <=> Cardinality(S) * Bps >= Cardinality(operators) * bps
      BY <3>5, CountIsExact
    <3> QED
      BY <3>2, <3>3, <3>4, <3>6
  <2>2. CASE prepare_aggregation_task.type # "Count"
    <3>1. operator_stakes = numeric_stakes
      BY <2>2 DEF operator_stakes
    <3>2. W(S) = StakeSum(numeric_stakes, S) /\ total = StakeSum(numeric_stakes, operators)
      BY <3>1, StakeSumSmall
    <3> QED
      BY <2>2, <3>2, StakeIsExact
  <2> QED
    BY <2>1, <2>2
<1> HIDE DEF W, total
<1>4. total * bps \in Nat /\ total * bps > 0
  BY <1>0, <1>2, <1>3
<1>5. required \in Nat /\ \A k \in Nat : k >= required <=> k * Bps >= total * bps
  BY <1>4, CeilingReached
<1> HIDE DEF required
<1>6. required >= 1
  <2>1. ~ (0 * Bps >= total * bps)
    BY <1>4 DEF Bps
  <2> QED
    BY <1>5, <2>1
<1>7. MetBy(S) <=> W(S) >= required
  BY <1>2, <1>3, <1>5
<1> QED
  BY <1>1, <1>2, <1>3, <1>5, <1>6, <1>7 DEF W, total, required

\* What the loop has added up after the first k elements.
LEMMA PrefixSum ==
    ASSUME NEW n \in Nat, NEW s \in [1..n -> Nat], NEW k \in 1..n
    PROVE  accumulated(SubSeq(s, 1, k)) = SumFunctionOnSet(s, 1..k)
<1> DEFINE u == [i \in 1..k |-> s[i]]
<1>1. SubSeq(s, 1, k) = u
  BY DEF u
<1>2. k \in Nat /\ u \in [1..k -> Nat]
  OBVIOUS
<1>3. \A i \in 1..k : u[i] = s[i]
  OBVIOUS
<1> HIDE DEF u
<1>4. accumulated(u) = SumFunctionOnSet(u, 1..k)
  BY <1>2, FoldIsSum
<1>5. IsFiniteSet(1..k)
  BY <1>2, FS_Interval
<1>6. SumFunctionOnSet(u, 1..k) = SumFunctionOnSet(s, 1..k)
  BY <1>3, <1>5, SumSameValues
<1> QED
  BY <1>1, <1>4, <1>6

\* The loop stops at the size of the smallest set of stakes that reaches the required
\* stake (aggregating_consumer.rs, calculate_required_signers).
LEMMA GreedyIsLeast ==
    ASSUME NEW n \in Nat, NEW f \in [1..n -> Nat], NEW r \in Nat, r >= 1,
           SumFunctionOnSet(f, 1..n) >= r
    PROVE  /\ greedy(f, r) \in 1..n
           /\ \E A \in SUBSET (1..n) :
                Cardinality(A) = greedy(f, r) /\ SumFunctionOnSet(f, A) >= r
           /\ \A A \in SUBSET (1..n) :
                SumFunctionOnSet(f, A) >= r => greedy(f, r) <= Cardinality(A)
<1> DEFINE D == 1..n
           s == Sorted(f)
           sum(k) == SumFunctionOnSet(s, 1..k)
           enough == {k \in D : sum(k) >= r}
<1>0. IsFiniteSet(D) /\ Cardinality(D) = n
  BY FS_Interval
<1>1. PICK p \in [D -> D] :
        /\ \A i, j \in D : p[i] = p[j] => i = j
        /\ s = [i \in D |-> f[p[i]]]
        /\ \A i, j \in D : i < j => s[i] >= s[j]
  BY SortedStakes
<1> HIDE DEF s
<1>2. s \in [D -> Nat] /\ Len(s) = n
  BY <1>1
<1>3. \A k \in D : accumulated(SubSeq(s, 1, k)) = sum(k)
  BY <1>2, PrefixSum
<1>4. {k \in 1..Len(s) : accumulated(SubSeq(s, 1, k)) >= r} = enough
  BY <1>2, <1>3
<1> HIDE DEF enough
<1>5. greedy(f, r) = IF enough = {} THEN n ELSE Min(enough)
  BY <1>2, <1>4 DEF greedy, s
<1> DEFINE Image(A) == {p[x] : x \in A}
<1>6. ASSUME NEW A \in SUBSET D
      PROVE  /\ Cardinality(Image(A)) = Cardinality(A) /\ Image(A) \in SUBSET D
             /\ SumFunctionOnSet(s, A) = SumFunctionOnSet(f, Image(A))
  <2>1. IsFiniteSet(A)
    BY <1>0, FS_Subset
  <2>2. \A x, y \in A : p[x] = p[y] => x = y
    BY <1>1
  <2>3. \A x \in A : s[x] \in Nat /\ s[x] = f[p[x]]
    BY <1>1, <1>2
  <2>4. Image(A) \in SUBSET D
    BY <1>1
  <2> HIDE DEF D
  <2>5. Cardinality(Image(A)) = Cardinality(A)
    BY <2>1, <2>2, RenameCounts
  <2>6. SumFunctionOnSet(s, A) = SumFunctionOnSet(f, Image(A))
    BY <2>1, <2>2, <2>3, SumRename
  <2> QED
    BY <2>4, <2>5, <2>6
<1>7. Image(D) = D
  <2>1. Cardinality(Image(D)) = Cardinality(D) /\ Image(D) \subseteq D
    BY <1>6
  <2> HIDE DEF D, Image
  <2> QED
    BY <1>0, <2>1, FS_Subset
<1>8. n \in D /\ n \in enough
  <2>1. sum(n) = SumFunctionOnSet(f, D)
    BY <1>6, <1>7
  <2>2. n # 0
    <3> SUFFICES ASSUME n = 0 PROVE FALSE
      OBVIOUS
    <3>1. D = {}
      OBVIOUS
    <3> QED
      BY <3>1, SumEmpty
  <2> QED
    BY <2>1, <2>2 DEF enough
<1> DEFINE m == greedy(f, r)
<1>9. m \in enough /\ \A k \in enough : m <= k
  <2>0. enough \in SUBSET Nat
    BY DEF enough
  <2>1. enough \in SUBSET Nat /\ enough # {}
    BY <1>8, <2>0
  <2>2. Min(enough) \in enough /\ \A k \in enough : Min(enough) <= k
    BY <2>1, LeastNatural
  <2>3. greedy(f, r) = Min(enough)
    BY <1>5, <2>1
  <2> QED
    BY <2>2, <2>3
<1> HIDE DEF m
<1>10. m \in 1..n /\ sum(m) >= r
  BY <1>9 DEF enough
<1>11. \E A \in SUBSET D : Cardinality(A) = m /\ SumFunctionOnSet(f, A) >= r
  <2>1. 1..m \in SUBSET D /\ m \in Nat /\ m >= 1
    BY <1>10
  <2>2. Cardinality(1..m) = m
    BY <2>1, FS_Interval
  <2>3. /\ Cardinality(Image(1..m)) = m /\ Image(1..m) \in SUBSET D
        /\ SumFunctionOnSet(f, Image(1..m)) >= r
    BY <1>6, <1>10, <2>1, <2>2
  <2> QED
    BY <2>3
<1>12. ASSUME NEW A \in SUBSET D, SumFunctionOnSet(f, A) >= r PROVE m <= Cardinality(A)
  <2> DEFINE T == {x \in D : p[x] \in A}
             c == Cardinality(T)
  <2>1. Image(T) = A
    <3>1. \A y \in A : \E x \in D : p[x] = y
      BY <1>7
    <3> HIDE DEF D
    <3> QED
      BY <3>1
  <2>2. T \in SUBSET D
    OBVIOUS
  <2> HIDE DEF T
  <2>3. Cardinality(A) = c /\ SumFunctionOnSet(s, T) = SumFunctionOnSet(f, A)
    BY <1>6, <2>1, <2>2
  <2>4. IsFiniteSet(T) /\ c \in Nat /\ c <= n
    BY <1>0, <2>2, SubsetCounts
  <2>5. c # 0
    <3> SUFFICES ASSUME c = 0 PROVE FALSE
      OBVIOUS
    <3>1. T = {}
      BY <2>4, FS_EmptySet
    <3>2. SumFunctionOnSet(s, T) = 0
      BY <3>1, SumEmpty
    <3> QED
      BY <1>12, <2>3, <3>2
  <2>6. c \in 1..n /\ Cardinality(T) <= c
    BY <2>4, <2>5
  <2> HIDE DEF c
  <2>7. SumFunctionOnSet(s, T) <= sum(c)
    BY <1>1, <1>2, <2>2, <2>6, LargestFirst
  <2>8. SumFunctionOnSet(s, T) \in Nat /\ sum(c) \in Nat
    <3>1. 1..c \in SUBSET D
      BY <2>6
    <3>2. \A x \in D : s[x] \in Nat
      BY <1>2
    <3> QED
      BY <1>0, <2>2, <3>1, <3>2, SumMonotone
  <2> HIDE DEF sum
  <2>9. c \in enough
    BY <1>12, <2>3, <2>6, <2>7, <2>8 DEF enough
  <2> QED
    BY <1>9, <2>3, <2>9
<1> QED
  BY <1>10, <1>11, <1>12 DEF m

\* The number of signers that calculate_required_signers asks for is the size of the
\* smallest coalition whose signatures the service accepts: sorting and adding up the
\* largest stakes finds it, for both kinds of threshold.
THEOREM RequiredIsAlwaysLeast == Spec => []RequiredIsLeast
<1>1. TypeInv => RequiredIsLeast
  <2> DEFINE n == Cardinality(operators)
             stakes == [i \in 1..n |-> operator_stakes[i - 1]]
             W(S) == SumFunctionOnSet(operator_stakes, S)
             r == div_ceil(W(operators) * bps, Bps)
             m == greedy(stakes, r)
             sizes == {Cardinality(S) : S \in {T \in SUBSET operators : MetBy(T)}}
  <2> SUFFICES ASSUME TypeInv, bps > 0
               PROVE  calculate_required_signers(n, stakes) = Min(sizes)
    BY DEF RequiredIsLeast
  <2>1. n \in Nat /\ n >= 1 /\ operators = 0..(n - 1)
    <3>1. PICK k \in 1..MaxOperators : operators = 0..(k - 1)
      BY DEF TypeInv
    <3>2. Cardinality(0..(k - 1)) = k
      BY RulesAssumption, FS_Interval
    <3> QED
      BY <3>1, <3>2, RulesAssumption
  <2>2. /\ operator_stakes \in [operators -> Nat]
        /\ W(operators) \in Nat /\ W(operators) > 0 /\ r \in Nat /\ r >= 1
    BY MetByStake
  <2>3. ASSUME NEW S \in SUBSET operators PROVE MetBy(S) <=> W(S) >= r
    BY MetByStake
  <2> HIDE DEF n
  <2>4. \A i \in 1..n : i - 1 \in operators /\ operator_stakes[i - 1] \in Nat
    BY <2>1, <2>2
  <2>5. stakes \in [1..n -> Nat]
    BY <2>4
  <2> DEFINE D == 1..n
             q == [i \in D |-> i - 1]
             Image(A) == {q[x] : x \in A}
  <2>6. \A x \in D : stakes[x] \in Nat /\ stakes[x] = operator_stakes[q[x]] /\ q[x] \in operators
    BY <2>4
  <2>7. \A x, y \in D : q[x] = q[y] => x = y
    OBVIOUS
  <2>8. IsFiniteSet(D)
    BY <2>1, FS_Interval
  <2>9. \A S \in SUBSET operators : \E A \in SUBSET D : S = Image(A)
    <3> SUFFICES ASSUME NEW S \in SUBSET operators PROVE \E A \in SUBSET D : S = Image(A)
      OBVIOUS
    <3>1. S = Image({x \in D : x - 1 \in S})
      <4>1. ASSUME NEW y \in S PROVE y + 1 \in D /\ (y + 1) - 1 = y
        BY <2>1
      <4> QED
        BY <4>1
    <3> QED
      BY <3>1
  <2> HIDE DEF stakes, q, W, r
  <2>10. ASSUME NEW A \in SUBSET D
         PROVE  /\ Image(A) \in SUBSET operators
                /\ Cardinality(Image(A)) = Cardinality(A)
                /\ W(Image(A)) = SumFunctionOnSet(stakes, A)
    <3>1. IsFiniteSet(A)
      BY <2>8, FS_Subset
    <3>2. /\ \A x \in A : stakes[x] \in Nat /\ stakes[x] = operator_stakes[q[x]]
          /\ \A x, y \in A : q[x] = q[y] => x = y
      BY <2>6, <2>7
    <3>3. Image(A) \in SUBSET operators
      BY <2>6
    <3> HIDE DEF D
    <3>4. Cardinality(Image(A)) = Cardinality(A)
      BY <3>1, <3>2, RenameCounts
    <3>5. SumFunctionOnSet(stakes, A) = W(Image(A))
      BY <3>1, <3>2, SumRename DEF W
    <3> QED
      BY <3>3, <3>4, <3>5
  <2>11. Image(D) = operators
    <3>1. PICK A \in SUBSET D : operators = Image(A)
      BY <2>9
    <3> QED
      BY <3>1, <2>10
  <2>12. SumFunctionOnSet(stakes, D) = W(operators)
    BY <2>10, <2>11
  <2>13. W(operators) >= r
    BY <2>3, EveryoneMeets
  <2>14. /\ m \in D
         /\ \E A \in SUBSET D : Cardinality(A) = m /\ SumFunctionOnSet(stakes, A) >= r
         /\ \A A \in SUBSET D : SumFunctionOnSet(stakes, A) >= r => m <= Cardinality(A)
    BY <2>1, <2>2, <2>5, <2>12, <2>13, GreedyIsLeast
  <2> HIDE DEF m
  <2>15. calculate_required_signers(n, stakes) = m
    <3>1. DOMAIN stakes = D
      BY <2>5
    <3>2. ~ \A i \in D : stakes[i] = 0
      <4> SUFFICES ASSUME \A i \in D : stakes[i] = 0 PROVE FALSE
        OBVIOUS
      <4>1. \A i \in D : stakes[i] \in 0..0
        OBVIOUS
      <4>2. SumFunctionOnSet(stakes, D) <= Cardinality(D) * 0
        BY <2>8, <4>1, SumAtMost
      <4>3. Cardinality(D) \in Nat
        BY <2>8, FS_CardinalityType
      <4> QED
        BY <2>2, <2>12, <4>2, <4>3
    <3>3. StakeSum(stakes, DOMAIN stakes) = W(operators)
      <4> DEFINE g == [i \in D |-> StakeOf(stakes, i)]
      <4>1. \A i \in D : g[i] = stakes[i]
        BY <3>1 DEF StakeOf
      <4> HIDE DEF g
      <4>2. SumFunctionOnSet(g, D) = SumFunctionOnSet(stakes, D)
        BY <2>8, <4>1, SumSameValues
      <4> QED
        BY <2>12, <3>1, <4>2 DEF StakeSum, g
    <3>4. Max({1, r}) = r
      BY <2>2, MaxOfTwo
    <3>5. calculate_required_signers(n, stakes) = Max({1, Min({Max({n, 1}), m})})
      BY <3>1, <3>2, <3>3, <3>4 DEF calculate_required_signers, r, m
    <3>6. Max({n, 1}) = n
      BY <2>1, MaxOfTwo
    <3>7. Min({n, m}) = m /\ Max({1, m}) = m
      <4>1. m \in Nat /\ m >= 1 /\ m <= n
        BY <2>1, <2>14
      <4>2. Min({n, m}) = m
        BY <2>1, <4>1, MinOfTwo
      <4>3. Max({1, m}) = m
        BY <4>1, MaxOfTwo
      <4> QED
        BY <4>2, <4>3
    <3> QED
      BY <3>5, <3>6, <3>7
  <2>16. m \in sizes
    <3>1. PICK A \in SUBSET D : Cardinality(A) = m /\ SumFunctionOnSet(stakes, A) >= r
      BY <2>14
    <3>2. Image(A) \in SUBSET operators /\ Cardinality(Image(A)) = m /\ W(Image(A)) >= r
      BY <2>10, <3>1
    <3>3. MetBy(Image(A))
      BY <2>3, <3>2
    <3> HIDE DEF Image
    <3> QED
      BY <3>2, <3>3
  <2>17. ASSUME NEW z \in sizes PROVE z \in Nat /\ m <= z
    <3>1. PICK S \in SUBSET operators : MetBy(S) /\ z = Cardinality(S)
      OBVIOUS
    <3>2. PICK A \in SUBSET D : S = Image(A)
      BY <2>9
    <3>3. z = Cardinality(A) /\ SumFunctionOnSet(stakes, A) >= r
      BY <2>3, <2>10, <3>1, <3>2
    <3>4. Cardinality(A) \in Nat
      BY <2>8, FS_Subset, FS_CardinalityType
    <3> QED
      BY <2>14, <3>3, <3>4
  <2> HIDE DEF sizes
  <2>18. Min(sizes) = m
    <3>1. sizes \in SUBSET Nat /\ sizes # {}
      BY <2>16, <2>17
    <3>2. Min(sizes) \in sizes /\ \A z \in sizes : Min(sizes) <= z
      BY <3>1, LeastNatural
    <3>3. m \in Nat /\ Min(sizes) \in Nat /\ Min(sizes) <= m /\ m <= Min(sizes)
      BY <2>16, <2>17, <3>1, <3>2
    <3> QED
      BY <3>3
  <2> QED
    BY <2>15, <2>18
<1> QED
  BY <1>1, TypeInvHolds, PTL
=============================================================================
