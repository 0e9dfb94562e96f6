----------------------------- MODULE SumProofs ------------------------------
(***************************************************************************)
(* Facts about SumFunctionOnSet, the sum of f[x] for x in a finite set: of *)
(* the stakes of the operators that signed, of the weights of the          *)
(* participants of a gossip.  The library defines the sum by taking the    *)
(* elements in an order of its own choice; the lemmas show that the sum    *)
(* exists and that the order does not matter.                              *)
(*                                                                         *)
(* Induction over a finite set S is done by looking at a smallest          *)
(* counterexample (WFMin): a set T of subsets of S that is not empty has   *)
(* an element of which no proper subset is in T.                           *)
(***************************************************************************)
EXTENDS Naturals, FiniteSets, Functions, FiniteSetTheorems, WellFoundedInduction, TLAPS

\* A non-empty set of subsets of a finite set has a minimal element.
LEMMA SmallestSubset ==
    ASSUME NEW S, IsFiniteSet(S), NEW T \in SUBSET (SUBSET S), T # {}
    PROVE  \E A \in T : \A B \in T : B \subseteq A => B = A
<1>1. T \subseteq FiniteSubsetsOf(S)
  BY FS_FiniteSubsetsOfFinite
<1>2. PICK A \in T : \A B \in T : ~ (<<B, A>> \in StrictSubsetOrdering(S))
  BY <1>1, FS_StrictSubsetOrderingWellFounded, WFMin
<1>3. ASSUME NEW B \in T, B \subseteq A PROVE B = A
  BY <1>2, <1>3 DEF StrictSubsetOrdering
<1> QED
  BY <1>3

-----------------------------------------------------------------------------
(***************************************************************************)
(* The recursive function behind the sum.                                  *)
(***************************************************************************)
Pick(s) == CHOOSE x \in s : TRUE

\* g gives the sum of f over every subset of S.
Sums(g, f, S) ==
    g = [s \in SUBSET S |-> IF s = {} THEN 0 ELSE f[Pick(s)] + g[s \ {Pick(s)}]]

\* The sum is the value of such a function, if there is one.
LEMMA SumIsChosen ==
    ASSUME NEW f, NEW S
    PROVE  SumFunctionOnSet(f, S) = (CHOOSE g : Sums(g, f, S))[S]
BY DEF SumFunctionOnSet, FoldFunctionOnSet, MapThenFoldSet, Sums, Pick

\* An element is picked from every set that has one.
LEMMA PickOne == ASSUME NEW s, s # {} PROVE Pick(s) \in s
BY DEF Pick

\* There is at most one such function.
LEMMA SumsUnique ==
    ASSUME NEW f, NEW S, IsFiniteSet(S), NEW g, NEW h, Sums(g, f, S), Sums(h, f, S)
    PROVE  g = h
<1> DEFINE T == {s \in SUBSET S : g[s] # h[s]}
<1>0. T \in SUBSET (SUBSET S)
  OBVIOUS
<1> HIDE DEF T
<1>1. T = {}
  <2> SUFFICES ASSUME T # {} PROVE FALSE
    OBVIOUS
  <2>1. PICK A \in T : \A B \in T : B \subseteq A => B = A
    BY <1>0, SmallestSubset
  <2>2. A \in SUBSET S /\ g[A] # h[A]
    BY DEF T
  <2>3. A # {}
    BY <2>2 DEF Sums
  <2>4. Pick(A) \in A
    BY <2>3, PickOne
  <2>5. A \ {Pick(A)} \in SUBSET S /\ g[A \ {Pick(A)}] = h[A \ {Pick(A)}]
    BY <2>1, <2>2, <2>4 DEF T
  <2>6. /\ g[A] = f[Pick(A)] + g[A \ {Pick(A)}]
        /\ h[A] = f[Pick(A)] + h[A \ {Pick(A)}]
    BY <2>2, <2>3 DEF Sums
  <2> QED
    BY <2>2, <2>5, <2>6
<1>2. /\ g = [s \in SUBSET S |-> g[s]]
      /\ h = [s \in SUBSET S |-> h[s]]
  BY DEF Sums
<1>3. \A s \in SUBSET S : g[s] = h[s]
  BY <1>1 DEF T
<1> QED
  BY <1>2, <1>3

\* Restricted to the subsets of a smaller set it is the function of that set.
LEMMA SumsRestrict ==
    ASSUME NEW f, NEW S, NEW g, Sums(g, f, S), NEW A \in SUBSET S
    PROVE  Sums([s \in SUBSET A |-> g[s]], f, A)
<1> DEFINE h == [s \in SUBSET A |-> g[s]]
<1>1. ASSUME NEW s \in SUBSET A
      PROVE  h[s] = IF s = {} THEN 0 ELSE f[Pick(s)] + h[s \ {Pick(s)}]
  <2>1. g[s] = IF s = {} THEN 0 ELSE f[Pick(s)] + g[s \ {Pick(s)}]
    BY DEF Sums
  <2>2. s \ {Pick(s)} \in SUBSET A
    OBVIOUS
  <2> QED
    BY <2>1, <2>2
<1>2. h = [s \in SUBSET A |-> h[s]]
  OBVIOUS
<1> HIDE DEF h
<1>3. h = [s \in SUBSET A |-> IF s = {} THEN 0 ELSE f[Pick(s)] + h[s \ {Pick(s)}]]
  BY <1>1, <1>2
<1>4. Sums(h, f, A)
  BY <1>3 DEF Sums
<1> QED
  BY <1>4 DEF h

\* There is one for every finite set.
LEMMA SumsExist ==
    ASSUME NEW f, NEW S, IsFiniteSet(S)
    PROVE  \E g : Sums(g, f, S)
<1> DEFINE T == {A \in SUBSET S : ~ \E g : Sums(g, f, A)}
<1>1. SUFFICES ASSUME T # {} PROVE FALSE
  BY DEF T
<1>1a. T \in SUBSET (SUBSET S)
  OBVIOUS
<1> HIDE DEF T
<1>2. PICK A \in T : \A B \in T : B \subseteq A => B = A
  BY <1>1, <1>1a, SmallestSubset
<1>2a. A \in SUBSET S /\ ~ \E g : Sums(g, f, A)
  BY DEF T
<1>3. ASSUME NEW B \in SUBSET A, B # A PROVE \E g : Sums(g, f, B)
  BY <1>2, <1>2a, <1>3 DEF T
<1> DEFINE G(B) == CHOOSE g : Sums(g, f, B)
           Below(B) == G(B)[B]
<1>4. ASSUME NEW B \in SUBSET A, B # A PROVE Sums(G(B), f, B)
  BY <1>3, <1>4
<1> HIDE DEF G
<1>5. ASSUME NEW B \in SUBSET A, B # A
      PROVE  Below(B) = IF B = {} THEN 0 ELSE f[Pick(B)] + Below(B \ {Pick(B)})
  <2>1. G(B)[B] = IF B = {} THEN 0 ELSE f[Pick(B)] + G(B)[B \ {Pick(B)}]
    BY <1>4, <1>5 DEF Sums
  <2>2. CASE B # {}
    <3> DEFINE C == B \ {Pick(B)}
               h == [s \in SUBSET C |-> G(B)[s]]
    <3>1. C \in SUBSET A /\ C # A /\ C \in SUBSET B
      BY <1>5
    <3>2. Sums(G(B), f, B) /\ Sums(G(C), f, C)
      BY <1>4, <1>5, <3>1
    <3>3. Sums(h, f, C)
      BY <3>1, <3>2, SumsRestrict
    <3>4. IsFiniteSet(C)
      BY <1>2a, <3>1, FS_Subset
    <3>5. h = G(C)
      <4> HIDE DEF h
      <4> QED
        BY <3>2, <3>3, <3>4, SumsUnique
    <3>6. G(B)[C] = G(C)[C]
      BY <3>5
    <3> QED
      BY <2>1, <2>2, <3>6
  <2> QED
    BY <2>1, <2>2
<1> DEFINE k == [s \in SUBSET A |->
                   IF s = A THEN IF s = {} THEN 0 ELSE f[Pick(s)] + Below(s \ {Pick(s)})
                            ELSE Below(s)]
<1> HIDE DEF Below
<1>6. ASSUME NEW s \in SUBSET A
      PROVE  k[s] = IF s = {} THEN 0 ELSE f[Pick(s)] + k[s \ {Pick(s)}]
  <2>1. CASE s = {}
    BY <1>5, <2>1
  <2>2. CASE s # {}
    <3>1. s \ {Pick(s)} \in SUBSET A /\ s \ {Pick(s)} # A
      BY <2>2, PickOne
    <3>2. k[s \ {Pick(s)}] = Below(s \ {Pick(s)})
      BY <3>1
    <3>3. k[s] = f[Pick(s)] + Below(s \ {Pick(s)})
      BY <1>5, <2>2
    <3> QED
      BY <2>2, <3>2, <3>3
  <2> QED
    BY <2>1, <2>2
<1>7. k = [s \in SUBSET A |-> k[s]]
  OBVIOUS
<1> HIDE DEF k
<1>8. k = [s \in SUBSET A |-> IF s = {} THEN 0 ELSE f[Pick(s)] + k[s \ {Pick(s)}]]
  BY <1>6, <1>7
<1>9. Sums(k, f, A)
  BY <1>8 DEF Sums
<1> QED
  BY <1>2a, <1>9

\* The empty sum, and the sum over any other finite set.
LEMMA SumByPick ==
    ASSUME NEW f, NEW S, IsFiniteSet(S)
    PROVE  SumFunctionOnSet(f, S) =
             IF S = {} THEN 0
             ELSE f[Pick(S)] + SumFunctionOnSet(f, S \ {Pick(S)})
<1> DEFINE G(B) == CHOOSE g : Sums(g, f, B)
           C == S \ {Pick(S)}
           h == [s \in SUBSET C |-> G(S)[s]]
<1>1. IsFiniteSet(C) /\ C \in SUBSET S
  BY FS_Subset
<1>2. Sums(G(S), f, S) /\ Sums(G(C), f, C)
  BY <1>1, SumsExist
<1>3. SumFunctionOnSet(f, S) = G(S)[S] /\ SumFunctionOnSet(f, C) = G(C)[C]
  BY SumIsChosen
<1> HIDE DEF G
<1>4. Sums(h, f, C)
  BY <1>1, <1>2, SumsRestrict
<1>5. h = G(C)
  <2> HIDE DEF h
  <2> QED
    BY <1>1, <1>2, <1>4, SumsUnique
<1>6. G(S)[C] = G(C)[C]
  BY <1>5
<1>7. G(S)[S] = IF S = {} THEN 0 ELSE f[Pick(S)] + G(S)[C]
  BY <1>2 DEF Sums
<1> QED
  BY <1>3, <1>6, <1>7
-----------------------------------------------------------------------------
(***************************************************************************)
(* Sums of natural numbers.                                                *)
(***************************************************************************)

\* The empty sum is zero.
LEMMA SumEmpty == ASSUME NEW f PROVE SumFunctionOnSet(f, {}) = 0
BY SumByPick, FS_EmptySet

\* A sum of naturals is a natural.
LEMMA SumType ==
    ASSUME NEW f, NEW S, IsFiniteSet(S), \A x \in S : f[x] \in Nat
    PROVE  SumFunctionOnSet(f, S) \in Nat
<1> DEFINE T == {A \in SUBSET S : SumFunctionOnSet(f, A) \notin Nat}
<1>1. T \in SUBSET (SUBSET S)
  OBVIOUS
<1> HIDE DEF T
<1>2. SUFFICES ASSUME T # {} PROVE FALSE
  BY DEF T
<1>3. PICK A \in T : \A B \in T : B \subseteq A => B = A
  BY <1>1, <1>2, SmallestSubset
<1>4. A \in SUBSET S /\ SumFunctionOnSet(f, A) \notin Nat /\ IsFiniteSet(A)
  BY FS_Subset DEF T
<1>5. A # {}
  BY <1>4, SumEmpty
<1>6. Pick(A) \in A
  BY <1>5, PickOne
<1>7. SumFunctionOnSet(f, A \ {Pick(A)}) \in Nat
  BY <1>3, <1>4, <1>6 DEF T
<1>8. SumFunctionOnSet(f, A) = f[Pick(A)] + SumFunctionOnSet(f, A \ {Pick(A)})
  BY <1>4, <1>5, SumByPick
<1> QED
  BY <1>4, <1>6, <1>7, <1>8

\* Any element may be taken out first: the order does not matter.
LEMMA SumRemove ==
    ASSUME NEW f, NEW S, IsFiniteSet(S), \A x \in S : f[x] \in Nat, NEW e \in S
    PROVE  SumFunctionOnSet(f, S) = f[e] + SumFunctionOnSet(f, S \ {e})
<1> DEFINE T == {A \in SUBSET S : \E x \in A :
                   SumFunctionOnSet(f, A) # f[x] + SumFunctionOnSet(f, A \ {x})}
<1>1. T \in SUBSET (SUBSET S)
  OBVIOUS
<1> HIDE DEF T
<1>2. SUFFICES ASSUME T # {} PROVE FALSE
  BY DEF T
<1>3. PICK A \in T : \A B \in T : B \subseteq A => B = A
  BY <1>1, <1>2, SmallestSubset
<1>4. A \in SUBSET S /\ IsFiniteSet(A)
  BY FS_Subset DEF T
<1>5. PICK x \in A : SumFunctionOnSet(f, A) # f[x] + SumFunctionOnSet(f, A \ {x})
  BY DEF T
<1> DEFINE y == Pick(A)
           rest == (A \ {x}) \ {y}
<1>6. y \in A
  BY <1>5, PickOne
<1>7. SumFunctionOnSet(f, A) = f[y] + SumFunctionOnSet(f, A \ {y})
  BY <1>4, <1>5, SumByPick
<1> HIDE DEF y
<1>8. x # y
  BY <1>5, <1>7
<1>9. /\ A \ {x} \in SUBSET S /\ A \ {y} \in SUBSET S
      /\ A \ {x} # A /\ A \ {y} # A
      /\ x \in A \ {y} /\ y \in A \ {x}
  BY <1>4, <1>6, <1>8
<1>10. /\ SumFunctionOnSet(f, A \ {y}) = f[x] + SumFunctionOnSet(f, (A \ {y}) \ {x})
       /\ SumFunctionOnSet(f, A \ {x}) = f[y] + SumFunctionOnSet(f, rest)
  BY <1>3, <1>9 DEF T
<1>11. (A \ {y}) \ {x} = rest
  OBVIOUS
<1>12. /\ f[x] \in Nat /\ f[y] \in Nat
       /\ IsFiniteSet(rest) /\ \A z \in rest : f[z] \in Nat
  BY <1>4, <1>5, <1>6, FS_Subset
<1>13. SumFunctionOnSet(f, rest) \in Nat
  BY <1>12, SumType
<1> HIDE DEF rest
<1> QED
  BY <1>5, <1>7, <1>10, <1>11, <1>12, <1>13

\* The sum over two sets that share nothing.
LEMMA SumUnion ==
    ASSUME NEW f, NEW R, NEW S, IsFiniteSet(R), IsFiniteSet(S), R \cap S = {},
           \A x \in R \cup S : f[x] \in Nat
    PROVE  SumFunctionOnSet(f, R \cup S) = SumFunctionOnSet(f, R) + SumFunctionOnSet(f, S)
<1> DEFINE T == {A \in SUBSET S :
                   SumFunctionOnSet(f, R \cup A) # SumFunctionOnSet(f, R) + SumFunctionOnSet(f, A)}
<1>1. T \in SUBSET (SUBSET S)
  OBVIOUS
<1> HIDE DEF T
<1>2. SUFFICES ASSUME T # {} PROVE FALSE
  BY DEF T
<1>3. PICK A \in T : \A B \in T : B \subseteq A => B = A
  BY <1>1, <1>2, SmallestSubset
<1>4. /\ A \in SUBSET S /\ IsFiniteSet(A)
      /\ SumFunctionOnSet(f, R \cup A) # SumFunctionOnSet(f, R) + SumFunctionOnSet(f, A)
  BY FS_Subset DEF T
<1>5. SumFunctionOnSet(f, R) \in Nat
  BY SumType
<1>6. A # {}
  <2> SUFFICES ASSUME A = {} PROVE FALSE
    OBVIOUS
  <2>1. R \cup A = R
    OBVIOUS
  <2> QED
    BY <1>4, <1>5, <2>1, SumEmpty
<1>7. PICK x \in A : TRUE
  BY <1>6
<1> DEFINE B == A \ {x}
<1>8. /\ B \in SUBSET S /\ IsFiniteSet(B) /\ B # A /\ B \subseteq A
      /\ \A z \in B : f[z] \in Nat
      /\ f[x] \in Nat
  BY <1>4, <1>7, FS_Subset
<1>9. SumFunctionOnSet(f, B) \in Nat
  <2> HIDE DEF B
  <2> QED
    BY <1>8, SumType
<1>10. SumFunctionOnSet(f, R \cup B) = SumFunctionOnSet(f, R) + SumFunctionOnSet(f, B)
  <2> HIDE DEF B
  <2> QED
    BY <1>3, <1>8 DEF T
<1>11. SumFunctionOnSet(f, A) = f[x] + SumFunctionOnSet(f, B)
  BY <1>4, <1>7, SumRemove
<1>12. SumFunctionOnSet(f, R \cup A) = f[x] + SumFunctionOnSet(f, R \cup B)
  <2>1. (R \cup A) \ {x} = R \cup B
    BY <1>4, <1>7
  <2>2. IsFiniteSet(R \cup A) /\ \A z \in R \cup A : f[z] \in Nat
    BY <1>4, FS_Union
  <2>3. SumFunctionOnSet(f, R \cup A) = f[x] + SumFunctionOnSet(f, (R \cup A) \ {x})
    BY <1>7, <2>2, SumRemove
  <2> QED
    BY <2>1, <2>3
<1> HIDE DEF B
<1> QED
  BY <1>4, <1>5, <1>8, <1>9, <1>10, <1>11, <1>12

\* More elements, no smaller a sum.
LEMMA SumMonotone ==
    ASSUME NEW f, NEW S, IsFiniteSet(S), \A x \in S : f[x] \in Nat, NEW A \in SUBSET S
    PROVE  /\ SumFunctionOnSet(f, A) \in Nat /\ SumFunctionOnSet(f, S) \in Nat
           /\ SumFunctionOnSet(f, A) <= SumFunctionOnSet(f, S)
<1>1. IsFiniteSet(A) /\ IsFiniteSet(S \ A) /\ A \cup (S \ A) = S /\ A \cap (S \ A) = {}
  BY FS_Subset
<1>2. /\ SumFunctionOnSet(f, A) \in Nat /\ SumFunctionOnSet(f, S \ A) \in Nat
      /\ SumFunctionOnSet(f, S) \in Nat
  BY <1>1, SumType
<1>3. SumFunctionOnSet(f, S) = SumFunctionOnSet(f, A) + SumFunctionOnSet(f, S \ A)
  BY <1>1, SumUnion
<1> QED
  BY <1>2, <1>3

\* The sum depends only on the values on the set.
LEMMA SumSameValues ==
    ASSUME NEW f, NEW g, NEW S, IsFiniteSet(S), \A x \in S : f[x] = g[x]
    PROVE  SumFunctionOnSet(f, S) = SumFunctionOnSet(g, S)
<1> DEFINE T == {A \in SUBSET S : SumFunctionOnSet(f, A) # SumFunctionOnSet(g, A)}
<1>1. T \in SUBSET (SUBSET S)
  OBVIOUS
<1> HIDE DEF T
<1>2. SUFFICES ASSUME T # {} PROVE FALSE
  BY DEF T
<1>3. PICK A \in T : \A B \in T : B \subseteq A => B = A
  BY <1>1, <1>2, SmallestSubset
<1>4. A \in SUBSET S /\ SumFunctionOnSet(f, A) # SumFunctionOnSet(g, A) /\ IsFiniteSet(A)
  BY FS_Subset DEF T
<1>5. A # {}
  BY <1>4, SumEmpty
<1>6. Pick(A) \in A
  BY <1>5, PickOne
<1>7. SumFunctionOnSet(f, A \ {Pick(A)}) = SumFunctionOnSet(g, A \ {Pick(A)})
  BY <1>3, <1>4, <1>6 DEF T
<1>8. /\ SumFunctionOnSet(f, A) = f[Pick(A)] + SumFunctionOnSet(f, A \ {Pick(A)})
      /\ SumFunctionOnSet(g, A) = g[Pick(A)] + SumFunctionOnSet(g, A \ {Pick(A)})
  BY <1>4, <1>5, SumByPick
<1> QED
  BY <1>4, <1>6, <1>7, <1>8

\* A sum of ones counts.
LEMMA SumOfOnes ==
    ASSUME NEW f, NEW S, IsFiniteSet(S), \A x \in S : f[x] = 1
    PROVE  SumFunctionOnSet(f, S) = Cardinality(S)
<1> DEFINE T == {A \in SUBSET S : SumFunctionOnSet(f, A) # Cardinality(A)}
<1>1. T \in SUBSET (SUBSET S)
  OBVIOUS
<1> HIDE DEF T
<1>2. SUFFICES ASSUME T # {} PROVE FALSE
  BY DEF T
<1>3. PICK A \in T : \A B \in T : B \subseteq A => B = A
  BY <1>1, <1>2, SmallestSubset
<1>4. A \in SUBSET S /\ SumFunctionOnSet(f, A) # Cardinality(A) /\ IsFiniteSet(A)
  BY FS_Subset DEF T
<1>5. A # {}
  BY <1>4, SumEmpty, FS_EmptySet
<1>6. Pick(A) \in A
  BY <1>5, PickOne
<1>7. SumFunctionOnSet(f, A \ {Pick(A)}) = Cardinality(A \ {Pick(A)})
  BY <1>3, <1>4, <1>6 DEF T
<1>8. SumFunctionOnSet(f, A) = f[Pick(A)] + SumFunctionOnSet(f, A \ {Pick(A)})
  BY <1>4, <1>5, SumByPick
<1>9. Cardinality(A \ {Pick(A)}) = Cardinality(A) - 1 /\ Cardinality(A) \in Nat
  BY <1>4, <1>6, FS_RemoveElement, FS_CardinalityType
<1>10. f[Pick(A)] = 1
  BY <1>4, <1>6
<1> QED
  BY <1>4, <1>7, <1>8, <1>9, <1>10

\* A sum of naturals is at least each of them.
LEMMA SumAtLeast ==
    ASSUME NEW f, NEW S, IsFiniteSet(S), \A x \in S : f[x] \in Nat, NEW e \in S
    PROVE  f[e] <= SumFunctionOnSet(f, S)
<1>1. SumFunctionOnSet(f, S) = f[e] + SumFunctionOnSet(f, S \ {e})
  BY SumRemove
<1>2. IsFiniteSet(S \ {e}) /\ \A x \in S \ {e} : f[x] \in Nat
  BY FS_Subset
<1>3. SumFunctionOnSet(f, S \ {e}) \in Nat
  BY <1>2, SumType
<1> QED
  BY <1>1, <1>3

\* A sum of naturals that are at most m is at most m for each element.
LEMMA SumAtMost ==
    ASSUME NEW f, NEW S, IsFiniteSet(S), NEW m \in Nat, \A x \in S : f[x] \in 0..m
    PROVE  SumFunctionOnSet(f, S) <= Cardinality(S) * m
<1> DEFINE T == {A \in SUBSET S : ~ (SumFunctionOnSet(f, A) <= Cardinality(A) * m)}
<1>1. T \in SUBSET (SUBSET S)
  OBVIOUS
<1> HIDE DEF T
<1>2. SUFFICES ASSUME T # {} PROVE FALSE
  BY DEF T
<1>3. PICK A \in T : \A B \in T : B \subseteq A => B = A
  BY <1>1, <1>2, SmallestSubset
<1>4. A \in SUBSET S /\ ~ (SumFunctionOnSet(f, A) <= Cardinality(A) * m) /\ IsFiniteSet(A)
  BY FS_Subset DEF T
<1>5. A # {}
  <2> SUFFICES ASSUME A = {} PROVE FALSE
    OBVIOUS
  <2>1. SumFunctionOnSet(f, A) = 0 /\ Cardinality(A) = 0
    BY SumEmpty, FS_EmptySet
  <2> QED
    BY <1>4, <2>1
<1>6. Pick(A) \in A
  BY <1>5, PickOne
<1> DEFINE B == A \ {Pick(A)}
<1>7. SumFunctionOnSet(f, B) <= Cardinality(B) * m
  BY <1>3, <1>4, <1>6 DEF T
<1>8. SumFunctionOnSet(f, A) = f[Pick(A)] + SumFunctionOnSet(f, B)
  BY <1>4, <1>5, SumByPick
<1>9. Cardinality(B) = Cardinality(A) - 1 /\ Cardinality(A) \in Nat /\ Cardinality(B) \in Nat
  BY <1>4, <1>6, FS_RemoveElement, FS_CardinalityType
<1>10. f[Pick(A)] \in 0..m /\ IsFiniteSet(B) /\ \A x \in B : f[x] \in Nat
  BY <1>4, <1>6, FS_Subset
<1>11. SumFunctionOnSet(f, B) \in Nat
  BY <1>10, SumType
<1> HIDE DEF B
<1>12. Cardinality(A) = Cardinality(B) + 1
  BY <1>9
<1>13. (Cardinality(B) + 1) * m = Cardinality(B) * m + m
  BY <1>9
<1>14. Cardinality(B) * m \in Nat
  BY <1>9
<1> QED
  BY <1>4, <1>7, <1>8, <1>10, <1>11, <1>12, <1>13, <1>14

\* A sum of naturals that are at least m is at least m for each element.
LEMMA SumAtLeastEach ==
    ASSUME NEW f, NEW S, IsFiniteSet(S), NEW m \in Nat, \A x \in S : f[x] \in Nat /\ f[x] >= m
    PROVE  SumFunctionOnSet(f, S) >= Cardinality(S) * m
<1> DEFINE T == {A \in SUBSET S : ~ (SumFunctionOnSet(f, A) >= Cardinality(A) * m)}
<1>1. T \in SUBSET (SUBSET S)
  OBVIOUS
<1> HIDE DEF T
<1>2. SUFFICES ASSUME T # {} PROVE FALSE
  BY DEF T
<1>3. PICK A \in T : \A B \in T : B \subseteq A => B = A
  BY <1>1, <1>2, SmallestSubset
<1>4. A \in SUBSET S /\ ~ (SumFunctionOnSet(f, A) >= Cardinality(A) * m) /\ IsFiniteSet(A)
  BY FS_Subset DEF T
<1>5. A # {}
  <2> SUFFICES ASSUME A = {} PROVE FALSE
    OBVIOUS
  <2>1. SumFunctionOnSet(f, A) = 0 /\ Cardinality(A) = 0
    BY SumEmpty, FS_EmptySet
  <2> QED
    BY <1>4, <2>1
<1>6. Pick(A) \in A
  BY <1>5, PickOne
<1> DEFINE B == A \ {Pick(A)}
<1>7. SumFunctionOnSet(f, B) >= Cardinality(B) * m
  BY <1>3, <1>4, <1>6 DEF T
<1>8. SumFunctionOnSet(f, A) = f[Pick(A)] + SumFunctionOnSet(f, B)
  BY <1>4, <1>5, SumByPick
<1>9. Cardinality(B) = Cardinality(A) - 1 /\ Cardinality(A) \in Nat /\ Cardinality(B) \in Nat
  BY <1>4, <1>6, FS_RemoveElement, FS_CardinalityType
<1>10. /\ f[Pick(A)] \in Nat /\ f[Pick(A)] >= m
       /\ IsFiniteSet(B) /\ \A x \in B : f[x] \in Nat
  BY <1>4, <1>6, FS_Subset
<1>11. SumFunctionOnSet(f, B) \in Nat
  BY <1>10, SumType
<1> HIDE DEF B
<1>12. Cardinality(A) = Cardinality(B) + 1
  BY <1>9
<1>13. (Cardinality(B) + 1) * m = Cardinality(B) * m + m
  BY <1>9
<1>14. Cardinality(B) * m \in Nat
  BY <1>9
<1> QED
  BY <1>4, <1>7, <1>8, <1>10, <1>11, <1>12, <1>13, <1>14

\* Renaming the elements, two never to the same, does not change a sum.
LEMMA SumRename ==
    ASSUME NEW S, IsFiniteSet(S), NEW f, NEW g, NEW q, NEW R, R = {q[x] : x \in S},
           \A x \in S : f[x] \in Nat /\ f[x] = g[q[x]],
           \A x, y \in S : q[x] = q[y] => x = y
    PROVE  IsFiniteSet(R) /\ SumFunctionOnSet(f, S) = SumFunctionOnSet(g, R)
<1> DEFINE Image(A) == {q[x] : x \in A}
           Same(A) == /\ IsFiniteSet(Image(A))
                      /\ SumFunctionOnSet(f, A) = SumFunctionOnSet(g, Image(A))
           T == {A \in SUBSET S : ~ Same(A)}
<1>1. T \in SUBSET (SUBSET S)
  OBVIOUS
<1>2. SUFFICES ASSUME T # {} PROVE FALSE
  <2>1. SUFFICES Same(S)
    OBVIOUS
  <2> HIDE DEF Same
  <2> QED
    BY DEF T
<1> HIDE DEF T
<1>3. PICK A \in T : \A B \in T : B \subseteq A => B = A
  BY <1>1, <1>2, SmallestSubset
<1>4. A \in SUBSET S /\ ~ Same(A) /\ IsFiniteSet(A)
  BY FS_Subset DEF T
<1>5. A # {}
  <2> SUFFICES ASSUME A = {} PROVE FALSE
    OBVIOUS
  <2>1. Image(A) = {}
    OBVIOUS
  <2> QED
    BY <1>4, <2>1, SumEmpty, FS_EmptySet
<1>6. PICK x \in A : TRUE
  BY <1>5
<1> DEFINE B == A \ {x}
<1>7. B \in SUBSET S /\ B # A /\ B \subseteq A /\ IsFiniteSet(B)
  BY <1>4, <1>6, FS_Subset
<1>8. Same(B)
  <2> HIDE DEF Same
  <2> QED
    BY <1>3, <1>7 DEF T
<1>9. Image(A) = Image(B) \cup {q[x]} /\ q[x] \notin Image(B)
  BY <1>4, <1>6
<1>10. IsFiniteSet(Image(A))
  <2> HIDE DEF Image
  <2>1. IsFiniteSet(Image(B) \cup {q[x]})
    BY <1>8, FS_AddElement
  <2> QED
    BY <1>9, <2>1
<1>11. Image(A) \ {q[x]} = Image(B) /\ q[x] \in Image(A)
  BY <1>9
<1>12. \A z \in Image(A) : g[z] \in Nat
  BY <1>4
<1>13. SumFunctionOnSet(g, Image(A)) = g[q[x]] + SumFunctionOnSet(g, Image(B))
  <2> HIDE DEF Image
  <2>1. SumFunctionOnSet(g, Image(A)) = g[q[x]] + SumFunctionOnSet(g, Image(A) \ {q[x]})
    BY <1>10, <1>11, <1>12, SumRemove
  <2> QED
    BY <1>11, <2>1
<1>14. SumFunctionOnSet(f, A) = f[x] + SumFunctionOnSet(f, B)
  BY <1>4, <1>6, SumRemove
<1>15. f[x] = g[q[x]]
  BY <1>4, <1>6
<1> QED
  BY <1>4, <1>8, <1>10, <1>13, <1>14, <1>15

\* Nor does it change how many there are.
LEMMA RenameCounts ==
    ASSUME NEW S, IsFiniteSet(S), NEW q, NEW R, R = {q[x] : x \in S},
           \A x, y \in S : q[x] = q[y] => x = y
    PROVE  IsFiniteSet(R) /\ Cardinality(R) = Cardinality(S)
<1> DEFINE f == [x \in S |-> 1]
           g == [z \in R |-> 1]
<1>1. \A x \in S : f[x] \in Nat /\ f[x] = g[q[x]]
  OBVIOUS
<1>2. (\A x \in S : f[x] = 1) /\ (\A z \in R : g[z] = 1)
  OBVIOUS
<1> HIDE DEF f, g
<1>3. IsFiniteSet(R) /\ SumFunctionOnSet(f, S) = SumFunctionOnSet(g, R)
  BY <1>1, SumRename
<1>4. SumFunctionOnSet(f, S) = Cardinality(S)
  BY <1>2, SumOfOnes
<1>5. SumFunctionOnSet(g, R) = Cardinality(R)
  BY <1>2, <1>3, SumOfOnes
<1> QED
  BY <1>3, <1>4, <1>5
=============================================================================
