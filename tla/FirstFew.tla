------------------------------ MODULE FirstFew ------------------------------
(***************************************************************************)
(* Serving the first k members of a finite set in a strict total order,    *)
(* as the dispatch loops of the router and of the window do: the members   *)
(* with fewer than k members before them.  There are at most k of them,    *)
(* and k of them unless all are served.                                    *)
(***************************************************************************)
EXTENDS Integers, FiniteSets, FiniteSetTheorems, WellFoundedInduction, TLAPS

\* before[t] is the set of the members of S that precede t in a total order.
IsRanking(S, before) ==
  /\ before \in [S -> SUBSET S]
  /\ \A t \in S : t \notin before[t]
  /\ \A t, u \in S : t # u => t \in before[u] \/ u \in before[t]
  /\ \A t, u \in S : t \in before[u] => before[t] \subseteq before[u]

FirstFew(S, before, k) == {t \in S : Cardinality(before[t]) < k}

\* Of two members, the earlier has strictly fewer predecessors.
LEMMA FewerBefore ==
  ASSUME NEW S, IsFiniteSet(S), NEW before, IsRanking(S, before),
         NEW t \in S, NEW u \in S, t \in before[u]
  PROVE  /\ before[t] \subseteq before[u] /\ before[t] # before[u]
         /\ Cardinality(before[t]) \in Nat /\ Cardinality(before[u]) \in Nat
         /\ Cardinality(before[t]) < Cardinality(before[u])
<1>1. before[t] \in SUBSET before[u] /\ before[t] # before[u]
  BY DEF IsRanking
<1>2. before[u] \in SUBSET S
  BY DEF IsRanking
<1>3. IsFiniteSet(before[u])
  BY <1>2, FS_Subset
<1>4. /\ IsFiniteSet(before[t])
      /\ Cardinality(before[t]) <= Cardinality(before[u])
      /\ Cardinality(before[t]) # Cardinality(before[u])
  BY <1>1, <1>3, FS_Subset
<1>5. Cardinality(before[t]) \in Nat /\ Cardinality(before[u]) \in Nat
  BY <1>3, <1>4, FS_CardinalityType
<1> QED
  BY <1>1, <1>4, <1>5

\* The loop serves no more members than there are credits.
LEMMA FirstFewAtMost ==
  ASSUME NEW S, IsFiniteSet(S), NEW before, IsRanking(S, before), NEW k \in Nat
  PROVE  /\ IsFiniteSet(FirstFew(S, before, k))
         /\ Cardinality(FirstFew(S, before, k)) <= k
<1> DEFINE F == FirstFew(S, before, k)
           f == [t \in F |-> Cardinality(before[t])]
<1>1. F \in SUBSET S
  BY DEF FirstFew
<1>2. IsFiniteSet(F) /\ Cardinality(F) \in Nat
  BY <1>1, FS_Subset, FS_CardinalityType
<1>3. IsFiniteSet(0..k-1) /\ Cardinality(0..k-1) = k
  <2>1. /\ IsFiniteSet(0..k-1)
        /\ Cardinality(0..k-1) = IF 0 > k-1 THEN 0 ELSE (k-1)-0+1
    BY FS_Interval
  <2> QED
    BY <2>1
<1>4. f \in [F -> 0..k-1]
  <2> SUFFICES ASSUME NEW t \in F
               PROVE  Cardinality(before[t]) \in 0..k-1
    OBVIOUS
  <2>1. before[t] \in SUBSET S
    BY <1>1 DEF IsRanking
  <2>2. Cardinality(before[t]) \in Nat
    BY <2>1, FS_Subset, FS_CardinalityType
  <2> QED
    BY <2>2 DEF FirstFew
<1>5. SUFFICES ASSUME k < Cardinality(F)
               PROVE  FALSE
  BY <1>2
<1>6. PICK x, y \in F : x # y /\ f[x] = f[y]
  <2> HIDE DEF F, f
  <2> QED
    BY <1>2, <1>3, <1>4, <1>5, FS_PigeonHole
<1>7. x \in before[y] \/ y \in before[x]
  BY <1>1, <1>6 DEF IsRanking
<1> QED
  BY <1>1, <1>6, <1>7, FewerBefore

\* When somebody is not served, every credit is used.
LEMMA FirstFewAtLeast ==
  ASSUME NEW S, IsFiniteSet(S), NEW before, IsRanking(S, before), NEW k \in Nat,
         FirstFew(S, before, k) # S
  PROVE  Cardinality(FirstFew(S, before, k)) >= k
<1> DEFINE F    == FirstFew(S, before, k)
           Rest == S \ F
           T    == {before[t] : t \in Rest}
           R    == StrictSubsetOrdering(S)
<1>1. F \in SUBSET S /\ Rest # {}
  BY DEF FirstFew
<1>2. IsFiniteSet(F) /\ Cardinality(F) \in Nat
  BY <1>1, FS_Subset, FS_CardinalityType
<1>3. PICK B \in T : \A C \in T : ~ (<<C, B>> \in R)
  <2>1. T \subseteq FiniteSubsetsOf(S) /\ T # {}
    BY <1>1, FS_FiniteSubsetsOfFinite DEF IsRanking
  <2>2. IsWellFoundedOn(R, FiniteSubsetsOf(S))
    BY FS_StrictSubsetOrderingWellFounded
  <2> HIDE DEF T, R
  <2> QED
    BY <2>1, <2>2, WFMin
<1>4. PICK u \in Rest : B = before[u]
  OBVIOUS
<1>5. before[u] \in SUBSET F
  <2> SUFFICES ASSUME NEW w \in before[u]
               PROVE  w \in F
    OBVIOUS
  <2>1. w \in S /\ before[w] \in SUBSET S /\ before[u] \in SUBSET S
    BY <1>4 DEF IsRanking
  <2>2. before[w] \subseteq before[u] /\ before[w] # before[u]
    BY <1>4, <2>1, FewerBefore
  <2>3. <<before[w], before[u]>> \in R
    BY <2>1, <2>2 DEF StrictSubsetOrdering
  <2>4. before[w] \notin T
    BY <1>3, <1>4, <2>3
  <2> QED
    BY <2>1, <2>4
<1>6. Cardinality(before[u]) <= Cardinality(F)
  BY <1>2, <1>5, FS_Subset
<1>7. before[u] \in SUBSET S /\ ~(Cardinality(before[u]) < k)
  BY <1>1, <1>4, <1>5 DEF FirstFew
<1>8. Cardinality(before[u]) \in Nat
  BY <1>7, FS_Subset, FS_CardinalityType
<1> QED
  BY <1>2, <1>6, <1>7, <1>8
=============================================================================
