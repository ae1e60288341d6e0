---------------------------- MODULE Queues_proofs ----------------------------
(***************************************************************************)
(* What Kept returns, for any sequence and any set of its positions.       *)
(***************************************************************************)
EXTENDS Queues, SequenceTheorems, FiniteSetTheorems, TLAPS

\* A later position has a higher rank.
LEMMA RankIncreases ==
  ASSUME NEW K \in SUBSET Nat, IsFiniteSet(K), NEW k \in K, NEW l \in K, k < l
  PROVE  Rank(K, k) < Rank(K, l)
<1> DEFINE To(m) == {j \in K : j <= m}
<1>1. To(l) \in SUBSET K /\ To(k) \in SUBSET To(l) /\ l \in To(l) /\ l \notin To(k)
  <2>1. k \in Nat /\ l \in Nat /\ \A j \in K : j \in Nat
    OBVIOUS
  <2>2. l <= l /\ ~ (l <= k) /\ \A j \in K : j <= k => j <= l
    BY <2>1
  <2> QED
    BY <2>2
<1>2. IsFiniteSet(To(l))
  BY <1>1, FS_Subset
<1>3. /\ IsFiniteSet(To(k))
      /\ Cardinality(To(k)) <= Cardinality(To(l))
      /\ Cardinality(To(l)) = Cardinality(To(k)) => To(l) = To(k)
  BY <1>1, <1>2, FS_Subset
<1>4. Cardinality(To(k)) \in Nat /\ Cardinality(To(l)) \in Nat
  BY <1>2, <1>3, FS_CardinalityType
<1> HIDE DEF To
<1>5. Cardinality(To(k)) < Cardinality(To(l))
  BY <1>1, <1>3, <1>4
<1> QED
  BY <1>5 DEF Rank, To

LEMMA RankType ==
  ASSUME NEW K \in SUBSET Nat, IsFiniteSet(K), NEW k \in K
  PROVE  Rank(K, k) \in 1 .. Cardinality(K)
<1> DEFINE To == {j \in K : j <= k}
<1>1. To \in SUBSET K /\ To # {}
  OBVIOUS
<1> HIDE DEF To
<1>2. IsFiniteSet(To) /\ Cardinality(To) <= Cardinality(K)
  BY <1>1, FS_Subset
<1>3. Cardinality(To) \in Nat /\ Cardinality(K) \in Nat /\ Cardinality(To) # 0
  BY <1>1, <1>2, FS_CardinalityType, FS_EmptySet
<1>4. Cardinality(To) \in 1 .. Cardinality(K)
  BY <1>2, <1>3
<1> QED
  BY <1>4 DEF Rank, To

\* The ranks are the numbers up to the number of positions: there are as many.
LEMMA NthExists ==
  ASSUME NEW K \in SUBSET Nat, IsFiniteSet(K), NEW i \in 1 .. Cardinality(K)
  PROVE  Nth(K, i) \in K /\ Rank(K, Nth(K, i)) = i
<1> DEFINE ranks == 1 .. Cardinality(K)
           f == [k \in K |-> Rank(K, k)]
<1>1. Cardinality(K) \in Nat
  BY FS_CardinalityType
<1>2. IsFiniteSet(ranks) /\ Cardinality(ranks) = Cardinality(K)
  BY <1>1, FS_Interval
<1>3. f \in [K -> ranks]
  BY RankType
<1>4. ASSUME NEW k \in K, NEW l \in K, k # l PROVE f[k] # f[l]
  <2>1. k < l \/ l < k
    BY <1>4
  <2>2. Rank(K, k) \in Nat /\ Rank(K, l) \in Nat
    BY RankType
  <2> QED
    BY <2>1, <2>2, RankIncreases
<1>5. f \in Injection(K, ranks)
  BY <1>3, <1>4 DEF Injection, IsInjective
<1>6. f \in Surjection(K, ranks)
  BY <1>2, <1>5, FS_Injection
<1>7. \E k \in K : f[k] = i
  BY <1>6 DEF Surjection
<1>8. \E k \in K : Rank(K, k) = i
  BY <1>7
<1> QED
  BY <1>8 DEF Nth

LEMMA NthOfRank ==
  ASSUME NEW K \in SUBSET Nat, IsFiniteSet(K), NEW k \in K
  PROVE  Nth(K, Rank(K, k)) = k
<1> DEFINE n == Nth(K, Rank(K, k))
<1>1. n \in K /\ Rank(K, n) = Rank(K, k)
  BY RankType, NthExists
<1> HIDE DEF n
<1>2. Rank(K, k) \in Nat
  BY RankType
<1>3. n = k
  BY <1>1, <1>2, RankIncreases
<1> QED
  BY <1>3 DEF n

\* The positions come in their order.
LEMMA NthIncreases ==
  ASSUME NEW K \in SUBSET Nat, IsFiniteSet(K),
         NEW i \in 1 .. Cardinality(K), NEW j \in 1 .. Cardinality(K), i < j
  PROVE  Nth(K, i) < Nth(K, j)
<1>1. /\ Nth(K, i) \in K /\ Rank(K, Nth(K, i)) = i
      /\ Nth(K, j) \in K /\ Rank(K, Nth(K, j)) = j
  BY NthExists
<1>2. Cardinality(K) \in Nat
  BY FS_CardinalityType
<1>3. i \in Nat /\ j \in Nat /\ i # j /\ ~ (j < i)
  BY <1>2
<1>4. ~ (Nth(K, j) < Nth(K, i))
  <2> SUFFICES ASSUME Nth(K, j) < Nth(K, i) PROVE FALSE
    OBVIOUS
  <2>1. Rank(K, Nth(K, j)) < Rank(K, Nth(K, i))
    BY <1>1, RankIncreases
  <2> QED
    BY <1>1, <1>3, <2>1
<1>5. Nth(K, j) # Nth(K, i)
  BY <1>1, <1>3
<1>6. Nth(K, i) \in Nat /\ Nth(K, j) \in Nat
  BY <1>1
<1> QED
  BY <1>4, <1>5, <1>6

-----------------------------------------------------------------------------
(* The entries that are kept. *)

LEMMA PositionsAreFinite ==
  ASSUME NEW S, NEW s \in Seq(S), NEW K \in SUBSET DOMAIN s
  PROVE  /\ K \in SUBSET Nat /\ IsFiniteSet(K)
         /\ Cardinality(K) \in Nat /\ Cardinality(K) <= Len(s)
<1>1. DOMAIN s = 1 .. Len(s) /\ Len(s) \in Nat
  BY LenProperties
<1>2. IsFiniteSet(1 .. Len(s)) /\ Cardinality(1 .. Len(s)) = Len(s)
  <2>1. 1 \in Int /\ Len(s) \in Int
    BY <1>1
  <2>2. /\ IsFiniteSet(1 .. Len(s))
        /\ Cardinality(1 .. Len(s)) = IF 1 > Len(s) THEN 0 ELSE Len(s) - 1 + 1
    BY <2>1, FS_Interval
  <2> QED
    BY <1>1, <2>2
<1>3. IsFiniteSet(K) /\ Cardinality(K) <= Len(s)
  BY <1>1, <1>2, FS_Subset
<1> QED
  BY <1>1, <1>3, FS_CardinalityType

\* The kept entries are a sequence, each entry at a place that keeps its order.
LEMMA KeptProperties ==
  ASSUME NEW S, NEW s \in Seq(S), NEW K \in SUBSET DOMAIN s
  PROVE  /\ Kept(s, K) \in Seq(S)
         /\ Len(Kept(s, K)) = Cardinality(K)
         /\ DOMAIN Kept(s, K) = 1 .. Cardinality(K)
         /\ \A i \in 1 .. Cardinality(K) :
              /\ Nth(K, i) \in K
              /\ Kept(s, K)[i] = s[Nth(K, i)]
         /\ \A i, j \in 1 .. Cardinality(K) : i < j => Nth(K, i) < Nth(K, j)
         /\ \A k \in K : /\ Rank(K, k) \in 1 .. Cardinality(K)
                         /\ Nth(K, Rank(K, k)) = k
<1>1. /\ K \in SUBSET Nat /\ IsFiniteSet(K)
      /\ Cardinality(K) \in Nat /\ Cardinality(K) <= Len(s)
  BY PositionsAreFinite
<1>2. \A i \in 1 .. Cardinality(K) : Nth(K, i) \in K
  BY <1>1, NthExists
<1>3. \A i \in 1 .. Cardinality(K) : s[Nth(K, i)] \in S
  BY <1>2, LenProperties, ElementOfSeq
<1>4. Kept(s, K) \in [1 .. Cardinality(K) -> S]
  BY <1>3 DEF Kept
<1>5. Kept(s, K) \in Seq(S)
  BY <1>1, <1>4, SeqDef
<1>6. Len(Kept(s, K)) = Cardinality(K) /\ DOMAIN Kept(s, K) = 1 .. Cardinality(K)
  BY <1>1, <1>4, <1>5, LenProperties
<1>7. \A i \in 1 .. Cardinality(K) : Kept(s, K)[i] = s[Nth(K, i)]
  BY DEF Kept
<1>8. \A i, j \in 1 .. Cardinality(K) : i < j => Nth(K, i) < Nth(K, j)
  BY <1>1, NthIncreases
<1>9. \A k \in K : Rank(K, k) \in 1 .. Cardinality(K) /\ Nth(K, Rank(K, k)) = k
  BY <1>1, RankType, NthOfRank
<1> QED
  BY <1>2, <1>5, <1>6, <1>7, <1>8, <1>9

\* No entry is lost, and none is new.
LEMMA KeptElements ==
  ASSUME NEW S, NEW s \in Seq(S), NEW K \in SUBSET DOMAIN s
  PROVE  /\ \A i \in DOMAIN Kept(s, K) : \E k \in K : Kept(s, K)[i] = s[k]
         /\ \A k \in K : \E i \in DOMAIN Kept(s, K) : Kept(s, K)[i] = s[k]
  BY KeptProperties

-----------------------------------------------------------------------------
(* Two documents that hold the same entries, at other places.              *)

\* Entries at corresponding places, in the same order, make the same sequence.
LEMMA KeptAlike ==
  ASSUME NEW S, NEW s \in Seq(S), NEW t \in Seq(S),
         NEW K \in SUBSET DOMAIN s, NEW L \in SUBSET DOMAIN t, NEW g \in [K -> L],
         \A i \in K : t[g[i]] = s[i],
         \A i, j \in K : i < j => g[i] < g[j],
         \A p \in L : \E i \in K : g[i] = p
  PROVE  Kept(s, K) = Kept(t, L)
<1>1. /\ K \in SUBSET Nat /\ IsFiniteSet(K) /\ Cardinality(K) \in Nat
      /\ L \in SUBSET Nat /\ IsFiniteSet(L) /\ Cardinality(L) \in Nat
  BY PositionsAreFinite
<1>2. \A i, j \in K : g[i] = g[j] => i = j
  <2> SUFFICES ASSUME NEW i \in K, NEW j \in K, g[i] = g[j], i # j PROVE FALSE
    OBVIOUS
  <2>1. i < j \/ j < i
    BY <1>1
  <2>2. g[i] \in Nat /\ g[j] \in Nat /\ (g[i] < g[j] \/ g[j] < g[i])
    BY <1>1, <2>1
  <2> QED
    BY <2>2
<1>3. Cardinality(L) = Cardinality(K)
  <2>1. g \in Bijection(K, L)
    BY <1>2 DEF Bijection, Injection, Surjection, IsInjective
  <2> QED
    BY <1>1, <2>1, FS_Bijection DEF ExistsBijection
<1>4. ASSUME NEW k \in K PROVE Rank(L, g[k]) = Rank(K, k)
  <2> DEFINE A == {j \in K : j <= k}
             B == {p \in L : p <= g[k]}
             h == [j \in A |-> g[j]]
  <2>1. A \subseteq K /\ IsFiniteSet(A)
    BY <1>1, FS_Subset
  <2>2. ASSUME NEW j \in K PROVE j <= k <=> g[j] <= g[k]
    <3>1. j \in Nat /\ k \in Nat /\ g[j] \in Nat /\ g[k] \in Nat
      BY <1>1
    <3>2. j < k => g[j] < g[k]
      OBVIOUS
    <3>3. k < j => g[k] < g[j]
      OBVIOUS
    <3> QED
      BY <3>1, <3>2, <3>3
  <2>3. h \in [A -> B] /\ \A j \in A : h[j] = g[j]
    BY <2>2
  <2>4. \A p \in B : \E j \in A : h[j] = p
    BY <2>2
  <2> HIDE DEF A, B, h
  <2>5. h \in Bijection(A, B)
    BY <1>2, <2>1, <2>3, <2>4 DEF Bijection, Injection, Surjection, IsInjective
  <2>6. Cardinality(B) = Cardinality(A)
    BY <2>1, <2>5, FS_Bijection DEF ExistsBijection
  <2> QED
    BY <2>6 DEF Rank, A, B
<1>5. ASSUME NEW i \in 1 .. Cardinality(K) PROVE t[Nth(L, i)] = s[Nth(K, i)]
  <2>1. Nth(K, i) \in K /\ Rank(K, Nth(K, i)) = i
    BY <1>1, NthExists
  <2>2. Nth(L, i) = g[Nth(K, i)]
    BY <1>1, <1>4, <2>1, NthOfRank
  <2> QED
    BY <2>1, <2>2
<1> QED
  BY <1>3, <1>5 DEF Kept

\* Two sequences without repetitions agree on some of their entries when these
\* are the same and come in the same order.
LEMMA KeptOfSame ==
  ASSUME NEW S, NEW s \in Seq(S), NEW t \in Seq(S),
         NEW K \in SUBSET DOMAIN s, NEW L \in SUBSET DOMAIN t,
         \A i, j \in L : t[i] = t[j] => i = j,
         \A k \in K : \E p \in L : t[p] = s[k],
         \A p \in L : \E k \in K : t[p] = s[k],
         \A i, j \in K : i < j =>
           \E p, q \in L : p < q /\ t[p] = s[i] /\ t[q] = s[j]
  PROVE  Kept(s, K) = Kept(t, L)
<1> DEFINE g == [k \in K |-> CHOOSE p \in L : t[p] = s[k]]
<1>1. g \in [K -> L] /\ \A k \in K : t[g[k]] = s[k]
  OBVIOUS
<1> HIDE DEF g
<1>2. \A i, j \in K : i < j => g[i] < g[j]
  <2> SUFFICES ASSUME NEW i \in K, NEW j \in K, i < j PROVE g[i] < g[j]
    OBVIOUS
  <2>1. PICK p \in L, q \in L : p < q /\ t[p] = s[i] /\ t[q] = s[j]
    OBVIOUS
  <2> QED
    BY <1>1, <2>1
<1>3. \A p \in L : \E k \in K : g[k] = p
  BY <1>1
<1> QED
  BY <1>1, <1>2, <1>3, KeptAlike

-----------------------------------------------------------------------------
(* Induction on the natural numbers, by a least counterexample. *)

\* Of the intervals 0 .. m of a set of numbers one holds no other strictly.
LEMMA LeastExists ==
  ASSUME NEW T \in SUBSET Nat, T # {}
  PROVE  \E m \in T : \A k \in T : m <= k
<1> DEFINE To(m) == 0 .. m
           Tos == {To(m) : m \in T}
<1>1. Tos \subseteq FiniteSubsetsOf(Nat)
  <2>1. ASSUME NEW m \in T PROVE To(m) \in SUBSET Nat /\ IsFiniteSet(To(m))
    BY FS_Interval
  <2> QED
    BY <2>1 DEF FiniteSubsetsOf
<1>2. Tos # {}
  OBVIOUS
<1>3. PICK U \in Tos : \A V \in Tos : ~ (<<V, U>> \in StrictSubsetOrdering(Nat))
  <2> HIDE DEF Tos
  <2>1. IsWellFoundedOn(StrictSubsetOrdering(Nat), FiniteSubsetsOf(Nat))
    BY FS_StrictSubsetOrderingWellFounded
  <2> QED
    BY <1>1, <1>2, <2>1, WFMin
<1>4. PICK m \in T : U = To(m)
  OBVIOUS
<1>5. ASSUME NEW k \in T, k < m PROVE FALSE
  <2>1. To(k) \subseteq To(m) /\ To(k) # To(m)
    BY <1>5
  <2>2. <<To(k), To(m)>> \in StrictSubsetOrdering(Nat)
    BY <2>1 DEF StrictSubsetOrdering
  <2> QED
    BY <1>3, <1>4, <2>2
<1> QED
  BY <1>5
=============================================================================
