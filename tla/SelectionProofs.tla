--------------------------- MODULE SelectionProofs ---------------------------
(****************************************************************************)
(* What is in a selection: each of the chosen entries once, at its rank.    *)
(****************************************************************************)
EXTENDS Selection, SequenceTheorems, FiniteSetTheorems, TLAPS

-----------------------------------------------------------------------------
(* Ranks *)

Below(K, i) == {j \in K : j <= i}

LEMMA RankType ==
    ASSUME NEW N \in Nat, NEW K \in SUBSET (1..N), NEW i \in Nat
    PROVE  /\ IsFiniteSet(K) /\ Cardinality(K) \in Nat
           /\ IsFiniteSet(Below(K, i)) /\ Rank(K, i) = Cardinality(Below(K, i))
           /\ Rank(K, i) \in Nat /\ Rank(K, i) <= Cardinality(K)
  <1>1. IsFiniteSet(1..N)
    BY FS_Interval
  <1>2. IsFiniteSet(K) /\ Cardinality(K) \in Nat
    BY <1>1, FS_Subset, FS_CardinalityType
  <1>3. Below(K, i) \in SUBSET K
    BY DEF Below
  <1>4. IsFiniteSet(Below(K, i)) /\ Cardinality(Below(K, i)) <= Cardinality(K)
    BY <1>2, <1>3, FS_Subset
  <1>5. Cardinality(Below(K, i)) \in Nat
    BY <1>4, FS_CardinalityType
  <1> QED
    BY <1>2, <1>4, <1>5 DEF Rank, Below

\* An index of K raises the rank, from the first to all those above it.
LEMMA RankRises ==
    ASSUME NEW N \in Nat, NEW K \in SUBSET (1..N), NEW i \in Nat, NEW j \in K, i < j
    PROVE  Rank(K, i) < Rank(K, j)
  <1>1. j \in Nat
    OBVIOUS
  <1>2. /\ IsFiniteSet(Below(K, i)) /\ Rank(K, i) = Cardinality(Below(K, i))
        /\ Rank(K, i) \in Nat
        /\ IsFiniteSet(Below(K, j)) /\ Rank(K, j) = Cardinality(Below(K, j))
        /\ Rank(K, j) \in Nat
    BY <1>1, RankType
  <1>3. Below(K, i) \cup {j} \in SUBSET Below(K, j) /\ j \notin Below(K, i)
    <2>1. \A k \in Below(K, i) : k \in K /\ k \in Nat /\ k <= i
      BY DEF Below
    <2>2. \A k \in Below(K, i) : k \in Below(K, j) /\ k # j
      BY <1>1, <2>1 DEF Below
    <2>3. j \in Below(K, j)
      BY <1>1 DEF Below
    <2> QED
      BY <2>2, <2>3
  <1>4. /\ IsFiniteSet(Below(K, i) \cup {j})
        /\ Cardinality(Below(K, i) \cup {j}) = Cardinality(Below(K, i)) + 1
    BY <1>2, <1>3, FS_AddElement
  <1>5. Cardinality(Below(K, i) \cup {j}) <= Cardinality(Below(K, j))
    BY <1>2, <1>3, FS_Subset
  <1> QED
    BY <1>2, <1>4, <1>5

\* The indices of K have the ranks from 1 to their number, each one of them.
LEMMA RankOfEach ==
    ASSUME NEW N \in Nat, NEW K \in SUBSET (1..N)
    PROVE  /\ Cardinality(K) \in Nat
           /\ \A i \in K : Rank(K, i) \in 1..Cardinality(K)
           /\ \A i, j \in K : Rank(K, i) = Rank(K, j) => i = j
           /\ \A n \in 1..Cardinality(K) : \E i \in K : Rank(K, i) = n
  <1> DEFINE rank == [i \in K |-> Rank(K, i)]
             C == Cardinality(K)
  <1>1. IsFiniteSet(K) /\ C \in Nat
    BY RankType
  <1>2. ASSUME NEW i \in K PROVE Rank(K, i) \in 1..C
    <2>1. i \in Nat /\ 0 \in Nat /\ 0 < i
      OBVIOUS
    <2>2. Rank(K, i) \in Nat /\ Rank(K, i) <= C /\ Rank(K, 0) \in Nat
      BY <2>1, RankType
    <2>3. Rank(K, 0) < Rank(K, i)
      BY <2>1, RankRises
    <2> HIDE DEF C
    <2> QED
      BY <1>1, <2>2, <2>3
  <1>3. ASSUME NEW i \in K, NEW j \in K, Rank(K, i) = Rank(K, j) PROVE i = j
    <2>1. i \in Nat /\ j \in Nat
      OBVIOUS
    <2>2. \A k, l \in K : k < l => Rank(K, k) < Rank(K, l)
      <3>1. ASSUME NEW k \in K, NEW l \in K, k < l PROVE Rank(K, k) < Rank(K, l)
        <4>1. k \in Nat
          OBVIOUS
        <4> QED
          BY <3>1, <4>1, RankRises
      <3> QED
        BY <3>1
    <2>3. Rank(K, i) \in Nat /\ Rank(K, j) \in Nat
      BY <2>1, RankType
    <2>4. ~(i < j) /\ ~(j < i)
      BY <1>3, <2>2, <2>3
    <2> QED
      BY <2>1, <2>4
  <1> HIDE DEF C
  <1>4. rank \in Injection(K, 1..C)
    BY <1>2, <1>3 DEF Injection, IsInjective
  <1>5. rank \in Surjection(K, 1..C)
    <2>1. IsFiniteSet(1..C) /\ Cardinality(1..C) = C
      <3>1. 1 \in Int /\ C \in Int
        BY <1>1
      <3>2. IsFiniteSet(1..C) /\ Cardinality(1..C) = IF 1 > C THEN 0 ELSE C - 1 + 1
        BY <3>1, FS_Interval
      <3> QED
        BY <1>1, <3>2
    <2>2. Cardinality(K) = Cardinality(1..C)
      BY <2>1 DEF C
    <2> HIDE DEF rank
    <2> QED
      BY <1>4, <2>1, <2>2, FS_Injection
  <1>6. \A n \in 1..C : \E i \in K : Rank(K, i) = n
    BY <1>5 DEF Surjection
  <1> QED
    BY <1>1, <1>2, <1>3, <1>6 DEF C

\* As long as no index is left out, a rank is the index.
LEMMA RankUnbroken ==
    ASSUME NEW N \in Nat, NEW K \in SUBSET (1..N), NEW m \in Nat, 1..m \subseteq K
    PROVE  Rank(K, m) = m
  <1>1. Below(K, m) = 1..m
    <2>1. \A k \in Below(K, m) : k \in Nat /\ k >= 1 /\ k <= m
      BY DEF Below
    <2>2. \A k \in 1..m : k \in Below(K, m)
      BY DEF Below
    <2>3. \A k \in Below(K, m) : k \in 1..m
      BY <2>1
    <2> QED
      BY <2>2, <2>3
  <1>2. Cardinality(1..m) = m
    <2>1. 1 \in Int /\ m \in Int
      OBVIOUS
    <2>2. Cardinality(1..m) = IF 1 > m THEN 0 ELSE m - 1 + 1
      BY <2>1, FS_Interval
    <2> QED
      BY <2>2
  <1> QED
    BY <1>1, <1>2 DEF Rank, Below

\* Behind d indices that are all in K come those of H, moved up by d.
LEMMA RankMoved ==
    ASSUME NEW N \in Nat, NEW K \in SUBSET (1..N), NEW M \in Nat, NEW H \in SUBSET (1..M),
           NEW d \in Nat, 1..d \subseteq K, NEW m \in 0..M,
           \A h \in 1..M : h \in H <=> d + h \in K
    PROVE  Rank(K, d + m) = d + Rank(H, m)
  <1> DEFINE up == [h \in Below(H, m) |-> d + h]
             Upper == {k \in Below(K, d + m) : k > d}
  <1>0. m \in Nat /\ d + m \in Nat
    OBVIOUS
  <1>1. /\ IsFiniteSet(Below(H, m)) /\ Rank(H, m) = Cardinality(Below(H, m)) /\ Rank(H, m) \in Nat
        /\ IsFiniteSet(Below(K, d + m)) /\ Rank(K, d + m) = Cardinality(Below(K, d + m))
    BY <1>0, RankType
  <1>2. \A h \in Below(H, m) : h \in Nat /\ h \in 1..M /\ h <= m /\ h \in H
    BY DEF Below
  <1>3. \A k \in Below(K, d + m) : k \in Nat /\ k >= 1 /\ k <= d + m /\ k \in K
    BY DEF Below
  <1>4. \A h \in Below(H, m) : d + h \in Upper
    BY <1>0, <1>2 DEF Below
  <1>5. \A k \in Upper : k - d \in Below(H, m) /\ d + (k - d) = k
    <2> SUFFICES ASSUME NEW k \in Upper PROVE k - d \in Below(H, m) /\ d + (k - d) = k
      OBVIOUS
    <2>1. k \in Nat /\ k > d /\ k <= d + m /\ k \in K
      BY <1>3
    <2>2. k - d \in 1..M /\ k - d <= m /\ d + (k - d) = k
      BY <1>0, <2>1
    <2>3. k - d \in H
      BY <2>1, <2>2
    <2> QED
      BY <2>2, <2>3 DEF Below
  <1>6. up \in Injection(Below(H, m), Upper) /\ up \in Surjection(Below(H, m), Upper)
    <2>1. up \in [Below(H, m) -> Upper]
      BY <1>4
    <2>2. \A g, h \in Below(H, m) : up[g] = up[h] => g = h
      BY <1>2
    <2>3. \A k \in Upper : \E h \in Below(H, m) : up[h] = k
      BY <1>5
    <2> HIDE DEF up, Upper
    <2> QED
      BY <2>1, <2>2, <2>3 DEF Injection, IsInjective, Surjection
  <1>7. IsFiniteSet(Upper) /\ Cardinality(Upper) = Rank(H, m)
    <2> HIDE DEF up, Upper
    <2> QED
      BY <1>1, <1>6, FS_Surjection
  <1>8. IsFiniteSet(1..d) /\ Cardinality(1..d) = d
    <2>1. 1 \in Int /\ d \in Int
      OBVIOUS
    <2>2. IsFiniteSet(1..d) /\ Cardinality(1..d) = IF 1 > d THEN 0 ELSE d - 1 + 1
      BY <2>1, FS_Interval
    <2> QED
      BY <2>2
  <1>9. Below(K, d + m) = (1..d) \cup Upper /\ (1..d) \cap Upper = {}
    <2>1. \A k \in Below(K, d + m) : k \in 1..d \/ k \in Upper
      BY <1>3
    <2>2. \A k \in 1..d : k \in Below(K, d + m)
      BY DEF Below
    <2>3. \A k \in Upper : k \in Below(K, d + m) /\ k \notin 1..d
      OBVIOUS
    <2> HIDE DEF Upper
    <2> QED
      BY <2>1, <2>2, <2>3
  <1> HIDE DEF Upper
  <1>10. Cardinality((1..d) \cup Upper) = d + Rank(H, m)
    <2>1. Cardinality((1..d) \cup Upper) =
            Cardinality(1..d) + Cardinality(Upper) - Cardinality((1..d) \cap Upper)
      BY <1>7, <1>8, FS_Union
    <2>2. Cardinality((1..d) \cap Upper) = 0
      BY <1>9, FS_EmptySet
    <2> QED
      BY <1>1, <1>7, <1>8, <2>1, <2>2
  <1> QED
    BY <1>1, <1>9, <1>10

-----------------------------------------------------------------------------
(* Selections *)

\* A selection has the chosen entries, each at its rank, and no others.
LEMMA SelectedEntries ==
    ASSUME NEW S, NEW s \in Seq(S), NEW K \in SUBSET (1..Len(s))
    PROVE  /\ Selected(s, K) \in Seq(S) /\ Len(Selected(s, K)) = Cardinality(K)
           /\ Len(s) \in Nat /\ Cardinality(K) \in Nat
           /\ \A n \in 1..Cardinality(K) :
                \E i \in K : Rank(K, i) = n /\ Selected(s, K)[n] = s[i]
           /\ \A i \in K : Rank(K, i) \in 1..Cardinality(K) /\ Selected(s, K)[Rank(K, i)] = s[i]
  <1> DEFINE C == Cardinality(K)
             w == Selected(s, K)
             at(n) == CHOOSE i \in K : Rank(K, i) = n
  <1>1. Len(s) \in Nat /\ \A i \in 1..Len(s) : s[i] \in S
    BY LenProperties, ElementOfSeq
  <1>2. /\ C \in Nat
        /\ \A i \in K : Rank(K, i) \in 1..C
        /\ \A i, j \in K : Rank(K, i) = Rank(K, j) => i = j
        /\ \A n \in 1..C : \E i \in K : Rank(K, i) = n
    BY <1>1, RankOfEach
  <1>3. \A n \in 1..C : at(n) \in K /\ Rank(K, at(n)) = n
    BY <1>2
  <1>4. w = [n \in 1..C |-> s[at(n)]]
    BY DEF Selected
  <1> HIDE DEF C, w, at
  <1>5. w \in [1..C -> S]
    BY <1>1, <1>3, <1>4
  <1>6. w \in Seq(S)
    BY <1>2, <1>5, SeqDef
  <1>7. Len(w) = C
    <2>1. DOMAIN w = 1..Len(w) /\ Len(w) \in Nat /\ DOMAIN w = 1..C
      BY <1>5, <1>6, LenProperties
    <2>2. /\ Len(w) # 0 => Len(w) \in 1..C
          /\ C # 0 => C \in 1..Len(w)
      BY <1>2, <2>1
    <2>3. C \in Nat /\ Len(w) \in Nat
      BY <1>2, <2>1
    <2> QED
      BY <2>2, <2>3
  <1>8. \A n \in 1..C : \E i \in K : Rank(K, i) = n /\ w[n] = s[i]
    BY <1>3, <1>4
  <1>9. \A i \in K : Rank(K, i) \in 1..C /\ w[Rank(K, i)] = s[i]
    <2> SUFFICES ASSUME NEW i \in K PROVE w[Rank(K, i)] = s[i]
      BY <1>2
    <2>1. Rank(K, i) \in 1..C
      BY <1>2
    <2>2. at(Rank(K, i)) = i
      BY <1>2, <1>3, <2>1
    <2> QED
      BY <1>4, <2>1, <2>2
  <1> QED
    BY <1>1, <1>2, <1>6, <1>7, <1>8, <1>9 DEF C, w

\* The entries before the first that is left out keep their places.
LEMMA SelectedUnbroken ==
    ASSUME NEW S, NEW s \in Seq(S), NEW K \in SUBSET (1..Len(s)),
           NEW m \in Nat, 1..m \subseteq K
    PROVE  /\ m <= Len(Selected(s, K))
           /\ \A n \in 1..m : Selected(s, K)[n] = s[n]
  <1>1. /\ Len(s) \in Nat /\ Cardinality(K) \in Nat
        /\ Len(Selected(s, K)) = Cardinality(K)
        /\ \A i \in K : Rank(K, i) \in 1..Cardinality(K) /\ Selected(s, K)[Rank(K, i)] = s[i]
    BY SelectedEntries
  <1>2. ASSUME NEW n \in 1..m PROVE n \in K /\ Rank(K, n) = n
    <2>1. n \in Nat /\ 1..n \subseteq K
      OBVIOUS
    <2> QED
      BY <1>1, <2>1, RankUnbroken
  <1>3. \A n \in 1..m : Selected(s, K)[n] = s[n] /\ n \in 1..Cardinality(K)
    BY <1>1, <1>2
  <1>4. m <= Cardinality(K)
    <2>1. CASE m = 0
      BY <1>1, <2>1
    <2>2. CASE m # 0
      <3>1. m \in 1..m
        BY <2>2
      <3> QED
        BY <1>1, <1>3, <3>1
    <2> QED
      BY <2>1, <2>2
  <1> QED
    BY <1>1, <1>3, <1>4

=============================================================================
