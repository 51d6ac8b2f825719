------------------------- MODULE Subsequences_proofs -------------------------
(***************************************************************************)
(* Proofs about Subsequences, cited by the proofs about the components     *)
(* that use it.                                                            *)
(***************************************************************************)
EXTENDS Subsequences, FiniteSetTheorems, FunctionTheorems, SequenceTheorems, TLAPS

LEMMA RankGrows ==
  ASSUME NEW K \in SUBSET Int, IsFiniteSet(K), NEW i \in K
  PROVE  /\ Rank(K, i) \in 1..Cardinality(K)
         /\ \A j \in K : i < j => Rank(K, i) < Rank(K, j)
<1>. DEFINE Upto(k) == {j \in K : j <= k}
<1>1. \A k \in K : /\ IsFiniteSet(Upto(k)) /\ Cardinality(Upto(k)) \in Nat
                   /\ Cardinality(Upto(k)) <= Cardinality(K)
  BY FS_Subset, FS_CardinalityType
<1>2. i \in Upto(i)
  OBVIOUS
<1>3. Cardinality(Upto(i)) # 0
  BY <1>1, <1>2, FS_EmptySet
<1>4. Cardinality(K) \in Nat
  BY FS_CardinalityType
<1>5. ASSUME NEW j \in K, i < j
      PROVE  Cardinality(Upto(i)) < Cardinality(Upto(j))
  <2>1. i \in Int /\ j \in Int /\ \A k \in K : k \in Int
    OBVIOUS
  <2>2. \A k \in K : k <= i => k <= j
    BY <1>5, <2>1
  <2>3. ~(j <= i) /\ j <= j
    BY <1>5, <2>1
  <2>4. Upto(i) \subseteq Upto(j) /\ j \in Upto(j) /\ j \notin Upto(i)
    BY <2>2, <2>3
  <2>5. Upto(i) # Upto(j)
    BY <2>4
  <2>6. /\ Cardinality(Upto(i)) <= Cardinality(Upto(j))
        /\ Cardinality(Upto(i)) = Cardinality(Upto(j)) => Upto(i) = Upto(j)
    BY <1>1, <2>4, FS_Subset
  <2>. QED
    BY <1>1, <2>5, <2>6
<1>. HIDE DEF Upto
<1>6. \A k \in K : Rank(K, k) = Cardinality(Upto(k))
  BY DEF Rank, Upto
<1>. QED
  BY <1>1, <1>3, <1>4, <1>5, <1>6

LEMMA RankReached ==
  ASSUME NEW K \in SUBSET Int, IsFiniteSet(K), NEW n \in 1..Cardinality(K)
  PROVE  \E i \in K : Rank(K, i) = n
<1>. DEFINE r == [i \in K |-> Rank(K, i)]
<1>1. Cardinality(K) \in Nat
  BY FS_CardinalityType
<1>2. r \in [K -> 1..Cardinality(K)]
  BY RankGrows
<1>3. ASSUME NEW i \in K, NEW j \in K, r[i] = r[j]
      PROVE  i = j
  <2>1. Rank(K, i) \in Int /\ Rank(K, j) \in Int
    BY RankGrows
  <2>2. ~(i < j) /\ ~(j < i)
    BY <1>3, <2>1, RankGrows
  <2>. QED
    BY <2>2
<1>4. r \in Injection(K, 1..Cardinality(K))
  <2>. HIDE DEF r
  <2>. QED
    BY <1>2, <1>3 DEF Injection, IsInjective
<1>5. /\ IsFiniteSet(1..Cardinality(K)) /\ Cardinality(1..Cardinality(K)) = Cardinality(K)
  BY <1>1, FS_Interval
<1>. HIDE DEF r
<1>6. r \in Surjection(K, 1..Cardinality(K))
  BY <1>4, <1>5, FS_Injection
<1>7. \E i \in K : r[i] = n
  BY <1>6 DEF Surjection
<1>. QED
  BY <1>7 DEF r

(* What is picked are the entries at those positions, each once, in order. *)
LEMMA PickedEntries ==
  ASSUME NEW S, NEW s \in Seq(S), NEW K \in SUBSET DOMAIN s
  PROVE  /\ Picked(s, K) \in Seq(S)
         /\ DOMAIN Picked(s, K) = 1..Cardinality(K) /\ Len(Picked(s, K)) = Cardinality(K)
         /\ Cardinality(K) \in Nat /\ Cardinality(K) <= Len(s)
         /\ \A n \in 1..Cardinality(K) :
              \E i \in K : Rank(K, i) = n /\ Picked(s, K)[n] = s[i]
         /\ \A i \in K :
              Rank(K, i) \in 1..Cardinality(K) /\ Picked(s, K)[Rank(K, i)] = s[i]
<1>1. /\ DOMAIN s = 1..Len(s) /\ Len(s) \in Nat
      /\ \A i \in DOMAIN s : s[i] \in S
  BY LenProperties, ElementOfSeq
<1>2. /\ K \in SUBSET Int /\ IsFiniteSet(K) /\ Cardinality(K) <= Len(s)
      /\ Cardinality(K) \in Nat
  <2>1. /\ IsFiniteSet(1..Len(s))
        /\ Cardinality(1..Len(s)) = IF 1 > Len(s) THEN 0 ELSE Len(s) - 1 + 1
    BY <1>1, FS_Interval
  <2>2. Cardinality(1..Len(s)) = Len(s)
    BY <1>1, <2>1
  <2>3. K \subseteq 1..Len(s)
    BY <1>1
  <2>4. IsFiniteSet(K) /\ Cardinality(K) <= Len(s)
    BY <2>1, <2>2, <2>3, FS_Subset
  <2>. QED
    BY <1>1, <2>3, <2>4, FS_CardinalityType
<1>. DEFINE at(n) == CHOOSE i \in K : Rank(K, i) = n
<1>3. \A n \in 1..Cardinality(K) : at(n) \in K /\ Rank(K, at(n)) = n
  BY <1>2, RankReached
<1>4. ASSUME NEW i \in K
      PROVE  Rank(K, i) \in 1..Cardinality(K) /\ at(Rank(K, i)) = i
  <2>1. Rank(K, i) \in 1..Cardinality(K)
    BY <1>2, RankGrows
  <2>2. at(Rank(K, i)) \in K /\ Rank(K, at(Rank(K, i))) = Rank(K, i)
    BY <1>3, <2>1
  <2>3. ASSUME NEW j \in K, Rank(K, j) = Rank(K, i)
        PROVE  j = i
    <3>1. ~(i < j) /\ ~(j < i)
      BY <1>2, <2>1, <2>3, RankGrows
    <3>. QED
      BY <1>2, <3>1
  <2>. QED
    BY <2>1, <2>2, <2>3
<1>5. Picked(s, K) = [n \in 1..Cardinality(K) |-> s[at(n)]]
  BY DEF Picked
<1>. HIDE DEF at
<1>6. \A n \in 1..Cardinality(K) : Picked(s, K)[n] = s[at(n)] /\ s[at(n)] \in S
  BY <1>1, <1>3, <1>5
<1>7. Picked(s, K) \in [1..Cardinality(K) -> S]
  BY <1>5, <1>6
<1>8. Picked(s, K) \in Seq(S) /\ Len(Picked(s, K)) = Cardinality(K)
  BY <1>2, <1>7, SeqDef, LenProperties
<1>. QED
  BY <1>2, <1>3, <1>4, <1>6, <1>7, <1>8

(* A front of the list that is picked whole is the front of what is picked. *)
LEMMA PickedFront ==
  ASSUME NEW S, NEW s \in Seq(S), NEW K \in SUBSET DOMAIN s,
         NEW p \in DOMAIN s, 1..p \subseteq K
  PROVE  \A q \in 1..p : q \in DOMAIN Picked(s, K) /\ Picked(s, K)[q] = s[q]
<1>1. DOMAIN s = 1..Len(s) /\ Len(s) \in Nat
  BY LenProperties
<1>2. ASSUME NEW q \in 1..p
      PROVE  q \in K /\ Rank(K, q) = q
  <2>1. q \in Nat \ {0} /\ p \in Nat /\ q <= p
    BY <1>1
  <2>2. q \in K /\ \A k \in 1..p : k \in K
    OBVIOUS
  <2>3. {j \in K : j <= q} = 1..q
    <3>1. \A k \in K : k \in Int /\ 1 <= k
      BY <1>1
    <3>2. \A k \in 1..q : k \in 1..p
      BY <2>1
    <3>. QED
      BY <2>2, <3>1, <3>2
  <2>4. Cardinality(1..q) = IF 1 > q THEN 0 ELSE q - 1 + 1
    BY <2>1, FS_Interval
  <2>5. Cardinality(1..q) = q
    BY <2>1, <2>4
  <2>6. Rank(K, q) = Cardinality(1..q)
    BY <2>3, Zenon DEF Rank
  <2>. QED
    BY <2>2, <2>5, <2>6
<1>3. /\ DOMAIN Picked(s, K) = 1..Cardinality(K)
      /\ \A i \in K : Rank(K, i) \in 1..Cardinality(K) /\ Picked(s, K)[Rank(K, i)] = s[i]
  BY PickedEntries
<1>. QED
  BY <1>2, <1>3
=============================================================================
