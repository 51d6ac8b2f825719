------------------------ MODULE QueryResults_proofs ------------------------
(***************************************************************************)
(* Proofs about QueryResults, for any connections, finitely many sessions  *)
(* and files, any names, patterns and numbers of queries, and any messages *)
(* under way.                                                              *)
(***************************************************************************)
EXTENDS QueryResults, Subsequences_proofs

-----------------------------------------------------------------------------
(* Lists of entries. *)

LEMMA EntryOK ==
  /\ \A e \in Entry : Key(e) \in Conn \X Session \X Name
  /\ \A e, d \in Entry : Key(e) = Key(d) =>
       e.connection = d.connection /\ e.session = d.session /\ e.name = d.name
BY DEF Entry, Key

LEMMA KeysMember ==
  ASSUME NEW s, NEW k
  PROVE  k \in KeysOf(s) <=> \E i \in DOMAIN s : Key(s[i]) = k
BY DEF KeysOf

(* The last entry with a key exists and has the key.                       *)
LEMMA LastOne ==
  ASSUME NEW s \in Seq(Entry), NEW k \in KeysOf(s)
  PROVE  LastWith(s, k) \in DOMAIN s /\ Key(s[LastWith(s, k)]) = k
<1>. DEFINE K == {i \in DOMAIN s : Key(s[i]) = k}
<1>1. DOMAIN s = 1..Len(s) /\ Len(s) \in Nat
  BY LenProperties
<1>2. K \in SUBSET Int /\ IsFiniteSet(K) /\ K # {}
  <2>1. K \subseteq 1..Len(s) /\ K # {}
    BY <1>1, KeysMember
  <2>2. IsFiniteSet(1..Len(s))
    BY <1>1, FS_Interval
  <2>. QED
    BY <1>1, <2>1, <2>2, FS_Subset
<1>3. Cardinality(K) \in 1..Cardinality(K)
  <2>1. Cardinality(K) \in Nat /\ Cardinality(K) # 0
    BY <1>2, FS_CardinalityType, FS_EmptySet
  <2>. QED
    BY <2>1
<1>4. PICK i \in K : Rank(K, i) = Cardinality(K)
  BY <1>2, <1>3, RankReached
<1>5. \A j \in K : j <= i
  <2>1. SUFFICES ASSUME NEW j \in K, i < j
                 PROVE  FALSE
    BY <1>2, <2>1
  <2>2. Rank(K, i) < Rank(K, j) /\ Rank(K, j) \in 1..Cardinality(K)
    BY <1>2, <2>1, RankGrows
  <2>. QED
    BY <1>3, <1>4, <2>2
<1>. QED
  BY <1>5 DEF LastWith

(* Joining and picking, by what is in the lists.                           *)
LEMMA Joined ==
  ASSUME NEW S, NEW s \in Seq(S), NEW t \in Seq(S)
  PROVE  /\ s \o t \in Seq(S)
         /\ \A i \in DOMAIN s : i \in DOMAIN (s \o t) /\ (s \o t)[i] = s[i]
         /\ \A j \in DOMAIN t : Len(s) + j \in DOMAIN (s \o t) /\ (s \o t)[Len(s) + j] = t[j]
         /\ \A i \in DOMAIN (s \o t) :
              \/ i \in DOMAIN s
              \/ \E j \in DOMAIN t : i = Len(s) + j
<1>1. /\ DOMAIN s = 1..Len(s) /\ Len(s) \in Nat
      /\ DOMAIN t = 1..Len(t) /\ Len(t) \in Nat
  BY LenProperties
<1>2. /\ s \o t \in Seq(S)
      /\ Len(s \o t) = Len(s) + Len(t)
      /\ \A i \in 1 .. Len(s) + Len(t) : (s \o t)[i] =
              IF i <= Len(s) THEN s[i] ELSE t[i - Len(s)]
  BY ConcatProperties
<1>3. DOMAIN (s \o t) = 1..(Len(s) + Len(t))
  BY <1>2, LenProperties
<1>4. ASSUME NEW i \in DOMAIN s
      PROVE  i \in DOMAIN (s \o t) /\ (s \o t)[i] = s[i]
  BY <1>1, <1>2, <1>3
<1>5. ASSUME NEW j \in DOMAIN t
      PROVE  Len(s) + j \in DOMAIN (s \o t) /\ (s \o t)[Len(s) + j] = t[j]
  <2>1. Len(s) + j \in 1..(Len(s) + Len(t)) /\ ~(Len(s) + j <= Len(s)) /\ Len(s) + j - Len(s) = j
    BY <1>1
  <2>. QED
    BY <1>2, <1>3, <2>1
<1>6. ASSUME NEW i \in DOMAIN (s \o t), i \notin DOMAIN s
      PROVE  \E j \in DOMAIN t : i = Len(s) + j
  <2>1. i - Len(s) \in DOMAIN t /\ i = Len(s) + (i - Len(s))
    BY <1>1, <1>3, <1>6
  <2>. QED
    BY <2>1
<1>. QED
  BY <1>2, <1>4, <1>5, <1>6

LEMMA JoinedKeys ==
  ASSUME NEW s \in Seq(Entry), NEW t \in Seq(Entry)
  PROVE  KeysOf(s \o t) = KeysOf(s) \cup KeysOf(t)
<1>. DEFINE st == s \o t
<1>1. /\ \A i \in DOMAIN s : i \in DOMAIN st /\ st[i] = s[i]
      /\ \A j \in DOMAIN t : Len(s) + j \in DOMAIN st /\ st[Len(s) + j] = t[j]
      /\ \A i \in DOMAIN st :
           \/ i \in DOMAIN s
           \/ \E j \in DOMAIN t : i = Len(s) + j
  BY Joined
<1>. HIDE DEF st
<1>2. ASSUME NEW k
      PROVE  k \in KeysOf(st) <=> k \in KeysOf(s) \cup KeysOf(t)
  <2>1. k \in KeysOf(st) => k \in KeysOf(s) \cup KeysOf(t)
    BY <1>1, KeysMember
  <2>2. k \in KeysOf(s) => k \in KeysOf(st)
    BY <1>1, KeysMember
  <2>3. k \in KeysOf(t) => k \in KeysOf(st)
    BY <1>1, KeysMember
  <2>. QED
    BY <2>1, <2>2, <2>3
<1>. QED
  BY <1>2 DEF st
-----------------------------------------------------------------------------
(* The rows and their index. *)

(* A model, whose index leads from each key of its rows to such a row.     *)
ModelOK(m) ==
  /\ m = [rows |-> m.rows, index |-> m.index]
  /\ m.rows \in Seq(Entry)
  /\ DOMAIN m.index = KeysOf(m.rows)
  /\ \A k \in DOMAIN m.index :
       m.index[k] \in DOMAIN m.rows /\ Key(m.rows[m.index[k]]) = k

(* The rows of n are those of m that do not have one of the numbers.       *)
Leaves(m, n, numbers) ==
  /\ \A i \in DOMAIN n.rows : \E j \in DOMAIN m.rows \ numbers : n.rows[i] = m.rows[j]
  /\ \A j \in DOMAIN m.rows \ numbers : \E i \in DOMAIN n.rows : n.rows[i] = m.rows[j]

(* Rebuilding the index repairs it, whatever rows there are.               *)
LEMMA Rebuilt ==
  ASSUME NEW s \in Seq(Entry)
  PROVE  ModelOK([rows |-> s, index |-> RebuildIndex(s)])
<1>1. \A k \in KeysOf(s) : LastWith(s, k) \in DOMAIN s /\ Key(s[LastWith(s, k)]) = k
  BY LastOne
<1>. QED
  BY <1>1 DEF ModelOK, RebuildIndex

(* Taking rows out takes out no other row, and leaves the index right.     *)
LEMMA WithoutRows ==
  ASSUME NEW m, ModelOK(m), NEW numbers
  PROVE  ModelOK(Without(m, numbers)) /\ Leaves(m, Without(m, numbers), numbers)
<1>1. CASE numbers = {}
  BY <1>1 DEF Without, Leaves
<1>2. CASE numbers # {}
  <2>. DEFINE K == DOMAIN m.rows \ numbers
              s == Picked(m.rows, K)
  <2>1. m.rows \in Seq(Entry) /\ K \in SUBSET DOMAIN m.rows
    BY DEF ModelOK
  <2>2. /\ s \in Seq(Entry)
        /\ DOMAIN s = 1..Cardinality(K)
        /\ \A n \in 1..Cardinality(K) : \E i \in K : s[n] = m.rows[i]
        /\ \A i \in K : Rank(K, i) \in 1..Cardinality(K) /\ s[Rank(K, i)] = m.rows[i]
    <3>. HIDE DEF K
    <3>. QED
      BY <2>1, PickedEntries, SMTT(30)
  <2>3. Without(m, numbers) = [rows |-> s, index |-> RebuildIndex(s)]
    BY <1>2 DEF Without
  <2>4. /\ \A i \in DOMAIN s : \E j \in K : s[i] = m.rows[j]
        /\ \A j \in K : \E i \in DOMAIN s : s[i] = m.rows[j]
    <3>. HIDE DEF K, s
    <3>. QED
      BY <2>2
  <2>5. ModelOK(Without(m, numbers))
    <3>. HIDE DEF s
    <3>. QED
      BY <2>2, <2>3, Rebuilt
  <2>6. Without(m, numbers).rows = s
    BY <2>3
  <2>. QED
    BY <2>4, <2>5, <2>6 DEF Leaves
<1>. QED
  BY <1>1, <1>2

(* New names change no row's key.                                          *)
LEMMA RenamedRows ==
  ASSUME users \in [Conn -> [Session -> UserName \cup {NoName}]],
         NEW m, ModelOK(m)
  PROVE  LET n == UpdateSharerNames(m) IN
         /\ ModelOK(n) /\ DOMAIN n.rows = DOMAIN m.rows
         /\ KeysOf(n.rows) = KeysOf(m.rows)
         /\ \A i \in DOMAIN m.rows :
              /\ Key(n.rows[i]) = Key(m.rows[i])
              /\ users[m.rows[i].connection][m.rows[i].session] \in {NoName, n.rows[i].sharer}
<1>. DEFINE n == UpdateSharerNames(m)
            e(i) == m.rows[i]
            d(i) == LET known == users[e(i).connection][e(i).session] IN
                    IF known = NoName THEN e(i) ELSE [e(i) EXCEPT !.sharer = known]
<1>1. /\ m = [rows |-> m.rows, index |-> m.index]
      /\ m.rows \in Seq(Entry) /\ DOMAIN m.rows = 1..Len(m.rows) /\ Len(m.rows) \in Nat
      /\ \A i \in DOMAIN m.rows : m.rows[i] \in Entry
  BY LenProperties, ElementOfSeq DEF ModelOK
<1>2. n = [rows |-> [i \in DOMAIN m.rows |-> d(i)], index |-> m.index]
  <2>. DEFINE R == [i \in DOMAIN m.rows |-> d(i)]
  <2>1. n = [m EXCEPT !.rows = R]
    BY DEF UpdateSharerNames
  <2>. HIDE DEF R, n
  <2>2. n = [rows |-> R, index |-> m.index]
    BY <1>1, <2>1
  <2>. QED
    BY <2>2 DEF R
<1>3. \A i \in DOMAIN m.rows :
        /\ d(i) \in Entry /\ Key(d(i)) = Key(m.rows[i])
        /\ users[m.rows[i].connection][m.rows[i].session] \in {NoName, d(i).sharer}
  BY <1>1 DEF Entry, Key
<1>. HIDE DEF d, e
<1>4. /\ n.rows = [i \in DOMAIN m.rows |-> d(i)] /\ n.index = m.index
      /\ n = [rows |-> n.rows, index |-> n.index]
  BY <1>2
<1>. HIDE DEF n
<1>5. n.rows \in [1..Len(m.rows) -> Entry] /\ DOMAIN n.rows = DOMAIN m.rows
  BY <1>1, <1>3, <1>4
<1>6. n.rows \in Seq(Entry)
  BY <1>1, <1>5, SeqDef
<1>7. \A i \in DOMAIN m.rows :
        /\ Key(n.rows[i]) = Key(m.rows[i])
        /\ users[m.rows[i].connection][m.rows[i].session] \in {NoName, n.rows[i].sharer}
  BY <1>3, <1>4
<1>8. KeysOf(n.rows) = KeysOf(m.rows)
  BY <1>5, <1>7 DEF KeysOf
<1>9. ModelOK(n)
  BY <1>4, <1>5, <1>6, <1>7, <1>8 DEF ModelOK
<1>. QED
  BY <1>5, <1>7, <1>8, <1>9 DEF n

(* Adding results loses no row and no result, invents none, and leaves the *)
(* index right: each row afterwards is a row from before or a result.      *)
LEMMA AddedRows ==
  ASSUME NEW m, ModelOK(m), NEW entries \in Seq(Entry)
  PROVE  LET n == AddResults(m, entries) IN
         /\ ModelOK(n)
         /\ KeysOf(n.rows) = KeysOf(m.rows) \cup KeysOf(entries)
         /\ \A i \in DOMAIN n.rows :
              \/ \E j \in DOMAIN m.rows : n.rows[i] = m.rows[j]
              \/ \E j \in DOMAIN entries : n.rows[i] = entries[j]
<1>. DEFINE n == AddResults(m, entries)
            K == {i \in DOMAIN entries : Key(entries[i]) \notin DOMAIN m.index}
            additions == Picked(entries, K)
            k(i) == Key(m.rows[i])
            d(i) == IF k(i) \in KeysOf(entries) /\ m.index[k(i)] = i
                      THEN entries[LastWith(entries, k(i))] ELSE m.rows[i]
            R == [i \in DOMAIN m.rows |-> d(i)]
            ix(q) == IF q \in DOMAIN m.index THEN m.index[q]
                       ELSE Len(m.rows) + LastWith(additions, q)
<1>1. /\ m.rows \in Seq(Entry) /\ DOMAIN m.rows = 1..Len(m.rows) /\ Len(m.rows) \in Nat
      /\ \A i \in DOMAIN m.rows : m.rows[i] \in Entry
      /\ DOMAIN entries = 1..Len(entries) /\ Len(entries) \in Nat
      /\ \A i \in DOMAIN entries : entries[i] \in Entry
      /\ DOMAIN m.index = KeysOf(m.rows)
      /\ \A q \in DOMAIN m.index :
           m.index[q] \in DOMAIN m.rows /\ Key(m.rows[m.index[q]]) = q
  BY LenProperties, ElementOfSeq DEF ModelOK
<1>2. n = [rows |-> R \o additions,
           index |-> [q \in DOMAIN m.index \cup KeysOf(additions) |-> ix(q)]]
  BY DEF AddResults
<1>3. /\ additions \in Seq(Entry)
      /\ \A i \in DOMAIN additions : \E j \in K : additions[i] = entries[j]
      /\ \A j \in K : \E i \in DOMAIN additions : additions[i] = entries[j]
  <2>1. K \in SUBSET DOMAIN entries
    OBVIOUS
  <2>. HIDE DEF K
  <2>2. /\ Picked(entries, K) \in Seq(Entry)
        /\ DOMAIN Picked(entries, K) = 1..Cardinality(K)
        /\ \A q \in 1..Cardinality(K) : \E i \in K : Picked(entries, K)[q] = entries[i]
        /\ \A i \in K :
             Rank(K, i) \in 1..Cardinality(K) /\ Picked(entries, K)[Rank(K, i)] = entries[i]
    BY <2>1, PickedEntries
  <2>. HIDE DEF additions
  <2>3. Picked(entries, K) = additions
    BY DEF additions
  <2>. QED
    BY <2>2, <2>3
<1>4. ASSUME NEW i \in DOMAIN m.rows
      PROVE  /\ d(i) \in Entry /\ Key(d(i)) = Key(m.rows[i])
             /\ d(i) = m.rows[i] \/ \E j \in DOMAIN entries : d(i) = entries[j]
  <2>1. CASE k(i) \in KeysOf(entries) /\ m.index[k(i)] = i
    <3>1. /\ LastWith(entries, k(i)) \in DOMAIN entries
          /\ Key(entries[LastWith(entries, k(i))]) = k(i)
      BY <2>1, LastOne
    <3>2. d(i) = entries[LastWith(entries, k(i))]
      BY <2>1
    <3>. HIDE DEF d
    <3>. QED
      BY <1>1, <3>1, <3>2
  <2>2. CASE ~(k(i) \in KeysOf(entries) /\ m.index[k(i)] = i)
    <3>1. d(i) = m.rows[i]
      BY <2>2
    <3>. HIDE DEF d
    <3>. QED
      BY <1>1, <3>1
  <2>. QED
    BY <2>1, <2>2
<1>5. KeysOf(additions) = KeysOf(entries) \ DOMAIN m.index
  <2>1. ASSUME NEW q \in KeysOf(additions)
        PROVE  q \in KeysOf(entries) /\ q \notin DOMAIN m.index
    <3>1. PICK i \in DOMAIN additions : Key(additions[i]) = q
      BY KeysMember
    <3>2. PICK j \in K : additions[i] = entries[j]
      BY <1>3
    <3>. QED
      BY <3>1, <3>2, KeysMember
  <2>2. ASSUME NEW q \in KeysOf(entries), q \notin DOMAIN m.index
        PROVE  q \in KeysOf(additions)
    <3>1. PICK j \in DOMAIN entries : Key(entries[j]) = q
      BY KeysMember
    <3>2. j \in K
      BY <2>2, <3>1
    <3>3. PICK i \in DOMAIN additions : additions[i] = entries[j]
      BY <1>3, <3>2
    <3>. QED
      BY <3>1, <3>3, KeysMember
  <2>. QED
    BY <2>1, <2>2
<1>6. R \in Seq(Entry) /\ DOMAIN R = DOMAIN m.rows /\ \A i \in DOMAIN R : R[i] = d(i)
  <2>. HIDE DEF d
  <2>1. R \in [1..Len(m.rows) -> Entry] /\ DOMAIN R = DOMAIN m.rows
    BY <1>1, <1>4
  <2>. QED
    BY <1>1, <2>1, SeqDef
<1>7. Len(R) = Len(m.rows)
  BY <1>1, <1>6, LenProperties
<1>8. KeysOf(R) = KeysOf(m.rows)
  <2>. HIDE DEF d, R
  <2>. QED
    BY <1>4, <1>6 DEF KeysOf
<1>9. n.rows = R \o additions /\ n = [rows |-> n.rows, index |-> n.index]
      /\ n.index = [q \in DOMAIN m.index \cup KeysOf(additions) |-> ix(q)]
  <2>. HIDE DEF R, additions, ix
  <2>. QED
    BY <1>2
<1>. HIDE DEF n, d, R, additions, K
<1>10. n.rows \in Seq(Entry) /\ KeysOf(n.rows) = KeysOf(m.rows) \cup KeysOf(entries)
  <2>1. R \o additions \in Seq(Entry)
    BY <1>3, <1>6, Joined
  <2>2. KeysOf(R \o additions) = KeysOf(R) \cup KeysOf(additions)
    BY <1>3, <1>6, JoinedKeys
  <2>. QED
    BY <1>1, <1>5, <1>8, <1>9, <2>1, <2>2, Zenon
<1>11. /\ \A i \in DOMAIN R : i \in DOMAIN n.rows /\ n.rows[i] = R[i]
       /\ \A j \in DOMAIN additions :
            Len(m.rows) + j \in DOMAIN n.rows /\ n.rows[Len(m.rows) + j] = additions[j]
       /\ \A i \in DOMAIN n.rows :
            \/ i \in DOMAIN R
            \/ \E j \in DOMAIN additions : i = Len(m.rows) + j
  <2>1. R \in Seq(Entry) /\ additions \in Seq(Entry)
    BY <1>3, <1>6
  <2>2. /\ \A i \in DOMAIN R : i \in DOMAIN (R \o additions) /\ (R \o additions)[i] = R[i]
        /\ \A j \in DOMAIN additions :
             /\ Len(R) + j \in DOMAIN (R \o additions)
             /\ (R \o additions)[Len(R) + j] = additions[j]
        /\ \A i \in DOMAIN (R \o additions) :
             \/ i \in DOMAIN R
             \/ \E j \in DOMAIN additions : i = Len(R) + j
    BY <2>1, Joined
  <2>3. n.rows = R \o additions
    BY <1>9
  <2>. QED
    BY <1>7, <2>2, <2>3, Zenon
<1>12. \A i \in DOMAIN n.rows :
         \/ \E j \in DOMAIN m.rows : n.rows[i] = m.rows[j]
         \/ \E j \in DOMAIN entries : n.rows[i] = entries[j]
  <2>1. ASSUME NEW i \in DOMAIN R
        PROVE  \/ \E j \in DOMAIN m.rows : n.rows[i] = m.rows[j]
               \/ \E j \in DOMAIN entries : n.rows[i] = entries[j]
    BY <1>4, <1>6, <1>11
  <2>2. ASSUME NEW i \in DOMAIN n.rows, NEW p \in DOMAIN additions, i = Len(m.rows) + p
        PROVE  \E j \in DOMAIN entries : n.rows[i] = entries[j]
    BY <1>3, <1>11, <2>2 DEF K
  <2>. QED
    BY <1>11, <2>1, <2>2
<1>13. ModelOK(n)
  <2>1. DOMAIN n.index = KeysOf(n.rows)
    BY <1>1, <1>5, <1>9, <1>10
  <2>2. ASSUME NEW q \in DOMAIN n.index
        PROVE  n.index[q] \in DOMAIN n.rows /\ Key(n.rows[n.index[q]]) = q
    <3>1. CASE q \in DOMAIN m.index
      <4>1. n.index[q] = m.index[q]
        BY <1>9, <3>1
      <4>. HIDE DEF ix
      <4>. QED
        BY <1>1, <1>4, <1>6, <1>11, <3>1, <4>1
    <3>2. CASE q \notin DOMAIN m.index
      <4>1. q \in KeysOf(additions)
        BY <1>9, <3>2
      <4>2. n.index[q] = Len(m.rows) + LastWith(additions, q)
        BY <1>9, <3>2
      <4>3. LastWith(additions, q) \in DOMAIN additions
            /\ Key(additions[LastWith(additions, q)]) = q
        BY <1>3, <4>1, LastOne
      <4>. HIDE DEF ix
      <4>. QED
        BY <1>11, <4>2, <4>3
    <3>. QED
      BY <3>1, <3>2
  <2>. QED
    BY <1>9, <1>10, <2>1, <2>2 DEF ModelOK
<1>. QED
  BY <1>10, <1>12, <1>13 DEF n
-----------------------------------------------------------------------------
(* What the handlers do to the window. *)

Typed ==
  /\ stage \in [Conn -> {"none", "connected", "down"}]
  /\ users \in [Conn -> [Session -> UserName \cup {NoName}]]
  /\ active \in [Conn -> BOOLEAN]
  /\ matcher \in [Conn -> SUBSET Name]
  /\ pingCount \in [Conn -> 0..MaxQueries]
  /\ pending \in Seq(Entry) /\ dirty \in BOOLEAN /\ timer \in BOOLEAN
  /\ ModelOK(model)
  /\ login \in [Conn -> [Session -> UserName \cup {NoName}]]
  /\ shared \in [Conn -> SUBSET Node]
  /\ filter \in [Conn -> SUBSET Name]
  /\ wire \in [Conn -> Seq(Data \cup Pong)]
  /\ sweeping \in [Conn -> BOOLEAN]
  /\ owed \in [Conn -> SUBSET Node]
  /\ told \in [Conn -> SUBSET Node]

Has(s, e) == \E i \in DOMAIN s : s[i] = e
Held(e) == Has(model.rows, e) \/ Has(pending, e)
Current(e) == users[e.connection][e.session] \in {NoName, e.sharer}

(* All that is held, but for what is of the connections S, is in the rows. *)
FlushedBut(S) ==
  /\ ModelOK(model') /\ pending' = <<>> /\ dirty' = FALSE
  /\ \A i \in DOMAIN model'.rows :
       \E d \in Entry :
         /\ Held(d) /\ d.connection \notin S
         /\ Key(model'.rows[i]) = Key(d)
         /\ IF dirty THEN Current(model'.rows[i]) ELSE model'.rows[i] = d
  /\ \A e \in Entry : Held(e) /\ e.connection \notin S => Key(e) \in KeysOf(model'.rows)

LEMMA HasEntry ==
  ASSUME NEW s \in Seq(Entry)
  PROVE  /\ \A e : Has(s, e) => e \in Entry
         /\ \A i \in DOMAIN s : s[i] \in Entry /\ Has(s, s[i])
         /\ \A k : k \in KeysOf(s) <=> \E e \in Entry : Has(s, e) /\ Key(e) = k
<1>1. \A i \in DOMAIN s : s[i] \in Entry
  BY LenProperties, ElementOfSeq
<1>. QED
  BY <1>1 DEF Has, KeysOf

LEMMA FlushShows ==
  ASSUME Typed, NEW S, NEW entries \in Seq(Entry), NEW m, ModelOK(m),
         \A e : Has(m.rows, e) \/ Has(entries, e) <=> Held(e) /\ e.connection \notin S,
         Flush(entries, m)
  PROVE  FlushedBut(S)
<1>. DEFINE n == AddResults(m, entries)
<1>1. /\ ModelOK(n)
      /\ KeysOf(n.rows) = KeysOf(m.rows) \cup KeysOf(entries)
      /\ \A i \in DOMAIN n.rows : Has(m.rows, n.rows[i]) \/ Has(entries, n.rows[i])
  <2>. HIDE DEF n
  <2>1. n = AddResults(m, entries)
    BY DEF n
  <2>2. /\ ModelOK(n)
        /\ KeysOf(n.rows) = KeysOf(m.rows) \cup KeysOf(entries)
        /\ \A i \in DOMAIN n.rows :
             \/ \E j \in DOMAIN m.rows : n.rows[i] = m.rows[j]
             \/ \E j \in DOMAIN entries : n.rows[i] = entries[j]
    BY <2>1, AddedRows
  <2>. QED
    BY <2>2 DEF Has
<1>2. /\ model' = IF dirty THEN UpdateSharerNames(n) ELSE n
      /\ pending' = <<>> /\ dirty' = FALSE
  BY DEF Flush
<1>. HIDE DEF n
<1>3. /\ n.rows \in Seq(Entry) /\ m.rows \in Seq(Entry)
      /\ users \in [Conn -> [Session -> UserName \cup {NoName}]]
  BY <1>1 DEF ModelOK, Typed
<1>4. \A i \in DOMAIN n.rows :
        n.rows[i] \in Entry /\ Held(n.rows[i]) /\ n.rows[i].connection \notin S
  BY <1>1, <1>3, HasEntry, Zenon
<1>5. \A e \in Entry : Held(e) /\ e.connection \notin S => Key(e) \in KeysOf(n.rows)
  <2>1. \A e \in Entry : Has(m.rows, e) \/ Has(entries, e) => Key(e) \in KeysOf(n.rows)
    BY <1>1, <1>3, HasEntry
  <2>. QED
    BY <2>1, Zenon
<1>6. CASE ~dirty
  <2>1. model' = n
    BY <1>2, <1>6
  <2>. QED
    BY <1>1, <1>2, <1>4, <1>5, <1>6, <2>1 DEF FlushedBut
<1>7. CASE dirty
  <2>. DEFINE r == UpdateSharerNames(n)
  <2>1. /\ ModelOK(r) /\ DOMAIN r.rows = DOMAIN n.rows
        /\ KeysOf(r.rows) = KeysOf(n.rows)
        /\ \A i \in DOMAIN n.rows :
             /\ Key(r.rows[i]) = Key(n.rows[i])
             /\ users[n.rows[i].connection][n.rows[i].session] \in {NoName, r.rows[i].sharer}
    BY <1>1, <1>3, RenamedRows
  <2>2. model' = r
    BY <1>2, <1>7
  <2>. HIDE DEF r
  <2>3. r.rows \in Seq(Entry)
    BY <2>1 DEF ModelOK
  <2>4. ASSUME NEW i \in DOMAIN r.rows
        PROVE  /\ n.rows[i] \in Entry /\ Held(n.rows[i]) /\ n.rows[i].connection \notin S
               /\ Key(r.rows[i]) = Key(n.rows[i]) /\ Current(r.rows[i])
    <3>1. n.rows[i] \in Entry /\ r.rows[i] \in Entry
      BY <1>3, <2>1, <2>3, HasEntry
    <3>2. /\ r.rows[i].connection = n.rows[i].connection
          /\ r.rows[i].session = n.rows[i].session
      BY <2>1, <3>1, EntryOK
    <3>. QED
      BY <1>4, <2>1, <3>1, <3>2 DEF Current
  <2>. QED
    BY <1>2, <1>5, <1>7, <2>1, <2>2, <2>4 DEF FlushedBut
<1>. QED
  BY <1>6, <1>7

(* The timer and the pong show everything.                                 *)
LEMMA FlushAll ==
  Typed /\ Flush(pending, model) => FlushedBut({})
<1>1. SUFFICES ASSUME Typed, Flush(pending, model)
               PROVE  FlushedBut({})
  OBVIOUS
<1>2. pending \in Seq(Entry) /\ ModelOK(model)
  BY <1>1 DEF Typed
<1>3. \A e : Has(model.rows, e) \/ Has(pending, e) <=> Held(e) /\ e.connection \notin {}
  BY DEF Held
<1>. QED
  BY <1>1, <1>2, <1>3, FlushShows

(* Taking connections' rows out.                                           *)
LEMMA RemovedConnections ==
  ASSUME NEW m, ModelOK(m), NEW S
  PROVE  LET n == RemoveResultsForConnections(m, S) IN
         /\ ModelOK(n)
         /\ \A e : Has(n.rows, e) <=> Has(m.rows, e) /\ e.connection \notin S
<1>. DEFINE n == RemoveResultsForConnections(m, S)
            numbers == {i \in DOMAIN m.rows : m.rows[i].connection \in S}
<1>1. n = Without(m, numbers)
  BY DEF RemoveResultsForConnections
<1>2. \A j \in DOMAIN m.rows : j \in numbers <=> m.rows[j].connection \in S
  OBVIOUS
<1>. HIDE DEF n, numbers
<1>3. ModelOK(n) /\ Leaves(m, n, numbers)
  BY <1>1, WithoutRows
<1>4. \A e : Has(n.rows, e) <=> Has(m.rows, e) /\ e.connection \notin S
  BY <1>2, <1>3 DEF Leaves, Has
<1>. QED
  BY <1>3, <1>4 DEF n

LEMMA PendingRest ==
  ASSUME Typed, NEW S
  PROVE  /\ PendingWithout(S) \in Seq(Entry)
         /\ \A e : Has(PendingWithout(S), e) <=> Has(pending, e) /\ e.connection \notin S
<1>. DEFINE K == {i \in DOMAIN pending : pending[i].connection \notin S}
            s == PendingWithout(S)
<1>1. s = Picked(pending, K) /\ pending \in Seq(Entry) /\ K \in SUBSET DOMAIN pending
  BY DEF PendingWithout, Typed
<1>2. \A j \in DOMAIN pending : j \in K <=> pending[j].connection \notin S
  OBVIOUS
<1>. HIDE DEF K, s
<1>3. /\ s \in Seq(Entry)
      /\ DOMAIN s = 1..Cardinality(K)
      /\ \A n \in 1..Cardinality(K) : \E i \in K : s[n] = pending[i]
      /\ \A i \in K : Rank(K, i) \in 1..Cardinality(K) /\ s[Rank(K, i)] = pending[i]
  BY <1>1, PickedEntries
<1>4. \A e : Has(s, e) <=> Has(pending, e) /\ e.connection \notin S
  BY <1>1, <1>2, <1>3 DEF Has
<1>. QED
  BY <1>3, <1>4 DEF s

(* Stopping queries drops what is held of the connections that had one,    *)
(* and shows the rest.                                                     *)
LEMMA StoppedShows ==
  ASSUME Typed, NEW C, StopQueries(C)
  PROVE  /\ timer' = timer
         /\ IF C \cap Active = {} THEN UNCHANGED windowVars ELSE FlushedBut(C \cap Active)
<1>. DEFINE S == C \cap Active
            m == RemoveResultsForConnections(model, S)
<1>1. CASE S = {}
  BY <1>1 DEF StopQueries, windowVars
<1>2. CASE S # {}
  <2>1. Flush(PendingWithout(S), m) /\ timer' = timer
    BY <1>2 DEF StopQueries
  <2>2. ModelOK(model)
    BY DEF Typed
  <2>. HIDE DEF S
  <2>3. ModelOK(m) /\ \A e : Has(m.rows, e) <=> Has(model.rows, e) /\ e.connection \notin S
    BY <2>2, RemovedConnections
  <2>. HIDE DEF m
  <2>4. /\ PendingWithout(S) \in Seq(Entry)
        /\ \A e : Has(PendingWithout(S), e) <=> Has(pending, e) /\ e.connection \notin S
    BY PendingRest
  <2>5. \A e : Has(m.rows, e) \/ Has(PendingWithout(S), e) <=> Held(e) /\ e.connection \notin S
    BY <2>3, <2>4, Zenon DEF Held
  <2>6. FlushedBut(S)
    BY <2>1, <2>3, <2>4, <2>5, FlushShows
  <2>. QED
    BY <1>2, <2>1, <2>6 DEF S
<1>. QED
  BY <1>1, <1>2

(* A finite set, listed, has each of its elements in the list.             *)
LEMMA Listed ==
  ASSUME NEW S, IsFiniteSet(S)
  PROVE  /\ SetToSeq(S) \in Seq(S)
         /\ \A x \in S : \E i \in DOMAIN SetToSeq(S) : SetToSeq(S)[i] = x
<1>. DEFINE n == Cardinality(S)
            f == SetToSeq(S)
<1>1. n \in Nat /\ ExistsBijection(1..n, S)
  BY FS_CardinalityType
<1>2. \E g \in [1..n -> S] : IsInjective(g)
  BY <1>1 DEF ExistsBijection, Bijection, Injection
<1>3. f \in [1..n -> S] /\ IsInjective(f)
  BY <1>2, Zenon DEF SetToSeq
<1>4. f \in Injection(1..n, S)
  BY <1>3 DEF Injection
<1>. HIDE DEF f
<1>5. Cardinality(1..n) = n
  BY <1>1, FS_Interval
<1>6. f \in Surjection(1..n, S)
  BY <1>4, <1>5, FS_Injection
<1>7. f \in Seq(S) /\ DOMAIN f = 1..n
  BY <1>1, <1>3, SeqDef
<1>8. \A x \in S : \E i \in DOMAIN f : f[i] = x
  BY <1>6, <1>7 DEF Surjection
<1>. QED
  BY <1>7, <1>8 DEF f

(* The model forgets the keys it is told, and no other.                    *)
LEMMA RemovedKeys ==
  ASSUME NEW m, ModelOK(m), NEW keys
  PROVE  LET n == RemoveKeys(m, keys) IN
         /\ ModelOK(n)
         /\ \A e : Has(n.rows, e) => Has(m.rows, e)
         /\ \A e : Has(m.rows, e) /\ Key(e) \notin keys => Has(n.rows, e)
<1>. DEFINE n == RemoveKeys(m, keys)
            numbers == {m.index[k] : k \in keys \cap DOMAIN m.index}
<1>1. n = Without(m, numbers)
  BY DEF RemoveKeys
<1>2. \A k \in DOMAIN m.index :
        m.index[k] \in DOMAIN m.rows /\ Key(m.rows[m.index[k]]) = k
  BY DEF ModelOK
<1>3. \A j \in DOMAIN m.rows : Key(m.rows[j]) \notin keys => j \notin numbers
  BY <1>2
<1>. HIDE DEF n, numbers
<1>4. ModelOK(n) /\ Leaves(m, n, numbers)
  BY <1>1, WithoutRows
<1>5. /\ \A e : Has(n.rows, e) => Has(m.rows, e)
      /\ \A e : Has(m.rows, e) /\ Key(e) \notin keys => Has(n.rows, e)
  BY <1>3, <1>4 DEF Leaves, Has
<1>. QED
  BY <1>4, <1>5 DEF n

LEMMA RemovedSessions ==
  ASSUME NEW m, ModelOK(m), NEW c, NEW S
  PROVE  LET n == RemoveResultsForSessions(m, c, S) IN
         /\ ModelOK(n)
         /\ \A e : Has(n.rows, e) <=> Has(m.rows, e) /\ ~(e.connection = c /\ e.session \in S)
<1>. DEFINE n == RemoveResultsForSessions(m, c, S)
            numbers == {i \in DOMAIN m.rows : m.rows[i].connection = c /\ m.rows[i].session \in S}
<1>1. n = Without(m, numbers)
  BY DEF RemoveResultsForSessions
<1>2. \A j \in DOMAIN m.rows :
        j \in numbers <=> m.rows[j].connection = c /\ m.rows[j].session \in S
  OBVIOUS
<1>. HIDE DEF n, numbers
<1>3. ModelOK(n) /\ Leaves(m, n, numbers)
  BY <1>1, WithoutRows
<1>4. \A e : Has(n.rows, e) <=> Has(m.rows, e) /\ ~(e.connection = c /\ e.session \in S)
  BY <1>2, <1>3 DEF Leaves, Has
<1>. QED
  BY <1>3, <1>4 DEF n

(* A message's node of a file or user is removed by it.                    *)
Removes(x, y) == y \in x.gone \/ y[1] \in x.left

(* What a message about users and files does to the window: rows that it   *)
(* does not remove stay, its results are held.                             *)
DataHandled(c, x) ==
  /\ users' = [users EXCEPT ![c] = KnownAfter(c, x)]
  /\ ModelOK(model') /\ pending' \in Seq(Entry)
  /\ \A e : Has(model'.rows, e) => Has(model.rows, e)
  /\ \A e \in Entry :
       Has(model.rows, e) /\ (e.connection = c => ~Removes(x, <<e.session, e.name>>))
         => Has(model'.rows, e)
  /\ \A e : Has(pending', e) <=>
       Has(pending, e) \/ \E y \in Accepted(c, x) : e = ResultOf(c, users'[c], y)
  /\ Accepted(c, x) = {} => pending' = pending

LEMMA KnownType ==
  ASSUME Typed, NEW c \in Conn, NEW x \in Data
  PROVE  /\ KnownAfter(c, x) \in [Session -> UserName \cup {NoName}]
         /\ [users EXCEPT ![c] = KnownAfter(c, x)] \in [Conn -> [Session -> UserName \cup {NoName}]]
<1>1. ASSUME NEW s \in Session
      PROVE  (IF \E n \in UserName : <<s, n>> \in x.users
                THEN CHOOSE n \in UserName : <<s, n>> \in x.users
                ELSE IF s \in x.left THEN NoName ELSE users[c][s]) \in UserName \cup {NoName}
  <2>1. users[c][s] \in UserName \cup {NoName}
    BY DEF Typed
  <2>2. (\E n \in UserName : <<s, n>> \in x.users)
          => (CHOOSE n \in UserName : <<s, n>> \in x.users) \in UserName
    BY Zenon
  <2>. QED
    BY <2>1, <2>2
<1>2. KnownAfter(c, x) \in [Session -> UserName \cup {NoName}]
  BY <1>1 DEF KnownAfter
<1>. QED
  BY <1>2 DEF Typed

LEMMA DataShows ==
  ASSUME Typed, NEW c \in Conn, NEW x \in Data, HandleDataItems(c, x)
  PROVE  DataHandled(c, x)
<1>. DEFINE A == Accepted(c, x)
            m == RemoveKeys(model, {<<c, y[1], y[2]>> : y \in x.gone})
            results == SetToSeq(A)
            new == [i \in DOMAIN results |-> ResultOf(c, users'[c], results[i])]
<1>1. /\ users' = [users EXCEPT ![c] = KnownAfter(c, x)]
      /\ model' = RemoveResultsForSessions(m, c, Departing(c, x))
      /\ pending' = pending \o new
  BY DEF HandleDataItems
<1>2. users'[c] \in [Session -> UserName \cup {NoName}]
  <2>1. users'[c] = KnownAfter(c, x)
    BY <1>1 DEF Typed
  <2>. QED
    BY <2>1, KnownType
<1>3. A \subseteq Node /\ IsFiniteSet(A)
  <2>1. A \subseteq Session \X Name
    BY DEF Accepted, Data, Node
  <2>2. IsFiniteSet(Session \X Name)
    BY QueryAssumption, FS_Product
  <2>. QED
    BY <2>1, <2>2, FS_Subset DEF Node
<1>4. ModelOK(model) /\ pending \in Seq(Entry)
  BY DEF Typed
<1>5. /\ ModelOK(m)
      /\ \A e : Has(m.rows, e) => Has(model.rows, e)
      /\ \A e : Has(model.rows, e) /\ Key(e) \notin {<<c, y[1], y[2]>> : y \in x.gone}
                  => Has(m.rows, e)
  BY <1>4, RemovedKeys
<1>6. results \in Seq(A) /\ \A y \in A : \E i \in DOMAIN results : results[i] = y
  BY <1>3, Listed
<1>7. x.gone \subseteq Node
  BY DEF Data
<1>. HIDE DEF A, m, results
<1>8. /\ ModelOK(model')
      /\ \A e : Has(model'.rows, e) <=>
                  Has(m.rows, e) /\ ~(e.connection = c /\ e.session \in Departing(c, x))
  BY <1>1, <1>5, RemovedSessions
<1>9. /\ new \in Seq(Entry)
      /\ \A e : Has(new, e) <=> \E y \in A : e = ResultOf(c, users'[c], y)
      /\ A = {} => new = <<>>
  <2>1. /\ DOMAIN results = 1..Len(results) /\ Len(results) \in Nat
        /\ \A i \in DOMAIN results : results[i] \in A
    BY <1>6, LenProperties, ElementOfSeq
  <2>2. \A y \in A : ResultOf(c, users'[c], y) \in Entry
    BY <1>2, <1>3 DEF ResultOf, Entry, Node
  <2>3. DOMAIN new = 1..Len(results) /\ \A i \in DOMAIN new : new[i] = ResultOf(c, users'[c], results[i])
    BY <2>1
  <2>4. new \in [1..Len(results) -> Entry]
    BY <2>1, <2>2
  <2>. HIDE DEF new
  <2>5. new \in Seq(Entry) /\ Len(new) = Len(results)
    BY <2>1, <2>3, <2>4, SeqDef, LenProperties
  <2>6. \A e : Has(new, e) <=> \E y \in A : e = ResultOf(c, users'[c], y)
    <3>1. ASSUME NEW e, Has(new, e)
          PROVE  \E y \in A : e = ResultOf(c, users'[c], y)
      BY <2>1, <2>3, <3>1 DEF Has
    <3>2. ASSUME NEW y \in A
          PROVE  Has(new, ResultOf(c, users'[c], y))
      BY <1>6, <2>1, <2>3 DEF Has
    <3>. QED
      BY <3>1, <3>2
  <2>7. ASSUME A = {}
        PROVE  new = <<>>
    <3>1. ~ \E i \in 1..Len(results) : TRUE
      BY <2>1, <2>7
    <3>2. Len(results) = 0
      <4>1. Len(results) # 0 => 1 \in 1..Len(results)
        BY <2>1
      <4>. QED
        BY <3>1, <4>1
    <3>. QED
      BY <2>5, <3>2, EmptySeq
  <2>. QED
    BY <2>5, <2>6, <2>7
<1>. HIDE DEF new
<1>10. pending' \in Seq(Entry) /\ \A e : Has(pending', e) <=> Has(pending, e) \/ Has(new, e)
  <2>1. pending \o new = pending'
    BY <1>1
  <2>2. /\ pending \o new \in Seq(Entry)
        /\ \A i \in DOMAIN pending :
             i \in DOMAIN (pending \o new) /\ (pending \o new)[i] = pending[i]
        /\ \A j \in DOMAIN new :
             Len(pending) + j \in DOMAIN (pending \o new) /\ (pending \o new)[Len(pending) + j] = new[j]
        /\ \A i \in DOMAIN (pending \o new) :
             \/ i \in DOMAIN pending
             \/ \E j \in DOMAIN new : i = Len(pending) + j
    BY <1>4, <1>9, Joined
  <2>3. \A e : Has(pending', e) => Has(pending, e) \/ Has(new, e)
    BY <2>1, <2>2 DEF Has
  <2>4. \A e : Has(pending, e) \/ Has(new, e) => Has(pending', e)
    BY <2>1, <2>2 DEF Has
  <2>. QED
    BY <2>1, <2>2, <2>3, <2>4
<1>11. A = {} => pending' = pending
  BY <1>1, <1>4, <1>9, ConcatEmptySeq
<1>12. \A e : Has(model'.rows, e) => Has(model.rows, e)
  BY <1>5, <1>8
<1>13. ASSUME NEW e \in Entry, Has(model.rows, e),
              e.connection = c => ~Removes(x, <<e.session, e.name>>)
       PROVE  Has(model'.rows, e)
  <2>1. Key(e) \notin {<<c, y[1], y[2]>> : y \in x.gone}
    BY <1>7, <1>13 DEF Key, Removes, Node
  <2>2. ~(e.connection = c /\ e.session \in Departing(c, x))
    BY <1>13 DEF Removes, Departing
  <2>. QED
    BY <1>5, <1>8, <1>13, <2>1, <2>2, Zenon
<1>14. \A e : Has(pending', e) <=>
         Has(pending, e) \/ \E y \in Accepted(c, x) : e = ResultOf(c, users'[c], y)
  BY <1>9, <1>10, Zenon DEF A
<1>. QED
  BY <1>1, <1>8, <1>10, <1>11, <1>12, <1>13, <1>14, Zenon DEF DataHandled, A
-----------------------------------------------------------------------------
(* What a server sends. *)

Message == Data \cup Pong

LEMMA DataIsNoPong ==
  \A x \in Data : x \notin Pong
<1>1. ASSUME NEW x \in Data, x \in Pong
      PROVE  FALSE
  <2>1. "left" \in DOMAIN x
    BY DEF Data
  <2>2. DOMAIN x = {"count"}
    BY <1>1 DEF Pong
  <2>. QED
    BY <2>1, <2>2
<1>. QED
  BY <1>1

LEMMA ChangeType ==
  /\ NoChange \in Data
  /\ \A S \in SUBSET (Session \X UserName) :
       Change("users", S) \in Data /\ \A y : ~Removes(Change("users", S), y)
  /\ \A S \in SUBSET Node :
       /\ Change("files", S) \in Data /\ Change("files", S).files = S
       /\ \A y : ~Removes(Change("files", S), y)
  /\ \A S \in SUBSET Node :
       Change("gone", S) \in Data /\ \A y : Removes(Change("gone", S), y) => y \in S
<1>1. NoChange \in Data
  BY DEF NoChange, Data
<1>2. ASSUME NEW S \in SUBSET (Session \X UserName)
      PROVE  Change("users", S) \in Data /\ \A y : ~Removes(Change("users", S), y)
  <2>1. Change("users", S) = [left |-> {}, gone |-> {}, users |-> S, files |-> {}]
    BY DEF Change, NoChange
  <2>. QED
    BY <2>1 DEF Data, Removes
<1>3. ASSUME NEW S \in SUBSET Node
      PROVE  /\ Change("files", S) \in Data /\ Change("files", S).files = S
             /\ \A y : ~Removes(Change("files", S), y)
  <2>1. Change("files", S) = [left |-> {}, gone |-> {}, users |-> {}, files |-> S]
    BY DEF Change, NoChange
  <2>. QED
    BY <2>1 DEF Data, Removes
<1>4. ASSUME NEW S \in SUBSET Node
      PROVE  Change("gone", S) \in Data /\ \A y : Removes(Change("gone", S), y) => y \in S
  <2>1. Change("gone", S) = [left |-> {}, gone |-> S, users |-> {}, files |-> {}]
    BY DEF Change, NoChange
  <2>. QED
    BY <2>1 DEF Data, Removes
<1>. QED
  BY <1>1, <1>2, <1>3, <1>4

(* A report is one message, or none of nothing.                            *)
LEMMA ReportedType ==
  ASSUME NEW field, NEW S, Change(field, S) \in Data
  PROVE  /\ Reported(field, S) \in Seq(Message)
         /\ \A i \in DOMAIN Reported(field, S) : Reported(field, S)[i] = Change(field, S)
         /\ S # {} => 1 \in DOMAIN Reported(field, S)
<1>1. Change(field, S) \in Message
  BY DEF Message
<1>. DEFINE z == Change(field, S)
<1>2. \A w \in Message : <<w>> \in Seq(Message) /\ DOMAIN <<w>> = {1} /\ <<w>>[1] = w
  OBVIOUS
<1>3. <<>> \in Seq(Message) /\ DOMAIN <<>> = {}
  BY EmptySeq
<1>4. Reported(field, S) = IF S = {} THEN <<>> ELSE <<z>>
  BY DEF Reported
<1>. HIDE DEF z
<1>5. z \in Message /\ z = Change(field, S)
  BY <1>1 DEF z
<1>. QED
  BY <1>2, <1>3, <1>4, <1>5

(* What is left on the wire when a query is stopped: no new pong.          *)
LEMMA JettisonedType ==
  ASSUME NEW q \in Seq(Message), NEW n \in 0..Len(q)
  PROVE  /\ Jettisoned(q, n) \in Seq(Message)
         /\ \A i \in DOMAIN Jettisoned(q, n) :
              Jettisoned(q, n)[i] \in Pong => \E j \in DOMAIN q : q[j] = Jettisoned(q, n)[i]
<1>. DEFINE queued == [i \in 1..(Len(q) - n) |-> WithoutFiles(q[n + i])]
            K == {i \in DOMAIN queued : queued[i] # NoChange}
            s == SubSeq(q, 1, n)
            t == Picked(queued, K)
<1>1. /\ DOMAIN q = 1..Len(q) /\ Len(q) \in Nat /\ n \in Nat /\ n <= Len(q)
      /\ \A i \in DOMAIN q : q[i] \in Message
  BY LenProperties, ElementOfSeq
<1>2. \A x \in Message : /\ WithoutFiles(x) \in Message
                         /\ WithoutFiles(x) \in Pong => WithoutFiles(x) = x
  <2>1. \A x \in Pong : WithoutFiles(x) = x
    BY DEF WithoutFiles
  <2>2. ASSUME NEW x \in Data
        PROVE  WithoutFiles(x) \in Data
    <3>1. WithoutFiles(x) = [x EXCEPT !.files = {}, !.gone = {}]
      BY DataIsNoPong DEF WithoutFiles
    <3>. QED
      BY <3>1 DEF Data
  <2>. QED
    BY <2>1, <2>2, DataIsNoPong DEF Message
<1>3. \A i \in 1..(Len(q) - n) : n + i \in DOMAIN q
  BY <1>1
<1>4. /\ DOMAIN queued = 1..(Len(q) - n)
      /\ \A i \in DOMAIN queued : queued[i] = WithoutFiles(q[n + i])
  OBVIOUS
<1>5. Jettisoned(q, n) = s \o t
  BY DEF Jettisoned
<1>6. K \in SUBSET DOMAIN queued
  OBVIOUS
<1>. HIDE DEF queued, K
<1>7. queued \in Seq(Message)
  <2>1. \A i \in DOMAIN queued : queued[i] \in Message
    BY <1>1, <1>2, <1>3, <1>4
  <2>2. queued = [i \in 1..(Len(q) - n) |-> WithoutFiles(q[n + i])]
    BY DEF queued
  <2>3. queued \in [1..(Len(q) - n) -> Message] /\ Len(q) - n \in Nat
    BY <1>1, <1>2, <1>3, <2>2
  <2>. QED
    BY <2>3, SeqDef
<1>8. /\ t \in Seq(Message)
      /\ \A i \in DOMAIN t : \E j \in K : t[i] = queued[j]
  BY <1>6, <1>7, PickedEntries, SMTT(30)
<1>9. /\ s \in Seq(Message)
      /\ \A i \in DOMAIN s : \E j \in DOMAIN q : s[i] = q[j]
  <2>1. \A i \in 1..n : i \in DOMAIN q /\ q[i] \in Message
    BY <1>1
  <2>2. /\ s \in Seq(Message) /\ Len(s) = IF 1 <= n THEN n - 1 + 1 ELSE 0
        /\ \A i \in 1..(n - 1 + 1) : s[i] = q[1 + i - 1]
    BY <1>1, <2>1, SubSeqProperties
  <2>. HIDE DEF s
  <2>3. DOMAIN s = 1..n
    <3>1. Len(s) = n
      BY <1>1, <2>2
    <3>. QED
      BY <2>2, <3>1, LenProperties
  <2>4. \A i \in 1..n : s[i] = q[i]
    BY <1>1, <2>2
  <2>. QED
    BY <2>1, <2>2, <2>3, <2>4
<1>10. \A i \in DOMAIN t : t[i] \in Pong => \E j \in DOMAIN q : q[j] = t[i]
  <2>1. SUFFICES ASSUME NEW i \in DOMAIN t, t[i] \in Pong
                 PROVE  \E j \in DOMAIN q : q[j] = t[i]
    OBVIOUS
  <2>2. PICK j \in K : t[i] = queued[j]
    BY <1>8
  <2>3. n + j \in DOMAIN q /\ t[i] = WithoutFiles(q[n + j])
    BY <1>3, <1>4, <1>6, <2>2
  <2>. QED
    BY <1>1, <1>2, <2>1, <2>3
<1>. DEFINE w == s \o t
<1>11. w = Jettisoned(q, n)
  BY <1>5
<1>. HIDE DEF s, t
<1>12. /\ w \in Seq(Message)
       /\ \A i \in DOMAIN s : i \in DOMAIN w /\ w[i] = s[i]
       /\ \A j \in DOMAIN t : Len(s) + j \in DOMAIN w /\ w[Len(s) + j] = t[j]
       /\ \A i \in DOMAIN w :
            \/ i \in DOMAIN s
            \/ \E j \in DOMAIN t : i = Len(s) + j
  BY <1>8, <1>9, Joined
<1>. HIDE DEF w
<1>13. ASSUME NEW i \in DOMAIN w, w[i] \in Pong
       PROVE  \E j \in DOMAIN q : q[j] = w[i]
  <2>1. CASE i \in DOMAIN s
    BY <1>9, <1>12, <2>1
  <2>2. ASSUME NEW j \in DOMAIN t, i = Len(s) + j
        PROVE  \E k \in DOMAIN q : q[k] = w[i]
    BY <1>10, <1>12, <1>13, <2>2
  <2>. QED
    BY <1>12, <2>1, <2>2
<1>. QED
  BY <1>11, <1>12, <1>13

(* Pongs answer pings that were sent.                                      *)
PongsBelow(q, n) == \A i \in DOMAIN q : q[i] \in Pong => q[i].count < n

LEMMA UnsubscribedType ==
  ASSUME wire \in [Conn -> Seq(Message)], NEW C, NEW w \in Unsubscribed(C)
  PROVE  /\ w \in [Conn -> Seq(Message)]
         /\ \A c \in Conn : c \notin C \cap Active => w[c] = wire[c]
         /\ \A c \in Conn, n \in Nat : PongsBelow(wire[c], n) => PongsBelow(w[c], n)
<1>1. ASSUME NEW c \in Conn
      PROVE  /\ w[c] \in Seq(Message)
             /\ c \notin C \cap Active => w[c] = wire[c]
             /\ \A n \in Nat : PongsBelow(wire[c], n) => PongsBelow(w[c], n)
  <2>1. w[c] \in Remains(c, C) /\ wire[c] \in Seq(Message)
    BY DEF Unsubscribed
  <2>2. CASE c \in C \cap Active
    <3>1. PICK n \in 0..Len(wire[c]) : w[c] = Jettisoned(wire[c], n)
      BY <2>1, <2>2 DEF Remains
    <3>2. /\ w[c] \in Seq(Message)
          /\ \A i \in DOMAIN w[c] :
               w[c][i] \in Pong => \E j \in DOMAIN wire[c] : wire[c][j] = w[c][i]
      BY <2>1, <3>1, JettisonedType
    <3>. QED
      BY <2>2, <3>2 DEF PongsBelow
  <2>3. CASE c \notin C \cap Active
    BY <2>1, <2>3 DEF Remains
  <2>. QED
    BY <2>2, <2>3
<1>2. w \in [Conn -> Seq(Message)]
  <2>1. w \in [Conn -> UNION {Remains(c, C) : c \in Conn}]
    BY DEF Unsubscribed
  <2>. QED
    BY <1>1, <2>1
<1>. QED
  BY <1>1, <1>2

(* What a server says of its own accord: news that take away nothing that  *)
(* it still owes us.                                                       *)
ServerSays(c) ==
  /\ stage[c] = "connected"
  /\ UNCHANGED <<clientVars, windowVars, filter, sweeping, told>>
  /\ login' \in [Conn -> [Session -> UserName \cup {NoName}]]
  /\ shared' \in [Conn -> SUBSET Node]
  /\ owed' \in [Conn -> SUBSET Node] /\ \A d \in Conn : owed'[d] \subseteq owed[d]
  /\ \E q \in Seq(Message) :
       /\ wire' = [wire EXCEPT ![c] = @ \o q]
       /\ \A i \in DOMAIN q : q[i] \in Data /\ \A y \in owed'[c] : ~Removes(q[i], y)

LEMMA OneMessage ==
  ASSUME NEW x \in Data
  PROVE  /\ <<x>> \in Seq(Message) /\ DOMAIN <<x>> = {1} /\ <<x>>[1] = x
  BY DEF Message

LEMMA NewsIsServerSays ==
  ASSUME Typed, NEW c \in Conn, NEW s \in Session
  PROVE  /\ \A n \in UserName : UserNamesItself(c, s, n) => ServerSays(c)
         /\ \A f \in Name : UserShares(c, s, f) => ServerSays(c)
         /\ \A f \in Name : UserUnshares(c, s, f) => ServerSays(c)
         /\ UserLeaves(c, s) => ServerSays(c)
<1>0. /\ login \in [Conn -> [Session -> UserName \cup {NoName}]]
      /\ shared \in [Conn -> SUBSET Node] /\ owed \in [Conn -> SUBSET Node]
      /\ filter \in [Conn -> SUBSET Name]
  BY DEF Typed
<1>1. ASSUME ServerAlone(c)
      PROVE  /\ stage[c] = "connected"
             /\ UNCHANGED <<clientVars, windowVars, filter, sweeping, told>>
  BY <1>1 DEF ServerAlone, Connected
<1>2. ASSUME NEW n \in UserName, UserNamesItself(c, s, n)
      PROVE  ServerSays(c)
  <2>. DEFINE x == Change("users", {<<s, n>>})
  <2>1. /\ login' = [login EXCEPT ![c][s] = n]
        /\ wire' = [wire EXCEPT ![c] = @ \o <<x>>]
        /\ ServerAlone(c) /\ shared' = shared /\ owed' = owed
    BY <1>2 DEF UserNamesItself, Says
  <2>2. {<<s, n>>} \in SUBSET (Session \X UserName)
    OBVIOUS
  <2>3. x \in Data /\ \A y : ~Removes(x, y)
    BY <2>2, ChangeType, Zenon
  <2>. HIDE DEF x
  <2>4. <<x>> \in Seq(Message) /\ DOMAIN <<x>> = {1} /\ <<x>>[1] = x
    BY <2>3, OneMessage
  <2>5. \A i \in DOMAIN <<x>> : <<x>>[i] \in Data /\ \A y \in owed'[c] : ~Removes(<<x>>[i], y)
    BY <2>3, <2>4
  <2>6. login' \in [Conn -> [Session -> UserName \cup {NoName}]]
    BY <1>0, <2>1
  <2>. QED
    BY <1>0, <1>1, <2>1, <2>4, <2>5, <2>6 DEF ServerSays
<1>3. ASSUME NEW f \in Name, UserShares(c, s, f)
      PROVE  ServerSays(c)
  <2>. DEFINE F == {<<s, f>>} \cap (Session \X filter[c])
              q == Reported("files", F)
  <2>1. /\ shared' = [shared EXCEPT ![c] = @ \cup {<<s, f>>}]
        /\ wire' = [wire EXCEPT ![c] = @ \o q]
        /\ ServerAlone(c) /\ login' = login /\ owed' = owed
    BY <1>3 DEF UserShares, Says
  <2>2. F \in SUBSET Node
    BY DEF Node
  <2>. HIDE DEF F
  <2>3. Change("files", F) \in Data /\ \A y : ~Removes(Change("files", F), y)
    BY <2>2, ChangeType, Zenon
  <2>4. q \in Seq(Message) /\ \A i \in DOMAIN q : q[i] = Change("files", F)
    BY <2>3, ReportedType
  <2>5. shared' \in [Conn -> SUBSET Node]
    BY <1>0, <2>1 DEF Node
  <2>. HIDE DEF q
  <2>6. \A i \in DOMAIN q : q[i] \in Data /\ \A y \in owed'[c] : ~Removes(q[i], y)
    BY <2>3, <2>4
  <2>. QED
    BY <1>0, <1>1, <2>1, <2>4, <2>5, <2>6 DEF ServerSays
<1>4. ASSUME NEW f \in Name, UserUnshares(c, s, f)
      PROVE  ServerSays(c)
  <2>. DEFINE F == {<<s, f>>} \cap (Session \X filter[c])
              q == Reported("gone", F)
  <2>1. /\ shared' = [shared EXCEPT ![c] = @ \ {<<s, f>>}]
        /\ owed' = [owed EXCEPT ![c] = @ \ {<<s, f>>}]
        /\ wire' = [wire EXCEPT ![c] = @ \o q]
        /\ ServerAlone(c) /\ login' = login
    BY <1>4 DEF UserUnshares, Says
  <2>2. F \in SUBSET Node /\ F \subseteq {<<s, f>>}
    BY DEF Node
  <2>. HIDE DEF F
  <2>3. Change("gone", F) \in Data /\ \A y : Removes(Change("gone", F), y) => y \in F
    BY <2>2, ChangeType, Zenon
  <2>4. q \in Seq(Message) /\ \A i \in DOMAIN q : q[i] = Change("gone", F)
    BY <2>3, ReportedType
  <2>5. shared' \in [Conn -> SUBSET Node]
    BY <1>0, <2>1
  <2>6. /\ owed' \in [Conn -> SUBSET Node] /\ \A d \in Conn : owed'[d] \subseteq owed[d]
        /\ owed'[c] = owed[c] \ {<<s, f>>}
    BY <1>0, <2>1
  <2>. HIDE DEF q
  <2>7. \A i \in DOMAIN q : q[i] \in Data /\ \A y \in owed'[c] : ~Removes(q[i], y)
    BY <2>2, <2>3, <2>4, <2>6
  <2>. QED
    BY <1>0, <1>1, <2>1, <2>4, <2>5, <2>6, <2>7 DEF ServerSays
<1>5. ASSUME UserLeaves(c, s)
      PROVE  ServerSays(c)
  <2>. DEFINE x == Farewell(c, s)
              q == IF x = NoChange THEN <<>> ELSE <<x>>
  <2>1. /\ login' = [login EXCEPT ![c][s] = NoName]
        /\ shared' = [shared EXCEPT ![c] = {y \in @ : y[1] # s}]
        /\ owed' = [owed EXCEPT ![c] = {y \in @ : y[1] # s}]
        /\ wire' = [wire EXCEPT ![c] = @ \o q]
        /\ ServerAlone(c)
    BY <1>5 DEF UserLeaves, Says
  <2>2. x = [left |-> IF login[c][s] = NoName THEN {} ELSE {s},
             gone |-> {y \in shared[c] : y[1] = s /\ y[2] \in filter[c]},
             users |-> {}, files |-> {}]
    <3>. DEFINE L == IF login[c][s] = NoName THEN {} ELSE {s}
                G == {y \in shared[c] : y[1] = s /\ y[2] \in filter[c]}
    <3>1. x = [NoChange EXCEPT !.left = L, !.gone = G]
      BY DEF Farewell
    <3>. HIDE DEF L, G, x
    <3>2. x = [left |-> L, gone |-> G, users |-> {}, files |-> {}]
      BY <3>1 DEF NoChange
    <3>. QED
      BY <3>2 DEF L, G
  <2>3. x \in Data /\ \A y : Removes(x, y) => y[1] = s
    <3>1. {y \in shared[c] : y[1] = s /\ y[2] \in filter[c]} \subseteq Node
      BY <1>0
    <3>2. x.left \subseteq {s} /\ x.gone = {y \in shared[c] : y[1] = s /\ y[2] \in filter[c]}
      BY <2>2
    <3>3. x \in Data
      <4>. DEFINE L == IF login[c][s] = NoName THEN {} ELSE {s}
                  G == {y \in shared[c] : y[1] = s /\ y[2] \in filter[c]}
      <4>1. L \in SUBSET Session /\ G \in SUBSET Node
        BY <3>1
      <4>2. x = [left |-> L, gone |-> G, users |-> {}, files |-> {}]
        BY <2>2
      <4>. HIDE DEF L, G, x
      <4>. QED
        BY <4>1, <4>2 DEF Data
    <3>. HIDE DEF x
    <3>. QED
      BY <3>2, <3>3 DEF Removes
  <2>. HIDE DEF x
  <2>4. <<x>> \in Seq(Message) /\ DOMAIN <<x>> = {1} /\ <<x>>[1] = x
    BY <2>3, OneMessage
  <2>5. <<>> \in Seq(Message) /\ DOMAIN <<>> = {}
    BY EmptySeq
  <2>6. q \in Seq(Message) /\ \A i \in DOMAIN q : q[i] = x
    BY <2>4, <2>5
  <2>7. login' \in [Conn -> [Session -> UserName \cup {NoName}]]
    BY <1>0, <2>1
  <2>8. shared' \in [Conn -> SUBSET Node]
    BY <1>0, <2>1
  <2>9. /\ owed' \in [Conn -> SUBSET Node] /\ \A d \in Conn : owed'[d] \subseteq owed[d]
        /\ owed'[c] = {y \in owed[c] : y[1] # s}
    BY <1>0, <2>1
  <2>. HIDE DEF q
  <2>10. \A i \in DOMAIN q : q[i] \in Data /\ \A y \in owed'[c] : ~Removes(q[i], y)
    BY <2>3, <2>6, <2>9
  <2>. QED
    BY <1>1, <2>1, <2>6, <2>7, <2>8, <2>9, <2>10 DEF ServerSays
<1>. QED
  BY <1>2, <1>3, <1>4, <1>5

NotRemoved(q, i, y) == \A j \in DOMAIN q : j > i /\ q[j] \in Data => ~Removes(q[j], y)

(* The message that brings y, with nothing behind it that takes it away,   *)
(* and in front of every pong that answers the n-th ping or a later one.   *)
Brings(q, i, y, n) ==
  /\ q[i] \in Data /\ y \in q[i].files /\ NotRemoved(q, i, y)
  /\ \A j \in DOMAIN q : j <= i /\ q[j] \in Pong => q[j].count < n

LEMMA AnswerBrings ==
  ASSUME Typed, NEW c \in Conn, NEW E \in SUBSET Name, NEW q \in Seq(Message)
  PROVE  LET w == q \o Reported("files", Matching(c, E)) \o <<[count |-> pingCount[c]]>> IN
         /\ w \in Seq(Message)
         /\ PongsBelow(q, pingCount[c]) =>
              /\ PongsBelow(w, pingCount[c] + 1)
              /\ \A y \in Matching(c, E) : \E i \in DOMAIN w : Brings(w, i, y, pingCount[c])
<1>. DEFINE M == Matching(c, E)
            r == Reported("files", M)
            p == [count |-> pingCount[c]]
            n == pingCount[c]
            u == q \o r
            w == u \o <<p>>
<1>1. n \in Nat /\ M \in SUBSET Node
  BY QueryAssumption DEF Typed, Matching
<1>2. p \in Pong /\ p \in Message /\ p.count = n
  BY <1>1 DEF Pong, Message
<1>3. Change("files", M) \in Data /\ Change("files", M).files = M
      /\ \A y : ~Removes(Change("files", M), y)
  BY <1>1, ChangeType, Zenon
<1>. HIDE DEF M
<1>4. /\ r \in Seq(Message) /\ \A i \in DOMAIN r : r[i] = Change("files", M)
      /\ M # {} => 1 \in DOMAIN r
  BY <1>3, ReportedType
<1>. HIDE DEF r, p, n
<1>5. <<p>> \in Seq(Message) /\ DOMAIN <<p>> = {1} /\ <<p>>[1] = p /\ Len(<<p>>) = 1
  BY <1>2
<1>6. /\ u \in Seq(Message)
      /\ \A i \in DOMAIN q : i \in DOMAIN u /\ u[i] = q[i]
      /\ \A j \in DOMAIN r : Len(q) + j \in DOMAIN u /\ u[Len(q) + j] = r[j]
      /\ \A i \in DOMAIN u :
           \/ i \in DOMAIN q
           \/ \E j \in DOMAIN r : i = Len(q) + j
  BY <1>4, Joined
<1>. HIDE DEF u
<1>7. /\ w \in Seq(Message)
      /\ \A i \in DOMAIN u : i \in DOMAIN w /\ w[i] = u[i]
      /\ \A j \in DOMAIN <<p>> : Len(u) + j \in DOMAIN w /\ w[Len(u) + j] = <<p>>[j]
      /\ \A i \in DOMAIN w :
           \/ i \in DOMAIN u
           \/ \E j \in DOMAIN <<p>> : i = Len(u) + j
  BY <1>5, <1>6, Joined
<1>. HIDE DEF w
<1>8. /\ DOMAIN q = 1..Len(q) /\ Len(q) \in Nat /\ DOMAIN u = 1..Len(u) /\ Len(u) \in Nat
      /\ DOMAIN r = 1..Len(r) /\ Len(r) \in Nat
      /\ DOMAIN w = 1..Len(w) /\ Len(w) \in Nat
  BY <1>4, <1>6, <1>7, LenProperties
<1>9. \A i \in DOMAIN w :
        \/ i \in DOMAIN q /\ w[i] = q[i]
        \/ i > Len(q) /\ i \in DOMAIN u /\ w[i] = Change("files", M)
        \/ i = Len(u) + 1 /\ w[i] = p
  <2>1. ASSUME NEW i \in DOMAIN u
        PROVE  \/ i \in DOMAIN q /\ w[i] = q[i]
               \/ i > Len(q) /\ w[i] = Change("files", M)
    <3>1. CASE i \in DOMAIN q
      BY <1>6, <1>7, <3>1
    <3>2. ASSUME NEW j \in DOMAIN r, i = Len(q) + j
          PROVE  i > Len(q) /\ w[i] = Change("files", M)
      BY <1>4, <1>6, <1>7, <1>8, <3>2
    <3>. QED
      BY <1>6, <3>1, <3>2
  <2>2. ASSUME NEW i \in DOMAIN w, NEW j \in DOMAIN <<p>>, i = Len(u) + j
        PROVE  i = Len(u) + 1 /\ w[i] = p
    BY <1>5, <1>7, <2>2
  <2>. QED
    BY <1>7, <2>1, <2>2
<1>10. ASSUME PongsBelow(q, n)
       PROVE  PongsBelow(w, n + 1)
  <2>1. SUFFICES ASSUME NEW i \in DOMAIN w, w[i] \in Pong
                 PROVE  w[i].count < n + 1
    BY DEF PongsBelow
  <2>2. CASE i \in DOMAIN q /\ w[i] = q[i]
    <3>1. w[i].count < n /\ w[i].count \in Nat
      BY <1>10, <2>1, <2>2 DEF PongsBelow, Pong
    <3>. QED
      BY <1>1, <3>1
  <2>3. CASE w[i] = Change("files", M)
    BY <1>3, <2>1, <2>3, DataIsNoPong
  <2>4. CASE w[i] = p
    BY <1>1, <1>2, <2>4
  <2>. QED
    BY <1>9, <2>2, <2>3, <2>4
<1>11. ASSUME PongsBelow(q, n), NEW y \in M
       PROVE  \E i \in DOMAIN w : Brings(w, i, y, n)
  <2>. DEFINE i == Len(q) + 1
  <2>1. i \in DOMAIN u /\ i \in DOMAIN w /\ w[i] = Change("files", M)
    BY <1>4, <1>6, <1>7, <1>11
  <2>2. w[i] \in Data /\ y \in w[i].files
    BY <1>3, <1>11, <2>1
  <2>3. NotRemoved(w, i, y)
    <3>1. SUFFICES ASSUME NEW j \in DOMAIN w, j > i, w[j] \in Data
                   PROVE  ~Removes(w[j], y)
      BY DEF NotRemoved
    <3>2. j \notin DOMAIN q
      BY <1>8, <3>1
    <3>3. w[j] # p
      BY <1>2, <3>1, DataIsNoPong
    <3>. QED
      BY <1>3, <1>9, <3>2, <3>3
  <2>4. ASSUME NEW j \in DOMAIN w, j <= i, w[j] \in Pong
        PROVE  w[j].count < n
    <3>1. j # Len(u) + 1
      BY <1>8, <2>1, <2>4
    <3>2. w[j] # Change("files", M)
      BY <1>3, <2>4, DataIsNoPong
    <3>3. j \in DOMAIN q /\ w[j] = q[j]
      BY <1>9, <3>1, <3>2
    <3>. QED
      BY <1>11, <2>4, <3>3 DEF PongsBelow
  <2>. QED
    BY <2>1, <2>2, <2>3, <2>4 DEF Brings
<1>. QED
  BY <1>7, <1>10, <1>11 DEF w, u, r, p, n, M

LEMMA HeadOff ==
  ASSUME NEW q \in Seq(Message), q # <<>>
  PROVE  /\ 1 \in DOMAIN q /\ Head(q) = q[1] /\ Head(q) \in Message
         /\ Tail(q) \in Seq(Message)
         /\ \A i \in DOMAIN Tail(q) : i \in Nat \ {0} /\ i + 1 \in DOMAIN q /\ Tail(q)[i] = q[i + 1]
         /\ \A j \in DOMAIN q : j # 1 => j \in Nat /\ j - 1 \in DOMAIN Tail(q) /\ Tail(q)[j - 1] = q[j]
<1>1. /\ Len(q) \in Nat \ {0} /\ DOMAIN q = 1..Len(q)
      /\ Head(q) \in Message /\ Tail(q) \in Seq(Message)
      /\ Len(Tail(q)) = Len(q) - 1
      /\ \A i \in 1..Len(Tail(q)) : Tail(q)[i] = q[i + 1]
  BY EmptySeq, LenProperties, HeadTailProperties
<1>2. DOMAIN Tail(q) = 1..(Len(q) - 1)
  BY <1>1, LenProperties
<1>3. Head(q) = q[1]
  BY DEF Head
<1>4. \A j \in DOMAIN q : j # 1 => j \in Nat /\ j - 1 \in 1..(Len(q) - 1) /\ (j - 1) + 1 = j
  BY <1>1
<1>5. \A i \in DOMAIN Tail(q) : i \in Nat \ {0} /\ i + 1 \in DOMAIN q /\ Tail(q)[i] = q[i + 1]
  BY <1>1, <1>2
<1>6. \A j \in DOMAIN q : j # 1 => Tail(q)[j - 1] = q[j]
  BY <1>1, <1>2, <1>4
<1>. QED
  BY <1>1, <1>2, <1>3, <1>4, <1>5, <1>6
-----------------------------------------------------------------------------
(* The kinds of steps, by what they do to the window, and types.           *)

Received(c, x) ==
  /\ stage[c] = "connected"
  /\ wire[c] # <<>> /\ x = wire[c][1]
  /\ wire' = [wire EXCEPT ![c] = Tail(@)]
  /\ UNCHANGED <<stage, active, matcher, pingCount, login, shared, filter, owed>>

PongHandled(c, x) ==
  /\ UNCHANGED <<timer, users, told>>
  /\ IF AnswersLatest(c, x)
       THEN FlushedBut({}) /\ sweeping' = [sweeping EXCEPT ![c] = FALSE]
       ELSE UNCHANGED <<pending, dirty, model, sweeping>>

DataTold(c, x) ==
  /\ DataHandled(c, x)
  /\ dirty' = (dirty \/ x.users # {})
  /\ timer' = (timer \/ x.users # {} \/ Accepted(c, x) # {})
  /\ told' = [told EXCEPT ![c] = {y \in @ \ x.gone : y[1] \notin x.left} \cup Accepted(c, x)]
  /\ UNCHANGED sweeping

(* The rows of the connections S have gone, and no others.                 *)
Cleared(S) ==
  /\ ModelOK(model')
  /\ \A e : Has(model'.rows, e) <=> Has(model.rows, e) /\ e.connection \notin S

(* What StopQueries does where S are the connections that had a query.     *)
Stopping(S) ==
  /\ timer' = timer
  /\ IF S = {} THEN UNCHANGED windowVars ELSE FlushedBut(S)

LEMMA MessageKinds ==
  ASSUME Typed, NEW c \in Conn, MessageReceived(c)
  PROVE  \E x \in Message :
           /\ Received(c, x)
           /\ \/ x \in Pong /\ PongHandled(c, x)
              \/ x \in Data /\ DataTold(c, x)
<1>. DEFINE x == Head(wire[c])
<1>1. wire[c] \in Seq(Message) /\ wire[c] # <<>>
  BY DEF Typed, Message, MessageReceived
<1>2. x = wire[c][1] /\ x \in Message
  BY <1>1, HeadOff
<1>3. IF x \in Pong THEN HandlePong(c, x) ELSE HandleDataItems(c, x)
  BY DEF MessageReceived
<1>. HIDE DEF x
<1>4. Received(c, x)
  BY <1>2 DEF MessageReceived, Received
<1>5. CASE x \in Pong
  <2>1. HandlePong(c, x)
    BY <1>3, <1>5
  <2>2. AnswersLatest(c, x) => FlushedBut({})
    BY <2>1, FlushAll DEF HandlePong
  <2>3. PongHandled(c, x)
    BY <2>1, <2>2 DEF HandlePong, PongHandled
  <2>. QED
    BY <1>2, <1>4, <1>5, <2>3
<1>6. CASE x \notin Pong
  <2>1. HandleDataItems(c, x) /\ x \in Data
    BY <1>2, <1>3, <1>6 DEF Message
  <2>2. DataHandled(c, x)
    BY <2>1, DataShows
  <2>3. DataTold(c, x)
    BY <2>1, <2>2 DEF DataTold, HandleDataItems
  <2>. QED
    BY <1>2, <1>4, <2>1, <2>3
<1>. QED
  BY <1>5, <1>6

LEMMA StopKind ==
  ASSUME Typed, NEW C, StopQueries(C)
  PROVE  Stopping(C \cap Active)
  BY StoppedShows DEF Stopping

LEMMA ClearedKind ==
  ASSUME Typed, NEW C, model' = RemoveResultsForConnections(model, C)
  PROVE  Cleared(C)
<1>1. ModelOK(model)
  BY DEF Typed
<1>. QED
  BY <1>1, RemovedConnections DEF Cleared

LEMMA GoneType ==
  ASSUME Typed, NEW C, ServersGone(C)
  PROVE  /\ login' \in [Conn -> [Session -> UserName \cup {NoName}]]
         /\ shared' \in [Conn -> SUBSET Node]
         /\ filter' \in [Conn -> SUBSET Name]
         /\ wire' \in [Conn -> Seq(Data \cup Pong)]
         /\ sweeping' \in [Conn -> BOOLEAN]
         /\ owed' \in [Conn -> SUBSET Node]
         /\ told' \in [Conn -> SUBSET Node]
<1>1. Forgotten \in [Session -> UserName \cup {NoName}]
  BY DEF Forgotten
<1>2. <<>> \in Seq(Data \cup Pong)
  BY EmptySeq
<1>3. /\ login \in [Conn -> [Session -> UserName \cup {NoName}]]
      /\ login' = [c \in Conn |-> IF c \in C THEN Forgotten ELSE login[c]]
  BY DEF Typed, ServersGone
<1>4. login' \in [Conn -> [Session -> UserName \cup {NoName}]]
  <2>. HIDE DEF Forgotten
  <2>. QED
    BY <1>1, <1>3
<1>5. /\ wire \in [Conn -> Seq(Data \cup Pong)]
      /\ wire' = [c \in Conn |-> IF c \in C THEN <<>> ELSE wire[c]]
  BY DEF Typed, ServersGone
<1>6. wire' \in [Conn -> Seq(Data \cup Pong)]
  BY <1>2, <1>5
<1>7. /\ shared' \in [Conn -> SUBSET Node]
      /\ filter' \in [Conn -> SUBSET Name]
      /\ sweeping' \in [Conn -> BOOLEAN]
      /\ owed' \in [Conn -> SUBSET Node]
      /\ told' \in [Conn -> SUBSET Node]
  BY DEF Typed, ServersGone
<1>. QED
  BY <1>4, <1>6, <1>7

LEMMA FlushType ==
  ASSUME NEW S, FlushedBut(S)
  PROVE  pending' \in Seq(Entry) /\ dirty' \in BOOLEAN /\ ModelOK(model')
  BY EmptySeq DEF FlushedBut

LEMMA StopType ==
  ASSUME Typed, NEW S, Stopping(S)
  PROVE  pending' \in Seq(Entry) /\ dirty' \in BOOLEAN /\ ModelOK(model') /\ timer' \in BOOLEAN
<1>1. CASE S = {}
  BY <1>1 DEF Stopping, Typed, windowVars
<1>2. CASE S # {}
  BY <1>2, FlushType DEF Stopping, Typed
<1>. QED
  BY <1>1, <1>2

LEMMA TypeInit == Init => Typed
<1>1. SUFFICES ASSUME Init PROVE Typed
  OBVIOUS
<1>2. /\ <<>> \in Seq(Entry) /\ <<>> \in Seq(Data \cup Pong) /\ DOMAIN <<>> = {}
  BY EmptySeq
<1>3. ModelOK(model)
  <2>1. model = [rows |-> <<>>, index |-> <<>>]
    BY <1>1 DEF Init
  <2>2. model.rows = <<>> /\ model.index = <<>> /\ model = [rows |-> model.rows, index |-> model.index]
    BY <2>1
  <2>3. KeysOf(<<>>) = {}
    BY <1>2 DEF KeysOf
  <2>. QED
    BY <1>2, <2>2, <2>3 DEF ModelOK
<1>4. 0 \in 0..MaxQueries
  BY QueryAssumption
<1>5. /\ pending \in Seq(Entry) /\ dirty \in BOOLEAN /\ timer \in BOOLEAN
  BY <1>1, <1>2 DEF Init
<1>6. wire = [c \in Conn |-> <<>>]
  BY <1>1 DEF Init
<1>7. wire \in [Conn -> Seq(Data \cup Pong)]
  BY <1>2, <1>6
<1>8. /\ stage \in [Conn -> {"none", "connected", "down"}]
      /\ users \in [Conn -> [Session -> UserName \cup {NoName}]]
      /\ active \in [Conn -> BOOLEAN]
      /\ matcher \in [Conn -> SUBSET Name]
      /\ pingCount \in [Conn -> 0..MaxQueries]
  BY <1>1, <1>4 DEF Init
<1>9. /\ login \in [Conn -> [Session -> UserName \cup {NoName}]]
      /\ shared \in [Conn -> SUBSET Node]
      /\ filter \in [Conn -> SUBSET Name]
      /\ sweeping \in [Conn -> BOOLEAN]
      /\ owed \in [Conn -> SUBSET Node]
      /\ told \in [Conn -> SUBSET Node]
  BY <1>1 DEF Init
<1>. QED
  BY <1>3, <1>5, <1>7, <1>8, <1>9 DEF Typed

LEMMA TypeReceived ==
  ASSUME Typed, NEW c \in Conn, MessageReceived(c)
  PROVE  Typed'
<1>1. PICK x \in Message :
        /\ Received(c, x)
        /\ \/ x \in Pong /\ PongHandled(c, x)
           \/ x \in Data /\ DataTold(c, x)
  BY MessageKinds
<1>2. /\ stage' \in [Conn -> {"none", "connected", "down"}]
      /\ active' \in [Conn -> BOOLEAN]
      /\ matcher' \in [Conn -> SUBSET Name]
      /\ pingCount' \in [Conn -> 0..MaxQueries]
      /\ login' \in [Conn -> [Session -> UserName \cup {NoName}]]
      /\ shared' \in [Conn -> SUBSET Node]
      /\ filter' \in [Conn -> SUBSET Name]
      /\ owed' \in [Conn -> SUBSET Node]
  BY <1>1 DEF Typed, Received
<1>3. wire' \in [Conn -> Seq(Data \cup Pong)]
  <2>1. wire[c] \in Seq(Message) /\ wire[c] # <<>> /\ wire' = [wire EXCEPT ![c] = Tail(wire[c])]
    BY <1>1 DEF Typed, Received, Message
  <2>2. Tail(wire[c]) \in Seq(Message)
    BY <2>1, HeadOff
  <2>. QED
    BY <2>1, <2>2 DEF Typed, Message
<1>4. CASE x \in Pong /\ PongHandled(c, x)
  <2>1. /\ users' \in [Conn -> [Session -> UserName \cup {NoName}]]
        /\ timer' \in BOOLEAN /\ told' \in [Conn -> SUBSET Node]
    BY <1>4 DEF PongHandled, Typed
  <2>2. sweeping' \in [Conn -> BOOLEAN]
    BY <1>4 DEF PongHandled, Typed
  <2>3. pending' \in Seq(Entry) /\ dirty' \in BOOLEAN /\ ModelOK(model')
    <3>1. CASE AnswersLatest(c, x)
      BY <1>4, <3>1, FlushType DEF PongHandled
    <3>2. CASE ~AnswersLatest(c, x)
      BY <1>4, <3>2 DEF PongHandled, Typed
    <3>. QED
      BY <3>1, <3>2
  <2>. QED
    BY <1>2, <1>3, <2>1, <2>2, <2>3 DEF Typed
<1>5. CASE x \in Data /\ DataTold(c, x)
  <2>1. users' \in [Conn -> [Session -> UserName \cup {NoName}]]
    BY <1>5, KnownType DEF DataTold, DataHandled
  <2>2. pending' \in Seq(Entry) /\ ModelOK(model')
    BY <1>5 DEF DataTold, DataHandled
  <2>3. dirty' \in BOOLEAN /\ timer' \in BOOLEAN /\ sweeping' \in [Conn -> BOOLEAN]
    BY <1>5 DEF DataTold, Typed
  <2>4. told' \in [Conn -> SUBSET Node]
    <3>1. Accepted(c, x) \subseteq Node
      BY <1>5 DEF Accepted, Data
    <3>. QED
      BY <1>5, <3>1 DEF DataTold, Typed
  <2>. QED
    BY <1>2, <1>3, <2>1, <2>2, <2>3, <2>4 DEF Typed
<1>. QED
  BY <1>1, <1>4, <1>5

LEMMA TypeStop ==
  ASSUME Typed, StopQueryOnAll
  PROVE  Typed'
<1>1. pending' \in Seq(Entry) /\ dirty' \in BOOLEAN /\ ModelOK(model') /\ timer' \in BOOLEAN
  BY StopKind, StopType DEF StopQueryOnAll
<1>2. wire' \in [Conn -> Seq(Data \cup Pong)]
  BY UnsubscribedType DEF StopQueryOnAll, Typed, Message
<1>3. /\ stage' \in [Conn -> {"none", "connected", "down"}]
      /\ users' \in [Conn -> [Session -> UserName \cup {NoName}]]
      /\ active' \in [Conn -> BOOLEAN]
      /\ matcher' \in [Conn -> SUBSET Name]
      /\ pingCount' \in [Conn -> 0..MaxQueries]
      /\ login' \in [Conn -> [Session -> UserName \cup {NoName}]]
      /\ shared' \in [Conn -> SUBSET Node]
  BY DEF StopQueryOnAll, Typed
<1>4. /\ filter' \in [Conn -> SUBSET Name]
      /\ sweeping' \in [Conn -> BOOLEAN]
      /\ owed' \in [Conn -> SUBSET Node]
      /\ told' \in [Conn -> SUBSET Node]
  BY DEF StopQueryOnAll, Typed
<1>. QED
  BY <1>1, <1>2, <1>3, <1>4 DEF Typed

LEMMA TypeStart ==
  ASSUME Typed, NEW E \in Pattern, StartQueryOnAll(E)
  PROVE  Typed'
<1>1. pending' \in Seq(Entry) /\ dirty' \in BOOLEAN /\ ModelOK(model') /\ timer' \in BOOLEAN
  BY StopKind, StopType DEF StartQueryOnAll
<1>2. E \in SUBSET Name
  BY QueryAssumption
<1>3. wire' \in [Conn -> Seq(Data \cup Pong)]
  <2>1. PICK w \in Unsubscribed(Connected) :
          wire' = [c \in Conn |->
                    IF c \in Connected
                      THEN w[c] \o Reported("files", Matching(c, E)) \o <<[count |-> pingCount[c]]>>
                      ELSE w[c]]
    BY DEF StartQueryOnAll
  <2>2. w \in [Conn -> Seq(Message)]
    BY UnsubscribedType DEF Typed, Message
  <2>3. \A c \in Conn :
          w[c] \o Reported("files", Matching(c, E)) \o <<[count |-> pingCount[c]]>> \in Seq(Message)
    BY <1>2, <2>2, AnswerBrings
  <2>. QED
    BY <2>1, <2>2, <2>3 DEF Message
<1>4. /\ stage' \in [Conn -> {"none", "connected", "down"}]
      /\ users' \in [Conn -> [Session -> UserName \cup {NoName}]]
      /\ active' \in [Conn -> BOOLEAN]
      /\ matcher' \in [Conn -> SUBSET Name]
      /\ login' \in [Conn -> [Session -> UserName \cup {NoName}]]
      /\ shared' \in [Conn -> SUBSET Node]
  BY <1>2 DEF StartQueryOnAll, Typed
<1>5. pingCount' \in [Conn -> 0..MaxQueries]
  <2>1. \A c \in Conn : c \in Connected => pingCount[c] + 1 \in 0..MaxQueries
    BY QueryAssumption DEF StartQueryOnAll, Typed
  <2>. QED
    BY <2>1 DEF StartQueryOnAll, Typed
<1>6. /\ filter' \in [Conn -> SUBSET Name]
      /\ sweeping' \in [Conn -> BOOLEAN]
  BY <1>2 DEF StartQueryOnAll, Typed
<1>7. owed' \in [Conn -> SUBSET Node] /\ told' \in [Conn -> SUBSET Node]
  <2>1. \A c \in Conn : Matching(c, E) \subseteq Node
    BY DEF Typed, Matching
  <2>. QED
    BY <2>1 DEF StartQueryOnAll, Typed
<1>. QED
  BY <1>1, <1>3, <1>4, <1>5, <1>6, <1>7 DEF Typed

LEMMA TypeGone ==
  ASSUME Typed, DisconnectAll \/ \E c \in Conn : SessionDisconnected(c)
  PROVE  Typed'
<1>1. PICK C : ServersGone(C)
  BY DEF DisconnectAll, SessionDisconnected
<1>2. /\ login' \in [Conn -> [Session -> UserName \cup {NoName}]]
      /\ shared' \in [Conn -> SUBSET Node]
      /\ filter' \in [Conn -> SUBSET Name]
      /\ wire' \in [Conn -> Seq(Data \cup Pong)]
      /\ sweeping' \in [Conn -> BOOLEAN]
      /\ owed' \in [Conn -> SUBSET Node]
      /\ told' \in [Conn -> SUBSET Node]
  BY <1>1, GoneType
<1>3. ModelOK(model')
  BY ClearedKind DEF DisconnectAll, SessionDisconnected, Cleared
<1>4. <<>> \in Seq(Entry) /\ Forgotten \in [Session -> UserName \cup {NoName}]
  BY EmptySeq DEF Forgotten
<1>5. CASE DisconnectAll
  <2>1. users' \in [Conn -> [Session -> UserName \cup {NoName}]] /\ pending' \in Seq(Entry)
    BY <1>4, <1>5 DEF DisconnectAll
  <2>2. /\ stage' \in [Conn -> {"none", "connected", "down"}]
        /\ active' \in [Conn -> BOOLEAN]
        /\ matcher' \in [Conn -> SUBSET Name]
        /\ pingCount' \in [Conn -> 0..MaxQueries]
        /\ dirty' \in BOOLEAN /\ timer' \in BOOLEAN
    BY <1>5 DEF DisconnectAll, Typed
  <2>. QED
    BY <1>2, <1>3, <2>1, <2>2 DEF Typed
<1>6. ASSUME NEW c \in Conn, SessionDisconnected(c)
      PROVE  Typed'
  <2>1. users' \in [Conn -> [Session -> UserName \cup {NoName}]]
    BY <1>4, <1>6 DEF SessionDisconnected, Typed
  <2>2. /\ stage' \in [Conn -> {"none", "connected", "down"}]
        /\ active' \in [Conn -> BOOLEAN]
        /\ matcher' \in [Conn -> SUBSET Name]
        /\ pingCount' \in [Conn -> 0..MaxQueries]
        /\ pending' \in Seq(Entry) /\ dirty' \in BOOLEAN /\ timer' \in BOOLEAN
    BY <1>6 DEF SessionDisconnected, Typed
  <2>. QED
    BY <1>2, <1>3, <2>1, <2>2 DEF Typed
<1>. QED
  BY <1>5, <1>6

LEMMA TypeOthers ==
  ASSUME Typed,
         \/ TimerFires
         \/ \E c \in Conn : SessionConnected(c) \/ ServerSays(c)
         \/ UNCHANGED vars
  PROVE  Typed'
<1>1. CASE TimerFires
  <2>1. pending' \in Seq(Entry) /\ dirty' \in BOOLEAN /\ ModelOK(model')
    BY <1>1, FlushAll, FlushType DEF TimerFires
  <2>. QED
    BY <1>1, <2>1 DEF TimerFires, Typed, clientVars, serverVars
<1>2. ASSUME NEW c \in Conn, SessionConnected(c)
      PROVE  Typed'
  <2>. DEFINE S == {x \in Session \X UserName : login[c][x[1]] = x[2]}
  <2>1. Change("users", S) \in Data
    BY ChangeType
  <2>2. wire' = [wire EXCEPT ![c] = Reported("users", S)]
    BY <1>2 DEF SessionConnected
  <2>. HIDE DEF S
  <2>3. Reported("users", S) \in Seq(Message)
    BY <2>1, ReportedType
  <2>4. wire' \in [Conn -> Seq(Data \cup Pong)]
    BY <2>2, <2>3 DEF Typed, Message
  <2>5. stage' \in [Conn -> {"none", "connected", "down"}]
    BY <1>2 DEF SessionConnected, Typed
  <2>. QED
    BY <1>2, <2>4, <2>5 DEF SessionConnected, Typed, windowVars
<1>3. ASSUME NEW c \in Conn, ServerSays(c)
      PROVE  Typed'
  <2>1. PICK q \in Seq(Message) : wire' = [wire EXCEPT ![c] = @ \o q]
    BY <1>3 DEF ServerSays
  <2>2. wire[c] \in Seq(Message)
    BY DEF Typed, Message
  <2>3. wire[c] \o q \in Seq(Message)
    BY <2>2, ConcatProperties
  <2>4. wire' \in [Conn -> Seq(Data \cup Pong)]
    BY <2>1, <2>3 DEF Typed, Message
  <2>. QED
    BY <1>3, <2>4 DEF ServerSays, Typed, clientVars, windowVars
<1>4. CASE UNCHANGED vars
  BY <1>4 DEF Typed, vars, clientVars, windowVars, serverVars
<1>. QED
  BY <1>1, <1>2, <1>3, <1>4

(* A step is one of these.                                                 *)
LEMMA StepKinds ==
  ASSUME Typed, [Next]_vars
  PROVE  \/ TimerFires
         \/ StopQueryOnAll
         \/ \E E \in Pattern : StartQueryOnAll(E)
         \/ DisconnectAll
         \/ \E c \in Conn : \/ MessageReceived(c)
                            \/ SessionDisconnected(c)
                            \/ SessionConnected(c)
                            \/ ServerSays(c)
         \/ UNCHANGED vars
<1>1. ASSUME NEW c \in Conn, NEW s \in Session,
             \/ \E n \in UserName : UserNamesItself(c, s, n)
             \/ \E f \in Name : UserShares(c, s, f) \/ UserUnshares(c, s, f)
             \/ UserLeaves(c, s)
      PROVE  ServerSays(c)
  BY <1>1, NewsIsServerSays
<1>. QED
  BY <1>1, Zenon DEF Next

LEMMA TypeStep == Typed /\ [Next]_vars => Typed'
<1>1. SUFFICES ASSUME Typed, [Next]_vars PROVE Typed'
  OBVIOUS
<1>. QED
  BY <1>1, StepKinds, TypeReceived, TypeStop, TypeStart, TypeGone, TypeOthers

(* The client's, the window's and the servers' variables have their types, *)
(* and every key that the model's index has leads to a row with that key,  *)
(* which RemoveResult and AddResults rely on (FileResultModel.cpp).        *)
THEOREM TypeCorrect == Spec => []TypeOK
<1>1. Typed => TypeOK
  BY DEF Typed, TypeOK, ModelOK
<1>. QED
  BY <1>1, TypeInit, TypeStep, PTL DEF Spec
-----------------------------------------------------------------------------
(* One query at a time. *)

LEMMA BelongHeld ==
  OneQueryAtATime <=> \A e : Held(e) => Belongs(e)
  BY DEF OneQueryAtATime, Held, Has

LEMMA FlushBelongs ==
  ASSUME NEW S, FlushedBut(S),
         \A d \in Entry : Held(d) /\ d.connection \notin S =>
           active'[d.connection] /\ d.name \in matcher'[d.connection]
  PROVE  OneQueryAtATime'
<1>1. pending' = <<>> /\ ModelOK(model')
  BY DEF FlushedBut
<1>2. ASSUME NEW i \in DOMAIN model'.rows
      PROVE  LET e == model'.rows[i] IN
             active'[e.connection] /\ e.name \in matcher'[e.connection]
  <2>. DEFINE e == model'.rows[i]
  <2>1. PICK d \in Entry : Held(d) /\ d.connection \notin S /\ Key(e) = Key(d)
    BY DEF FlushedBut
  <2>2. e \in Entry
    BY <1>1, HasEntry DEF ModelOK
  <2>. HIDE DEF e
  <2>3. e.connection = d.connection /\ e.name = d.name
    BY <2>1, <2>2, EntryOK
  <2>. QED
    BY <2>1, <2>3 DEF e
<1>3. DOMAIN pending' = {}
  BY <1>1, EmptySeq
<1>. QED
  BY <1>2, <1>3 DEF OneQueryAtATime, Belongs

LEMMA QueryStep ==
  Typed /\ OneQueryAtATime /\ [Next]_vars => OneQueryAtATime'
<1>. SUFFICES ASSUME Typed, OneQueryAtATime, [Next]_vars
              PROVE  OneQueryAtATime'
  OBVIOUS
<1>0. /\ active \in [Conn -> BOOLEAN] /\ matcher \in [Conn -> SUBSET Name]
      /\ stage \in [Conn -> {"none", "connected", "down"}]
      /\ pending \in Seq(Entry) /\ ModelOK(model)
      /\ \A e : Held(e) => active[e.connection] /\ e.name \in matcher[e.connection]
  BY BelongHeld DEF Typed, Belongs
<1>00. \A e \in Entry : e.connection \in Conn
  BY DEF Entry
<1>1. CASE TimerFires
  <2>1. FlushedBut({}) /\ active' = active /\ matcher' = matcher
    BY <1>1, FlushAll DEF TimerFires, clientVars
  <2>. QED
    BY <1>0, <2>1, FlushBelongs
<1>2. CASE StopQueryOnAll
  <2>1. Stopping(Conn \cap Active) /\ Conn \cap Active = Active /\ Active # {}
    BY <1>2, StopKind DEF StopQueryOnAll, Active
  <2>2. FlushedBut(Active)
    BY <2>1 DEF Stopping
  <2>3. \A d \in Entry : Held(d) => d.connection \in Active
    BY <1>0, <1>00 DEF Active
  <2>. QED
    BY <2>2, <2>3, FlushBelongs
<1>3. ASSUME NEW E \in Pattern, StartQueryOnAll(E)
      PROVE  OneQueryAtATime'
  <2>. DEFINE S == Connected \cap Active
  <2>1. Stopping(S)
    BY <1>3, StopKind DEF StartQueryOnAll
  <2>2. /\ active' = [c \in Conn |-> active[c] \/ c \in Connected]
        /\ matcher' = [c \in Conn |-> IF c \in Connected THEN E ELSE matcher[c]]
    BY <1>3 DEF StartQueryOnAll
  <2>3. \A d \in Entry : Held(d) /\ d.connection \notin S =>
          active'[d.connection] /\ d.name \in matcher'[d.connection]
    BY <1>0, <1>00, <2>2 DEF Active
  <2>4. CASE S # {}
    BY <2>1, <2>3, <2>4, FlushBelongs DEF Stopping
  <2>5. CASE S = {}
    <3>1. pending' = pending /\ model' = model
      BY <2>1, <2>5 DEF Stopping, windowVars
    <3>2. \A i \in DOMAIN pending : pending[i] \in Entry /\ Held(pending[i])
      BY <1>0, HasEntry DEF Held
    <3>3. \A i \in DOMAIN model.rows : model.rows[i] \in Entry /\ Held(model.rows[i])
      BY <1>0, HasEntry DEF Held, ModelOK
    <3>. HIDE DEF S
    <3>. QED
      BY <2>3, <2>5, <3>1, <3>2, <3>3 DEF OneQueryAtATime, Belongs
  <2>. QED
    BY <2>4, <2>5
<1>4. CASE DisconnectAll
  <2>1. pending' = <<>> /\ Cleared(Conn)
    BY <1>4, ClearedKind DEF DisconnectAll
  <2>2. \A e : ~Has(model'.rows, e)
    <3>1. \A e : Has(model.rows, e) => e.connection \in Conn
      BY <1>0, <1>00, HasEntry DEF ModelOK
    <3>. QED
      BY <2>1, <3>1 DEF Cleared
  <2>3. DOMAIN pending' = {}
    BY <2>1, EmptySeq
  <2>. QED
    BY <2>2, <2>3 DEF OneQueryAtATime, Has
<1>5. ASSUME NEW c \in Conn, MessageReceived(c)
      PROVE  OneQueryAtATime'
  <2>1. PICK x \in Message :
          /\ Received(c, x)
          /\ \/ x \in Pong /\ PongHandled(c, x)
             \/ x \in Data /\ DataTold(c, x)
    BY <1>5, MessageKinds
  <2>2. active' = active /\ matcher' = matcher
    BY <2>1 DEF Received
  <2>3. CASE x \in Pong /\ PongHandled(c, x)
    <3>1. CASE AnswersLatest(c, x)
      BY <1>0, <2>2, <2>3, <3>1, FlushBelongs DEF PongHandled
    <3>2. CASE ~AnswersLatest(c, x)
      BY <2>2, <2>3, <3>2 DEF PongHandled, OneQueryAtATime, Belongs
    <3>. QED
      BY <3>1, <3>2
  <2>4. CASE x \in Data /\ DataTold(c, x)
    <3>1. /\ \A e : Has(model'.rows, e) => Has(model.rows, e)
          /\ \A e : Has(pending', e) =>
               Has(pending, e) \/ \E y \in Accepted(c, x) : e = ResultOf(c, users'[c], y)
      BY <2>4 DEF DataTold, DataHandled
    <3>2. \A y \in Accepted(c, x) : LET e == ResultOf(c, users'[c], y) IN
            active[e.connection] /\ e.name \in matcher[e.connection]
      BY DEF Accepted, ResultOf
    <3>3. \A e : Has(model'.rows, e) \/ Has(pending', e) =>
            active'[e.connection] /\ e.name \in matcher'[e.connection]
      BY <1>0, <2>2, <3>1, <3>2 DEF Held
    <3>. QED
      BY <3>3 DEF OneQueryAtATime, Belongs, Has
  <2>. QED
    BY <2>1, <2>3, <2>4
<1>6. ASSUME NEW c \in Conn, SessionDisconnected(c)
      PROVE  OneQueryAtATime'
  <2>1. Cleared({c}) /\ pending' = pending /\ active' = active /\ matcher' = matcher
    BY <1>6, ClearedKind DEF SessionDisconnected
  <2>2. \A e : Has(model'.rows, e) \/ Has(pending', e) =>
          active'[e.connection] /\ e.name \in matcher'[e.connection]
    BY <1>0, <2>1 DEF Held, Cleared
  <2>. QED
    BY <2>2 DEF OneQueryAtATime, Belongs, Has
<1>7. ASSUME NEW c \in Conn, SessionConnected(c) \/ ServerSays(c)
      PROVE  OneQueryAtATime'
  <2>1. pending' = pending /\ model' = model /\ active' = active /\ matcher' = matcher
    BY <1>7 DEF SessionConnected, ServerSays, clientVars, windowVars
  <2>. QED
    BY <2>1 DEF OneQueryAtATime, Belongs
<1>8. CASE UNCHANGED vars
  BY <1>8 DEF vars, clientVars, windowVars, OneQueryAtATime, Belongs
<1>. QED
  BY <1>1, <1>2, <1>3, <1>4, <1>5, <1>6, <1>7, <1>8, StepKinds

LEMMA QueryInit == Init => OneQueryAtATime
<1>1. DOMAIN <<>> = {}
  BY EmptySeq
<1>. QED
  BY <1>1 DEF Init, OneQueryAtATime

(* The results of two queries are never mixed, whatever is late and        *)
(* whichever connection's end of sweep flushes (ServerConnection.cpp:715). *)
THEOREM OneQueryOnly == Spec => []OneQueryAtATime
<1>. QED
  BY TypeInit, TypeStep, QueryInit, QueryStep, PTL DEF Spec
-----------------------------------------------------------------------------
(* No result is lost. *)

NodeKey(c, y) == <<c, y[1], y[2]>>

LEMMA FlushKeeps ==
  ASSUME Typed, NEW S, FlushedBut(S), NEW c \in Conn, c \notin S, NEW y
  PROVE  NodeKey(c, y) \in KeysOf(model.rows) \cup KeysOf(pending)
           => NodeKey(c, y) \in KeysOf(model'.rows)
<1>1. model.rows \in Seq(Entry) /\ pending \in Seq(Entry)
  BY DEF Typed, ModelOK
<1>2. SUFFICES ASSUME NodeKey(c, y) \in KeysOf(model.rows) \cup KeysOf(pending)
               PROVE  NodeKey(c, y) \in KeysOf(model'.rows)
  OBVIOUS
<1>3. PICK e \in Entry : Held(e) /\ Key(e) = NodeKey(c, y)
  BY <1>1, <1>2, HasEntry DEF Held
<1>4. e.connection = c
  BY <1>3 DEF Key, NodeKey
<1>. QED
  BY <1>3, <1>4 DEF FlushedBut

LEMMA ClearedKeeps ==
  ASSUME Typed, NEW S, Cleared(S), NEW c \in Conn, c \notin S, NEW y
  PROVE  NodeKey(c, y) \in KeysOf(model.rows) => NodeKey(c, y) \in KeysOf(model'.rows)
<1>1. model.rows \in Seq(Entry) /\ model'.rows \in Seq(Entry)
  BY DEF Typed, ModelOK, Cleared
<1>2. SUFFICES ASSUME NodeKey(c, y) \in KeysOf(model.rows)
               PROVE  NodeKey(c, y) \in KeysOf(model'.rows)
  OBVIOUS
<1>3. PICK e \in Entry : Has(model.rows, e) /\ Key(e) = NodeKey(c, y)
  BY <1>1, <1>2, HasEntry
<1>4. e.connection = c
  BY <1>3 DEF Key, NodeKey
<1>. QED
  BY <1>1, <1>3, <1>4, HasEntry DEF Cleared

LEMMA DataKeeps ==
  ASSUME Typed, NEW c \in Conn, NEW x \in Data, DataHandled(c, x), NEW d \in Conn, NEW y \in Node
  PROVE  /\ NodeKey(d, y) \in KeysOf(model.rows) /\ (d = c => ~Removes(x, y))
              => NodeKey(d, y) \in KeysOf(model'.rows)
         /\ NodeKey(d, y) \in KeysOf(pending) => NodeKey(d, y) \in KeysOf(pending')
         /\ y \in Accepted(c, x) => NodeKey(c, y) \in KeysOf(pending')
<1>1. /\ model.rows \in Seq(Entry) /\ pending \in Seq(Entry)
      /\ model'.rows \in Seq(Entry) /\ pending' \in Seq(Entry)
  BY DEF Typed, ModelOK, DataHandled
<1>2. ASSUME NodeKey(d, y) \in KeysOf(model.rows), d = c => ~Removes(x, y)
      PROVE  NodeKey(d, y) \in KeysOf(model'.rows)
  <2>1. PICK e \in Entry : Has(model.rows, e) /\ Key(e) = NodeKey(d, y)
    BY <1>1, <1>2, HasEntry
  <2>2. e.connection = d /\ <<e.session, e.name>> = y
    BY <2>1 DEF Key, NodeKey, Node
  <2>3. Has(model'.rows, e)
    BY <1>2, <2>1, <2>2 DEF DataHandled
  <2>. QED
    BY <1>1, <2>1, <2>3, HasEntry
<1>3. ASSUME NodeKey(d, y) \in KeysOf(pending)
      PROVE  NodeKey(d, y) \in KeysOf(pending')
  <2>1. PICK e \in Entry : Has(pending, e) /\ Key(e) = NodeKey(d, y)
    BY <1>1, <1>3, HasEntry
  <2>2. Has(pending', e)
    BY <2>1 DEF DataHandled
  <2>. QED
    BY <1>1, <2>1, <2>2, HasEntry
<1>4. ASSUME y \in Accepted(c, x)
      PROVE  NodeKey(c, y) \in KeysOf(pending')
  <2>. DEFINE e == ResultOf(c, users'[c], y)
  <2>1. Has(pending', e)
    BY <1>4 DEF DataHandled
  <2>2. Key(e) = NodeKey(c, y)
    BY DEF Key, ResultOf, NodeKey
  <2>. HIDE DEF e
  <2>. QED
    BY <1>1, <2>1, <2>2, HasEntry
<1>. QED
  BY <1>2, <1>3, <1>4

(* A connection that was never up has told us nothing and owes nothing.    *)
Blank == \A c \in Conn : stage[c] = "none" => told[c] = {} /\ owed[c] = {}

LEMMA BlankStep ==
  Typed /\ Blank /\ [Next]_vars => Blank'
<1>. SUFFICES ASSUME Typed, Blank, [Next]_vars
              PROVE  Blank'
  OBVIOUS
<1>0. /\ stage \in [Conn -> {"none", "connected", "down"}]
      /\ owed \in [Conn -> SUBSET Node] /\ told \in [Conn -> SUBSET Node]
  BY DEF Typed
<1>1. CASE TimerFires \/ UNCHANGED vars
  BY <1>1 DEF TimerFires, vars, clientVars, Blank
<1>2. CASE StopQueryOnAll
  BY <1>0, <1>2 DEF StopQueryOnAll, Blank
<1>3. ASSUME NEW E \in Pattern, StartQueryOnAll(E)
      PROVE  Blank'
  BY <1>0, <1>3 DEF StartQueryOnAll, Blank, Connected
<1>4. CASE DisconnectAll
  BY <1>0, <1>4 DEF DisconnectAll, ServersGone, Blank
<1>5. ASSUME NEW c \in Conn, MessageReceived(c)
      PROVE  Blank'
  <2>1. PICK x \in Message :
          /\ Received(c, x)
          /\ \/ x \in Pong /\ PongHandled(c, x)
             \/ x \in Data /\ DataTold(c, x)
    BY <1>5, MessageKinds
  <2>2. stage' = stage /\ owed' = owed /\ stage[c] = "connected"
    BY <2>1 DEF Received
  <2>3. \A d \in Conn : d # c => told'[d] = told[d]
    BY <1>0, <2>1 DEF PongHandled, DataTold
  <2>. QED
    BY <2>2, <2>3 DEF Blank
<1>6. ASSUME NEW c \in Conn, SessionDisconnected(c)
      PROVE  Blank'
  BY <1>0, <1>6 DEF SessionDisconnected, ServersGone, Blank
<1>7. ASSUME NEW c \in Conn, SessionConnected(c)
      PROVE  Blank'
  BY <1>0, <1>7 DEF SessionConnected, Blank
<1>8. ASSUME NEW c \in Conn, ServerSays(c)
      PROVE  Blank'
  <2>1. stage' = stage /\ told' = told /\ \A d \in Conn : owed'[d] \subseteq owed[d]
    BY <1>8 DEF ServerSays, clientVars
  <2>. QED
    BY <2>1 DEF Blank
<1>. QED
  BY <1>1, <1>2, <1>3, <1>4, <1>5, <1>6, <1>7, <1>8, StepKinds

LEMMA LostStep ==
  Typed /\ Blank /\ NothingLost /\ [Next]_vars => NothingLost'
<1>. SUFFICES ASSUME Typed, Blank, NothingLost, [Next]_vars
              PROVE  NothingLost'
  OBVIOUS
<1>. DEFINE HeldNow(c, y) == NodeKey(c, y) \in KeysOf(model.rows) \cup KeysOf(pending)
            HeldThen(c, y) == NodeKey(c, y) \in KeysOf(model'.rows) \cup KeysOf(pending')
<1>0. /\ stage \in [Conn -> {"none", "connected", "down"}]
      /\ active \in [Conn -> BOOLEAN] /\ told \in [Conn -> SUBSET Node]
      /\ \A c \in Conn : \A y \in told[c] : y \in Node /\ HeldNow(c, y)
  BY DEF Typed, NothingLost, NodeKey
<1>00. SUFFICES ASSUME NEW d \in Conn, NEW y \in told'[d]
                PROVE  HeldThen(d, y)
  BY DEF NothingLost, NodeKey
<1>. HIDE DEF HeldNow, HeldThen
<1>1. CASE TimerFires
  <2>1. FlushedBut({}) /\ told' = told
    BY <1>1, FlushAll DEF TimerFires
  <2>. QED
    BY <1>0, <1>00, <2>1, FlushKeeps DEF HeldNow, HeldThen
<1>2. CASE StopQueryOnAll
  <2>1. Stopping(Conn \cap Active) /\ Conn \cap Active = Active /\ Active # {}
    BY <1>2, StopKind DEF StopQueryOnAll, Active
  <2>2. FlushedBut(Active)
    BY <2>1 DEF Stopping
  <2>3. d \notin Active /\ told'[d] = told[d]
    BY <1>00, <1>2 DEF StopQueryOnAll, Active
  <2>. QED
    BY <1>0, <1>00, <2>2, <2>3, FlushKeeps DEF HeldNow, HeldThen
<1>3. ASSUME NEW E \in Pattern, StartQueryOnAll(E)
      PROVE  HeldThen(d, y)
  <2>. DEFINE S == Connected \cap Active
  <2>1. Stopping(S)
    BY <1>3, StopKind DEF StartQueryOnAll
  <2>2. d \notin Connected /\ told'[d] = told[d] /\ d \notin S
    BY <1>00, <1>3 DEF StartQueryOnAll
  <2>3. CASE S # {}
    BY <1>0, <1>00, <2>1, <2>2, <2>3, FlushKeeps DEF HeldNow, HeldThen, Stopping
  <2>4. CASE S = {}
    BY <1>0, <1>00, <2>1, <2>2, <2>4 DEF HeldNow, HeldThen, Stopping, windowVars
  <2>. QED
    BY <2>3, <2>4
<1>4. CASE DisconnectAll
  BY <1>0, <1>00, <1>4 DEF DisconnectAll, ServersGone, Blank
<1>5. ASSUME NEW c \in Conn, MessageReceived(c)
      PROVE  HeldThen(d, y)
  <2>1. PICK x \in Message :
          /\ Received(c, x)
          /\ \/ x \in Pong /\ PongHandled(c, x)
             \/ x \in Data /\ DataTold(c, x)
    BY <1>5, MessageKinds
  <2>2. CASE x \in Pong /\ PongHandled(c, x)
    <3>1. told' = told
      BY <2>2 DEF PongHandled
    <3>2. CASE AnswersLatest(c, x)
      BY <1>0, <1>00, <2>2, <3>1, <3>2, FlushKeeps DEF PongHandled, HeldNow, HeldThen
    <3>3. CASE ~AnswersLatest(c, x)
      BY <1>0, <1>00, <2>2, <3>1, <3>3 DEF PongHandled, HeldNow, HeldThen
    <3>. QED
      BY <3>2, <3>3
  <2>3. CASE x \in Data /\ DataTold(c, x)
    <3>1. DataHandled(c, x) /\ x \in Data
      BY <2>3 DEF DataTold
    <3>2. Accepted(c, x) \subseteq Node
      BY <2>3 DEF Accepted, Data
    <3>3. /\ d # c => y \in told[d]
          /\ d = c => y \in Accepted(c, x) \/ (y \in told[c] /\ ~Removes(x, y))
      BY <1>0, <1>00, <2>3 DEF DataTold, Removes
    <3>4. y \in Node
      BY <1>0, <3>2, <3>3
    <3>5. CASE d = c /\ y \in Accepted(c, x)
      BY <3>1, <3>4, <3>5, DataKeeps DEF HeldThen
    <3>6. CASE y \in told[d] /\ (d = c => ~Removes(x, y))
      BY <1>0, <3>1, <3>4, <3>6, DataKeeps DEF HeldNow, HeldThen
    <3>. QED
      BY <3>3, <3>5, <3>6
  <2>. QED
    BY <2>1, <2>2, <2>3
<1>6. ASSUME NEW c \in Conn, SessionDisconnected(c)
      PROVE  HeldThen(d, y)
  <2>1. Cleared({c}) /\ pending' = pending
    BY <1>6, ClearedKind DEF SessionDisconnected
  <2>2. d # c /\ told'[d] = told[d]
    BY <1>00, <1>6 DEF SessionDisconnected, ServersGone
  <2>3. d \notin {c}
    BY <2>2
  <2>. QED
    BY <1>0, <1>00, <2>1, <2>2, <2>3, ClearedKeeps DEF HeldNow, HeldThen
<1>7. ASSUME NEW c \in Conn, SessionConnected(c) \/ ServerSays(c)
      PROVE  HeldThen(d, y)
  <2>1. pending' = pending /\ model' = model /\ told' = told
    BY <1>7 DEF SessionConnected, ServerSays, clientVars, windowVars
  <2>. QED
    BY <1>0, <1>00, <2>1 DEF HeldNow, HeldThen
<1>8. CASE UNCHANGED vars
  BY <1>0, <1>00, <1>8 DEF vars, windowVars, HeldNow, HeldThen
<1>. QED
  BY <1>1, <1>2, <1>3, <1>4, <1>5, <1>6, <1>7, <1>8, StepKinds

LEMMA LostInit == Init => Blank /\ NothingLost
  BY DEF Init, Blank, NothingLost

(* A result that a server told us of, and did not take back, has its row   *)
(* or waits for the timer, whatever was flushed, cleared or stopped        *)
(* elsewhere in between.                                                   *)
THEOREM NoResultLost == Spec => []NothingLost
<1>. QED
  BY TypeInit, TypeStep, LostInit, BlankStep, LostStep, PTL DEF Spec
-----------------------------------------------------------------------------
(* What is shown is current. *)

(* What waits has the timer running, and unless names wait too, all that   *)
(* is held has the users' present names.                                   *)
Fresh ==
  /\ dirty \/ pending # <<>> => timer
  /\ ~dirty => \A e : Held(e) => Current(e)

LEMMA FlushIsFresh ==
  ASSUME Typed, Fresh, NEW S, FlushedBut(S), UNCHANGED users
  PROVE  Fresh'
<1>1. pending' = <<>> /\ dirty' = FALSE /\ ModelOK(model')
  BY DEF FlushedBut
<1>2. \A e : Held(e)' => \E i \in DOMAIN model'.rows : model'.rows[i] = e
  <2>1. DOMAIN pending' = {}
    BY <1>1, EmptySeq
  <2>. QED
    BY <2>1 DEF Held, Has
<1>3. ASSUME NEW i \in DOMAIN model'.rows
      PROVE  Current(model'.rows[i])
  <2>1. PICK d \in Entry : Held(d) /\ IF dirty THEN Current(model'.rows[i]) ELSE model'.rows[i] = d
    BY DEF FlushedBut
  <2>. QED
    BY <2>1 DEF Fresh
<1>4. ASSUME NEW e, Held(e)'
      PROVE  Current(e)'
  <2>1. Current(e)
    BY <1>2, <1>3, <1>4
  <2>. QED
    BY <2>1 DEF Current
<1>5. (~dirty => \A e : Held(e) => Current(e))'
  BY <1>4
<1>. QED
  BY <1>1, <1>5 DEF Fresh

LEMMA FreshStep ==
  Typed /\ Fresh /\ [Next]_vars => Fresh'
<1>. SUFFICES ASSUME Typed, Fresh, [Next]_vars
              PROVE  Fresh'
  OBVIOUS
<1>0. /\ users \in [Conn -> [Session -> UserName \cup {NoName}]]
      /\ dirty \in BOOLEAN /\ timer \in BOOLEAN
      /\ pending \in Seq(Entry) /\ ModelOK(model)
  BY DEF Typed
<1>00. \A e : Held(e) => e \in Entry /\ e.connection \in Conn /\ e.session \in Session
  <2>1. \A e : Held(e) => e \in Entry
    BY <1>0, HasEntry DEF Held, ModelOK
  <2>. QED
    BY <2>1 DEF Entry
<1>1. CASE TimerFires
  <2>1. FlushedBut({}) /\ users' = users
    BY <1>1, FlushAll DEF TimerFires, clientVars
  <2>. QED
    BY <2>1, FlushIsFresh
<1>2. ASSUME NEW C, StopQueries(C), users' = users
      PROVE  Fresh'
  <2>1. Stopping(C \cap Active)
    BY <1>2, StopKind
  <2>2. CASE C \cap Active = {}
    <3>1. pending' = pending /\ dirty' = dirty /\ timer' = timer /\ model' = model
      BY <2>1, <2>2 DEF Stopping, windowVars
    <3>. QED
      BY <1>2, <3>1 DEF Fresh, Held, Current
  <2>3. CASE C \cap Active # {}
    BY <1>2, <2>1, <2>3, FlushIsFresh DEF Stopping
  <2>. QED
    BY <2>2, <2>3
<1>3. CASE DisconnectAll
  <2>1. pending' = <<>> /\ Cleared(Conn) /\ dirty' = dirty /\ timer' = timer
    BY <1>3, ClearedKind DEF DisconnectAll
  <2>2. DOMAIN pending' = {}
    BY <2>1, EmptySeq
  <2>3. \A e : ~Held(e)'
    <3>1. \A e : Has(model.rows, e) => e.connection \in Conn
      BY <1>00 DEF Held
    <3>. QED
      BY <2>1, <2>2, <3>1 DEF Held, Has, Cleared
  <2>4. (~dirty => \A e : Held(e) => Current(e))'
    BY <2>3
  <2>. QED
    BY <2>1, <2>4 DEF Fresh
<1>4. ASSUME NEW c \in Conn, MessageReceived(c)
      PROVE  Fresh'
  <2>1. PICK x \in Message :
          /\ Received(c, x)
          /\ \/ x \in Pong /\ PongHandled(c, x)
             \/ x \in Data /\ DataTold(c, x)
    BY <1>4, MessageKinds
  <2>2. CASE x \in Pong /\ PongHandled(c, x)
    <3>1. users' = users /\ timer' = timer
      BY <2>2 DEF PongHandled
    <3>2. CASE AnswersLatest(c, x)
      BY <2>2, <3>1, <3>2, FlushIsFresh DEF PongHandled
    <3>3. CASE ~AnswersLatest(c, x)
      <4>1. pending' = pending /\ dirty' = dirty /\ model' = model
        BY <2>2, <3>3 DEF PongHandled
      <4>. QED
        BY <3>1, <4>1 DEF Fresh, Held, Current
    <3>. QED
      BY <3>2, <3>3
  <2>3. CASE x \in Data /\ DataTold(c, x)
    <3>1. /\ users' = [users EXCEPT ![c] = KnownAfter(c, x)]
          /\ \A e : Has(model'.rows, e) => Has(model.rows, e)
          /\ \A e : Has(pending', e) =>
               Has(pending, e) \/ \E y \in Accepted(c, x) : e = ResultOf(c, users'[c], y)
          /\ Accepted(c, x) = {} => pending' = pending
          /\ dirty' = (dirty \/ x.users # {})
          /\ timer' = (timer \/ x.users # {} \/ Accepted(c, x) # {})
      BY <2>3 DEF DataTold, DataHandled
    <3>2. dirty' \/ pending' # <<>> => timer'
      BY <3>1 DEF Fresh
    <3>3. ASSUME ~dirty', NEW e, Held(e)'
          PROVE  Current(e)'
      <4>1. ~dirty /\ x.users = {}
        BY <3>1, <3>3
      <4>2. /\ \A d \in Conn \ {c} : users'[d] = users[d]
            /\ \A s \in Session : users'[c][s] \in {NoName, users[c][s]}
        <5>1. \A s \in Session : KnownAfter(c, x)[s] \in {NoName, users[c][s]}
          BY <4>1 DEF KnownAfter
        <5>. QED
          BY <1>0, <3>1, <5>1
      <4>3. Held(e) \/ \E y \in Accepted(c, x) : e = ResultOf(c, users'[c], y)
        BY <3>1, <3>3 DEF Held
      <4>4. CASE Held(e)
        <5>1. Current(e)
          BY <4>1, <4>4 DEF Fresh
        <5>. QED
          BY <1>00, <4>2, <4>4, <5>1 DEF Current
      <4>5. CASE \E y \in Accepted(c, x) : e = ResultOf(c, users'[c], y)
        BY <4>5 DEF Current, ResultOf
      <4>. QED
        BY <4>3, <4>4, <4>5
    <3>4. (~dirty => \A e : Held(e) => Current(e))'
      BY <3>3
    <3>. QED
      BY <3>2, <3>4 DEF Fresh
  <2>. QED
    BY <2>1, <2>2, <2>3
<1>5. ASSUME NEW c \in Conn, SessionDisconnected(c)
      PROVE  Fresh'
  <2>1. /\ Cleared({c}) /\ pending' = pending /\ dirty' = dirty /\ timer' = timer
        /\ users' = [users EXCEPT ![c] = Forgotten]
    BY <1>5, ClearedKind DEF SessionDisconnected
  <2>2. \A s \in Session : users'[c][s] = NoName
    BY <1>0, <2>1 DEF Forgotten
  <2>3. \A d \in Conn \ {c} : users'[d] = users[d]
    BY <1>0, <2>1
  <2>4. ASSUME ~dirty', NEW e, Held(e)'
        PROVE  Current(e)'
    <3>1. Held(e)
      BY <2>1, <2>4 DEF Held, Cleared
    <3>2. Current(e)
      BY <2>1, <2>4, <3>1 DEF Fresh
    <3>. QED
      BY <1>00, <2>2, <2>3, <3>1, <3>2 DEF Current
  <2>5. (~dirty => \A e : Held(e) => Current(e))'
    BY <2>4
  <2>. QED
    BY <2>1, <2>5 DEF Fresh
<1>6. ASSUME NEW c \in Conn, SessionConnected(c) \/ ServerSays(c)
      PROVE  Fresh'
  <2>1. /\ pending' = pending /\ model' = model /\ users' = users
        /\ dirty' = dirty /\ timer' = timer
    BY <1>6 DEF SessionConnected, ServerSays, clientVars, windowVars
  <2>. QED
    BY <2>1 DEF Fresh, Held, Current
<1>7. CASE UNCHANGED vars
  <2>1. /\ pending' = pending /\ model' = model /\ users' = users
        /\ dirty' = dirty /\ timer' = timer
    BY <1>7 DEF vars, clientVars, windowVars
  <2>. QED
    BY <2>1 DEF Fresh, Held, Current
<1>8. ASSUME StopQueryOnAll \/ \E E \in Pattern : StartQueryOnAll(E)
      PROVE  \E C : StopQueries(C) /\ users' = users
  BY <1>8 DEF StopQueryOnAll, StartQueryOnAll
<1>. QED
  BY <1>1, <1>2, <1>3, <1>4, <1>5, <1>6, <1>7, <1>8, StepKinds

LEMMA FreshInit == Init => Fresh
<1>1. DOMAIN <<>> = {}
  BY EmptySeq
<1>2. Init => dirty = FALSE /\ pending = <<>> /\ model.rows = <<>>
  BY DEF Init
<1>. QED
  BY <1>1, <1>2 DEF Fresh, Held, Has

(* With the timer at rest nothing waits for it, and each row of a known    *)
(* user shows the present name, in whatever order names, files, renames    *)
(* and flushes came (MainWindow.cpp:1471).                                 *)
THEOREM ShownStaysCurrent == Spec => []ShownIsCurrent
<1>1. Typed /\ Fresh => ShownIsCurrent
  <2>1. SUFFICES ASSUME Typed, Fresh, ~timer
                 PROVE  /\ pending = <<>>
                        /\ \A i \in DOMAIN model.rows : Current(model.rows[i])
    BY DEF ShownIsCurrent, Current
  <2>2. pending = <<>> /\ ~dirty
    BY <2>1 DEF Fresh
  <2>3. \A i \in DOMAIN model.rows : Held(model.rows[i])
    BY DEF Held, Has
  <2>. QED
    BY <2>1, <2>2, <2>3 DEF Fresh
<1>. QED
  BY <1>1, TypeInit, TypeStep, FreshInit, FreshStep, PTL DEF Spec
-----------------------------------------------------------------------------
(* A sweep is complete. *)

(* A file that the server owes us was told of and stays so, or is on its   *)
(* way in front of the pong; once the pong has been read it is in the rows.*)
Expected(c, y) ==
  /\ y[2] \in matcher[c]
  /\ \/ y \in told[c] /\ NotRemoved(wire[c], 0, y)
     \/ sweeping[c] /\ \E i \in DOMAIN wire[c] : Brings(wire[c], i, y, pingCount[c] - 1)
  /\ ~sweeping[c] => NodeKey(c, y) \in KeysOf(model.rows)

(* Reading the first message.                                              *)
LEMMA ReadOn ==
  ASSUME NEW q \in Seq(Message), q # <<>>, NEW y, NEW n \in Int
  PROVE  /\ PongsBelow(q, n) => PongsBelow(Tail(q), n)
         /\ NotRemoved(q, 0, y) => NotRemoved(Tail(q), 0, y) /\ (q[1] \in Data => ~Removes(q[1], y))
         /\ \A i \in DOMAIN q : Brings(q, i, y, n) =>
              \/ i = 1 /\ q[1] \in Data /\ y \in q[1].files /\ NotRemoved(Tail(q), 0, y)
              \/ /\ i # 1 /\ \E j \in DOMAIN Tail(q) : Brings(Tail(q), j, y, n)
                 /\ q[1] \in Pong => q[1].count < n
<1>. DEFINE t == Tail(q)
<1>1. /\ 1 \in DOMAIN q /\ t \in Seq(Message)
      /\ \A i \in DOMAIN t : i \in Nat \ {0} /\ i + 1 \in DOMAIN q /\ t[i] = q[i + 1]
      /\ \A j \in DOMAIN q : j # 1 => j \in Nat /\ j - 1 \in DOMAIN t /\ t[j - 1] = q[j]
  BY HeadOff
<1>2. DOMAIN q = 1..Len(q) /\ Len(q) \in Nat
  BY LenProperties
<1>. HIDE DEF t
<1>3. PongsBelow(q, n) => PongsBelow(t, n)
  BY <1>1 DEF PongsBelow
<1>4. NotRemoved(q, 0, y) => NotRemoved(t, 0, y) /\ (q[1] \in Data => ~Removes(q[1], y))
  <2>1. SUFFICES ASSUME NotRemoved(q, 0, y)
                 PROVE  NotRemoved(t, 0, y) /\ (q[1] \in Data => ~Removes(q[1], y))
    OBVIOUS
  <2>2. \A j \in DOMAIN q : q[j] \in Data => ~Removes(q[j], y)
    BY <1>2, <2>1 DEF NotRemoved
  <2>. QED
    BY <1>1, <2>2 DEF NotRemoved
<1>5. ASSUME NEW i \in DOMAIN q, Brings(q, i, y, n)
      PROVE  \/ i = 1 /\ q[1] \in Data /\ y \in q[1].files /\ NotRemoved(t, 0, y)
             \/ /\ i # 1 /\ \E j \in DOMAIN t : Brings(t, j, y, n)
                /\ q[1] \in Pong => q[1].count < n
  <2>1. /\ q[i] \in Data /\ y \in q[i].files
        /\ \A j \in DOMAIN q : j > i /\ q[j] \in Data => ~Removes(q[j], y)
        /\ \A j \in DOMAIN q : j <= i /\ q[j] \in Pong => q[j].count < n
    BY <1>5 DEF Brings, NotRemoved
  <2>2. CASE i = 1
    <3>1. NotRemoved(t, 0, y)
      <4>1. \A j \in DOMAIN t : j + 1 > 1
        BY <1>1
      <4>. QED
        BY <1>1, <2>1, <2>2, <4>1 DEF NotRemoved
    <3>. QED
      BY <2>1, <2>2, <3>1
  <2>3. CASE i # 1
    <3>1. i - 1 \in DOMAIN t /\ t[i - 1] = q[i] /\ 1 <= i
      BY <1>1, <1>2, <2>3
    <3>2. NotRemoved(t, i - 1, y)
      <4>1. SUFFICES ASSUME NEW j \in DOMAIN t, j > i - 1, t[j] \in Data
                     PROVE  ~Removes(t[j], y)
        BY DEF NotRemoved
      <4>2. j + 1 \in DOMAIN q /\ t[j] = q[j + 1] /\ j + 1 > i
        BY <1>1, <1>2, <4>1
      <4>. QED
        BY <2>1, <4>1, <4>2
    <3>3. ASSUME NEW j \in DOMAIN t, j <= i - 1, t[j] \in Pong
          PROVE  t[j].count < n
      <4>1. j + 1 \in DOMAIN q /\ t[j] = q[j + 1] /\ j + 1 <= i
        BY <1>1, <1>2, <3>3
      <4>. QED
        BY <2>1, <3>3, <4>1
    <3>4. Brings(t, i - 1, y, n)
      BY <2>1, <3>1, <3>2, <3>3 DEF Brings
    <3>5. q[1] \in Pong => q[1].count < n
      BY <1>1, <2>1, <3>1
    <3>. QED
      BY <2>3, <3>1, <3>4, <3>5
  <2>. QED
    BY <2>2, <2>3
<1>. QED
  BY <1>3, <1>4, <1>5 DEF t

(* News behind the rest.                                                   *)
LEMMA NewsBehind ==
  ASSUME NEW q \in Seq(Message), NEW r \in Seq(Message), NEW y, NEW n \in Int,
         \A i \in DOMAIN r : r[i] \in Data
  PROVE  /\ PongsBelow(q, n) => PongsBelow(q \o r, n)
         /\ (\A i \in DOMAIN r : ~Removes(r[i], y)) =>
              /\ NotRemoved(q, 0, y) => NotRemoved(q \o r, 0, y)
              /\ \A i \in DOMAIN q : Brings(q, i, y, n) =>
                   i \in DOMAIN (q \o r) /\ Brings(q \o r, i, y, n)
<1>. DEFINE w == q \o r
<1>1. /\ w \in Seq(Message)
      /\ \A i \in DOMAIN q : i \in DOMAIN w /\ w[i] = q[i]
      /\ \A j \in DOMAIN r : Len(q) + j \in DOMAIN w /\ w[Len(q) + j] = r[j]
      /\ \A i \in DOMAIN w :
           \/ i \in DOMAIN q
           \/ \E j \in DOMAIN r : i = Len(q) + j
  BY Joined
<1>. HIDE DEF w
<1>2. /\ DOMAIN q = 1..Len(q) /\ Len(q) \in Nat
      /\ DOMAIN r = 1..Len(r) /\ Len(r) \in Nat
  BY LenProperties
<1>3. \A i \in DOMAIN w :
        \/ i \in DOMAIN q /\ w[i] = q[i]
        \/ i > Len(q) /\ \E j \in DOMAIN r : w[i] = r[j]
  BY <1>1, <1>2
<1>4. ASSUME PongsBelow(q, n)
      PROVE  PongsBelow(w, n)
  BY <1>3, <1>4, DataIsNoPong DEF PongsBelow
<1>5. ASSUME \A i \in DOMAIN r : ~Removes(r[i], y), NotRemoved(q, 0, y)
      PROVE  NotRemoved(w, 0, y)
  BY <1>3, <1>5 DEF NotRemoved
<1>6. ASSUME \A i \in DOMAIN r : ~Removes(r[i], y), NEW i \in DOMAIN q, Brings(q, i, y, n)
      PROVE  i \in DOMAIN w /\ Brings(w, i, y, n)
  <2>1. i \in DOMAIN w /\ w[i] = q[i]
    BY <1>1
  <2>2. /\ q[i] \in Data /\ y \in q[i].files
        /\ \A j \in DOMAIN q : j > i /\ q[j] \in Data => ~Removes(q[j], y)
        /\ \A j \in DOMAIN q : j <= i /\ q[j] \in Pong => q[j].count < n
    BY <1>6 DEF Brings, NotRemoved
  <2>3. NotRemoved(w, i, y)
    BY <1>3, <1>6, <2>2 DEF NotRemoved
  <2>4. \A j \in DOMAIN w : j <= i /\ w[j] \in Pong => w[j].count < n
    BY <1>3, <2>2, DataIsNoPong
  <2>. QED
    BY <2>1, <2>2, <2>3, <2>4 DEF Brings
<1>. QED
  BY <1>4, <1>5, <1>6 DEF w

(* Pongs are of pings that were sent; and of an active query all that its  *)
(* server owes us is expected.                                             *)
Answered == \A c \in Conn : PongsBelow(wire[c], pingCount[c])
Awaited == \A c \in Conn :
  stage[c] = "connected" /\ active[c] => \A y \in owed[c] : Expected(c, y)

(* What StartQueryOnAll does to the wires.                                 *)
LEMMA StartedWires ==
  ASSUME Typed, Answered, NEW E \in Pattern, StartQueryOnAll(E), NEW c \in Conn
  PROVE  /\ c \notin Connected => PongsBelow(wire'[c], pingCount[c])
         /\ c \in Connected =>
              /\ PongsBelow(wire'[c], pingCount[c] + 1)
              /\ \A y \in Matching(c, E) :
                   \E i \in DOMAIN wire'[c] : Brings(wire'[c], i, y, pingCount[c])
<1>1. PICK w \in Unsubscribed(Connected) :
        wire' = [d \in Conn |->
                  IF d \in Connected
                    THEN w[d] \o Reported("files", Matching(d, E)) \o <<[count |-> pingCount[d]]>>
                    ELSE w[d]]
  BY DEF StartQueryOnAll
<1>2. pingCount[c] \in Nat /\ E \in SUBSET Name /\ wire \in [Conn -> Seq(Message)]
  BY QueryAssumption DEF Typed, Message
<1>3. w[c] \in Seq(Message) /\ PongsBelow(w[c], pingCount[c])
  <2>1. PongsBelow(wire[c], pingCount[c])
    BY DEF Answered
  <2>. QED
    BY <1>2, <2>1, UnsubscribedType
<1>4. CASE c \notin Connected
  BY <1>1, <1>3, <1>4
<1>5. CASE c \in Connected
  <2>1. wire'[c] = w[c] \o Reported("files", Matching(c, E)) \o <<[count |-> pingCount[c]]>>
    BY <1>1, <1>5
  <2>. QED
    BY <1>2, <1>3, <1>5, <2>1, AnswerBrings
<1>. QED
  BY <1>4, <1>5

LEMMA AnsweredStep ==
  Typed /\ Answered /\ [Next]_vars => Answered'
<1>. SUFFICES ASSUME Typed, Answered, [Next]_vars, NEW c \in Conn
              PROVE  PongsBelow(wire'[c], pingCount'[c])
  BY DEF Answered
<1>0. /\ wire \in [Conn -> Seq(Message)] /\ pingCount \in [Conn -> 0..MaxQueries]
      /\ wire[c] \in Seq(Message) /\ pingCount[c] \in Int
      /\ PongsBelow(wire[c], pingCount[c])
  BY QueryAssumption DEF Typed, Message, Answered
<1>00. \A n : PongsBelow(<<>>, n)
  <2>1. DOMAIN <<>> = {}
    BY EmptySeq
  <2>. QED
    BY <2>1 DEF PongsBelow
<1>1. CASE TimerFires \/ UNCHANGED vars
  BY <1>0, <1>1 DEF TimerFires, vars, clientVars, serverVars
<1>2. CASE StopQueryOnAll
  <2>1. wire' \in Unsubscribed(Conn) /\ pingCount' = pingCount
    BY <1>2 DEF StopQueryOnAll
  <2>2. pingCount[c] \in Nat
    BY QueryAssumption DEF Typed
  <2>. QED
    BY <1>0, <2>1, <2>2, UnsubscribedType
<1>3. ASSUME NEW E \in Pattern, StartQueryOnAll(E)
      PROVE  PongsBelow(wire'[c], pingCount'[c])
  <2>1. pingCount'[c] = IF c \in Connected THEN pingCount[c] + 1 ELSE pingCount[c]
    BY <1>3 DEF StartQueryOnAll
  <2>. QED
    BY <1>3, <2>1, StartedWires
<1>4. CASE DisconnectAll
  <2>1. pingCount' = pingCount /\ wire'[c] \in {<<>>, wire[c]}
    BY <1>4 DEF DisconnectAll, ServersGone
  <2>. QED
    BY <1>0, <1>00, <2>1
<1>5. ASSUME NEW d \in Conn, MessageReceived(d)
      PROVE  PongsBelow(wire'[c], pingCount'[c])
  <2>1. /\ wire' = [wire EXCEPT ![d] = Tail(wire[d])] /\ wire[d] # <<>>
        /\ pingCount' = pingCount
    BY <1>5 DEF MessageReceived
  <2>2. wire'[c] = IF c = d THEN Tail(wire[c]) ELSE wire[c]
    BY <1>0, <2>1
  <2>. QED
    BY <1>0, <2>1, <2>2, ReadOn
<1>6. ASSUME NEW d \in Conn, SessionDisconnected(d)
      PROVE  PongsBelow(wire'[c], pingCount'[c])
  <2>1. pingCount' = pingCount /\ wire'[c] \in {<<>>, wire[c]}
    BY <1>6 DEF SessionDisconnected, ServersGone
  <2>. QED
    BY <1>0, <1>00, <2>1
<1>7. ASSUME NEW d \in Conn, SessionConnected(d)
      PROVE  PongsBelow(wire'[c], pingCount'[c])
  <2>. DEFINE S == {x \in Session \X UserName : login[d][x[1]] = x[2]}
  <2>1. Change("users", S) \in Data
    BY ChangeType
  <2>2. wire' = [wire EXCEPT ![d] = Reported("users", S)] /\ pingCount' = pingCount
    BY <1>7 DEF SessionConnected
  <2>. HIDE DEF S
  <2>3. \A i \in DOMAIN Reported("users", S) : Reported("users", S)[i] = Change("users", S)
    BY <2>1, ReportedType
  <2>4. PongsBelow(Reported("users", S), pingCount[c])
    BY <2>1, <2>3, DataIsNoPong DEF PongsBelow
  <2>5. wire'[c] = IF c = d THEN Reported("users", S) ELSE wire[c]
    BY <1>0, <2>2
  <2>. QED
    BY <1>0, <2>2, <2>4, <2>5
<1>8. ASSUME NEW d \in Conn, ServerSays(d)
      PROVE  PongsBelow(wire'[c], pingCount'[c])
  <2>1. PICK q \in Seq(Message) :
          /\ wire' = [wire EXCEPT ![d] = wire[d] \o q]
          /\ \A i \in DOMAIN q : q[i] \in Data
    BY <1>8 DEF ServerSays
  <2>2. pingCount' = pingCount
    BY <1>8 DEF ServerSays, clientVars
  <2>3. wire'[c] = IF c = d THEN wire[c] \o q ELSE wire[c]
    BY <1>0, <2>1
  <2>. QED
    BY <1>0, <2>1, <2>2, <2>3, NewsBehind
<1>. QED
  BY <1>1, <1>2, <1>3, <1>4, <1>5, <1>6, <1>7, <1>8, StepKinds

(* What a message from c does to what c owes.                              *)
LEMMA ExpectedReceived ==
  ASSUME Typed, Answered, NothingLost, NEW c \in Conn, active[c], NEW y \in owed[c],
         Expected(c, y), MessageReceived(c)
  PROVE  Expected(c, y)'
<1>. DEFINE q == wire[c]
            n == pingCount[c] - 1
<1>1. PICK x \in Message :
        /\ Received(c, x)
        /\ \/ x \in Pong /\ PongHandled(c, x)
           \/ x \in Data /\ DataTold(c, x)
  BY MessageKinds
<1>2. /\ q # <<>> /\ x = q[1] /\ q \in Seq(Message) /\ n \in Int
      /\ wire'[c] = Tail(q)
      /\ active' = active /\ matcher' = matcher /\ pingCount' = pingCount
  BY <1>1, QueryAssumption DEF Received, Typed, Message
<1>3. /\ y \in Node /\ told \in [Conn -> SUBSET Node] /\ sweeping \in [Conn -> BOOLEAN]
  BY DEF Typed
<1>4. /\ y[2] \in matcher[c]
      /\ \/ y \in told[c] /\ NotRemoved(q, 0, y)
         \/ sweeping[c] /\ \E i \in DOMAIN q : Brings(q, i, y, n)
      /\ ~sweeping[c] => NodeKey(c, y) \in KeysOf(model.rows)
  BY DEF Expected
<1>5. /\ NotRemoved(q, 0, y) => NotRemoved(Tail(q), 0, y) /\ (x \in Data => ~Removes(x, y))
      /\ \A i \in DOMAIN q : Brings(q, i, y, n) =>
              \/ i = 1 /\ x \in Data /\ y \in x.files /\ NotRemoved(Tail(q), 0, y)
              \/ /\ i # 1 /\ \E j \in DOMAIN Tail(q) : Brings(Tail(q), j, y, n)
                 /\ x \in Pong => x.count < n
  <2>. HIDE DEF q, n
  <2>1. /\ NotRemoved(q, 0, y) => NotRemoved(Tail(q), 0, y) /\ (q[1] \in Data => ~Removes(q[1], y))
        /\ \A i \in DOMAIN q : Brings(q, i, y, n) =>
              \/ i = 1 /\ q[1] \in Data /\ y \in q[1].files /\ NotRemoved(Tail(q), 0, y)
              \/ /\ i # 1 /\ \E j \in DOMAIN Tail(q) : Brings(Tail(q), j, y, n)
                 /\ q[1] \in Pong => q[1].count < n
    BY <1>2, ReadOn
  <2>. QED
    BY <1>2, <2>1
<1>. HIDE DEF q, n
<1>6. SUFFICES
        /\ \/ y \in told'[c] /\ NotRemoved(Tail(q), 0, y)
           \/ sweeping'[c] /\ \E j \in DOMAIN Tail(q) : Brings(Tail(q), j, y, n)
        /\ ~sweeping'[c] => NodeKey(c, y) \in KeysOf(model'.rows)
  BY <1>2, <1>4 DEF Expected, NodeKey, n
<1>7. CASE x \in Data /\ DataTold(c, x)
  <2>1. /\ sweeping' = sweeping /\ DataHandled(c, x) /\ x \notin Pong
        /\ told'[c] = {z \in told[c] \ x.gone : z[1] \notin x.left} \cup Accepted(c, x)
    BY <1>3, <1>7, DataIsNoPong DEF DataTold
  <2>2. CASE y \in told[c] /\ NotRemoved(q, 0, y)
    <3>1. NotRemoved(Tail(q), 0, y) /\ ~Removes(x, y)
      BY <1>5, <1>7, <2>2
    <3>2. y \in told'[c]
      BY <2>1, <2>2, <3>1 DEF Removes
    <3>3. NodeKey(c, y) \in KeysOf(model.rows) => NodeKey(c, y) \in KeysOf(model'.rows)
      BY <1>3, <1>7, <2>1, <3>1, DataKeeps
    <3>. QED
      BY <1>4, <2>1, <3>1, <3>2, <3>3
  <2>3. CASE sweeping[c] /\ \E i \in DOMAIN q : Brings(q, i, y, n)
    <3>1. PICK i \in DOMAIN q : Brings(q, i, y, n)
      BY <2>3
    <3>2. CASE i = 1 /\ y \in x.files /\ NotRemoved(Tail(q), 0, y)
      <4>1. y \in told'[c]
        BY <1>4, <2>1, <3>2 DEF Accepted
      <4>. QED
        BY <2>1, <2>3, <3>2, <4>1
    <3>3. CASE \E j \in DOMAIN Tail(q) : Brings(Tail(q), j, y, n)
      BY <2>1, <2>3, <3>3
    <3>. QED
      BY <1>5, <3>1, <3>2, <3>3
  <2>. QED
    BY <1>4, <2>2, <2>3
<1>8. CASE x \in Pong /\ PongHandled(c, x)
  <2>1. told' = told /\ x \notin Data
    BY <1>8, DataIsNoPong DEF PongHandled
  <2>2. AnswersLatest(c, x) <=> ~(x.count < n)
    <3>1. x.count \in Nat /\ pingCount[c] \in Nat
      BY <1>8, QueryAssumption DEF Pong, Typed
    <3>. QED
      BY <3>1 DEF AnswersLatest, n
  <2>3. CASE AnswersLatest(c, x)
    <3>1. y \in told[c] /\ NotRemoved(q, 0, y)
      BY <1>4, <1>5, <1>8, <2>1, <2>2, <2>3
    <3>2. NodeKey(c, y) \in KeysOf(model.rows) \cup KeysOf(pending)
      BY <3>1 DEF NothingLost, NodeKey
    <3>3. FlushedBut({})
      BY <1>8, <2>3 DEF PongHandled
    <3>4. NodeKey(c, y) \in KeysOf(model'.rows)
      BY <3>2, <3>3, FlushKeeps
    <3>. QED
      BY <1>5, <2>1, <3>1, <3>4
  <2>4. CASE ~AnswersLatest(c, x)
    <3>1. sweeping' = sweeping /\ model' = model
      BY <1>8, <2>4 DEF PongHandled
    <3>. QED
      BY <1>4, <1>5, <2>1, <3>1
  <2>. QED
    BY <2>3, <2>4
<1>. QED
  BY <1>1, <1>7, <1>8

(* What another connection's message does to what c owes.                  *)
LEMMA ExpectedBesides ==
  ASSUME Typed, NEW c \in Conn, NEW y \in owed[c], Expected(c, y),
         NEW d \in Conn, d # c, MessageReceived(d)
  PROVE  Expected(c, y)'
<1>1. PICK x \in Message :
        /\ Received(d, x)
        /\ \/ x \in Pong /\ PongHandled(d, x)
           \/ x \in Data /\ DataTold(d, x)
  BY MessageKinds
<1>2. wire'[c] = wire[c] /\ matcher' = matcher /\ pingCount' = pingCount
  BY <1>1 DEF Received, Typed
<1>3. told'[c] = told[c] /\ sweeping'[c] = sweeping[c]
  <2>1. told \in [Conn -> SUBSET Node] /\ sweeping \in [Conn -> BOOLEAN]
    BY DEF Typed
  <2>. QED
    BY <1>1, <2>1 DEF PongHandled, DataTold
<1>4. NodeKey(c, y) \in KeysOf(model.rows) => NodeKey(c, y) \in KeysOf(model'.rows)
  <2>1. CASE x \in Pong /\ PongHandled(d, x)
    <3>1. CASE AnswersLatest(d, x)
      BY <2>1, <3>1, FlushKeeps DEF PongHandled
    <3>2. CASE ~AnswersLatest(d, x)
      BY <2>1, <3>2 DEF PongHandled
    <3>. QED
      BY <3>1, <3>2
  <2>2. CASE x \in Data /\ DataTold(d, x)
    <3>1. y \in Node
      BY DEF Typed
    <3>. QED
      BY <2>2, <3>1, DataKeeps DEF DataTold
  <2>. QED
    BY <1>1, <2>1, <2>2
<1>. QED
  BY <1>2, <1>3, <1>4 DEF Expected, NodeKey

LEMMA AwaitedStep ==
  Typed /\ Answered /\ Blank /\ NothingLost /\ Awaited /\ [Next]_vars => Awaited'
<1>. SUFFICES ASSUME Typed, Answered, Blank, NothingLost, Awaited, [Next]_vars,
                     NEW c \in Conn, stage'[c] = "connected", active'[c], NEW y \in owed'[c]
              PROVE  Expected(c, y)'
  BY DEF Awaited
<1>0. /\ wire \in [Conn -> Seq(Message)] /\ wire[c] \in Seq(Message) /\ pingCount[c] - 1 \in Int
      /\ stage \in [Conn -> {"none", "connected", "down"}]
      /\ sweeping \in [Conn -> BOOLEAN]
  BY QueryAssumption DEF Typed, Message
(* Where nothing happens to the connection but that rows are added.        *)
<1>00. ASSUME stage[c] = "connected", active[c], y \in owed[c],
              wire'[c] = wire[c], told'[c] = told[c], sweeping'[c] = sweeping[c],
              matcher'[c] = matcher[c], pingCount'[c] = pingCount[c],
              NodeKey(c, y) \in KeysOf(model.rows) => NodeKey(c, y) \in KeysOf(model'.rows)
       PROVE  Expected(c, y)'
  <2>1. Expected(c, y)
    BY <1>00 DEF Awaited
  <2>. QED
    BY <1>00, <2>1 DEF Expected, NodeKey
<1>1. CASE TimerFires
  <2>1. FlushedBut({}) /\ UNCHANGED <<clientVars, serverVars, sweeping, owed, told>>
    BY <1>1, FlushAll DEF TimerFires
  <2>2. NodeKey(c, y) \in KeysOf(model.rows) => NodeKey(c, y) \in KeysOf(model'.rows)
    BY <2>1, FlushKeeps
  <2>. QED
    BY <1>00, <2>1, <2>2 DEF clientVars, serverVars
<1>2. CASE StopQueryOnAll
  BY <1>2 DEF StopQueryOnAll
<1>3. ASSUME NEW E \in Pattern, StartQueryOnAll(E)
      PROVE  Expected(c, y)'
  <2>1. c \in Connected
    BY <1>3 DEF StartQueryOnAll, Connected
  <2>2. /\ matcher'[c] = E /\ sweeping'[c] = TRUE /\ pingCount'[c] = pingCount[c] + 1
        /\ y \in Matching(c, E)
    BY <1>3, <2>1 DEF StartQueryOnAll
  <2>3. \E i \in DOMAIN wire'[c] : Brings(wire'[c], i, y, pingCount[c])
    BY <1>3, <2>1, <2>2, StartedWires
  <2>4. y[2] \in E
    BY <2>2 DEF Matching
  <2>5. pingCount'[c] - 1 = pingCount[c]
    BY <1>0, <2>2, QueryAssumption DEF Typed
  <2>. QED
    BY <2>2, <2>3, <2>4, <2>5 DEF Expected
<1>4. CASE DisconnectAll
  BY <1>4 DEF DisconnectAll
<1>5. ASSUME NEW d \in Conn, MessageReceived(d)
      PROVE  Expected(c, y)'
  <2>1. stage' = stage /\ active' = active /\ owed' = owed
    BY <1>5 DEF MessageReceived
  <2>2. Expected(c, y)
    BY <2>1 DEF Awaited
  <2>. QED
    BY <1>5, <2>1, <2>2, ExpectedReceived, ExpectedBesides
<1>6. ASSUME NEW d \in Conn, SessionDisconnected(d)
      PROVE  Expected(c, y)'
  <2>1. c # d /\ stage[c] = "connected" /\ active' = active
    BY <1>0, <1>6 DEF SessionDisconnected
  <2>2. /\ y \in owed[c] /\ wire'[c] = wire[c] /\ told'[c] = told[c]
        /\ sweeping'[c] = sweeping[c] /\ matcher' = matcher /\ pingCount' = pingCount
    BY <1>0, <1>6, <2>1 DEF SessionDisconnected, ServersGone
  <2>3. Cleared({d}) /\ c \notin {d}
    BY <1>6, <2>1, ClearedKind DEF SessionDisconnected
  <2>4. NodeKey(c, y) \in KeysOf(model.rows) => NodeKey(c, y) \in KeysOf(model'.rows)
    BY <2>3, ClearedKeeps
  <2>. QED
    BY <1>00, <2>1, <2>2, <2>4
<1>7. ASSUME NEW d \in Conn, SessionConnected(d)
      PROVE  Expected(c, y)'
  <2>1. /\ stage[d] = "none" /\ owed' = owed /\ active' = active
        /\ stage' = [stage EXCEPT ![d] = "connected"]
        /\ wire' = [wire EXCEPT ![d] =
                      Reported("users", {x \in Session \X UserName : login[d][x[1]] = x[2]})]
        /\ told' = told /\ sweeping' = sweeping /\ matcher' = matcher /\ pingCount' = pingCount
        /\ model' = model
    BY <1>7 DEF SessionConnected, windowVars
  <2>2. owed[d] = {}
    BY <2>1 DEF Blank
  <2>3. c # d
    BY <2>1, <2>2
  <2>4. stage[c] = "connected" /\ wire'[c] = wire[c]
    BY <1>0, <2>1, <2>3
  <2>. QED
    BY <1>00, <2>1, <2>4
<1>8. ASSUME NEW d \in Conn, ServerSays(d)
      PROVE  Expected(c, y)'
  <2>1. PICK q \in Seq(Message) :
          /\ wire' = [wire EXCEPT ![d] = wire[d] \o q]
          /\ \A i \in DOMAIN q : q[i] \in Data /\ \A z \in owed'[d] : ~Removes(q[i], z)
    BY <1>8 DEF ServerSays
  <2>2. /\ stage' = stage /\ active' = active /\ matcher' = matcher /\ pingCount' = pingCount
        /\ told' = told /\ sweeping' = sweeping /\ model' = model /\ y \in owed[c]
    BY <1>8 DEF ServerSays, clientVars, windowVars
  <2>3. CASE c # d
    <3>1. wire'[c] = wire[c]
      BY <1>0, <2>1, <2>3
    <3>. QED
      BY <1>00, <2>2, <3>1
  <2>4. CASE c = d
    <3>1. wire'[c] = wire[c] \o q /\ \A i \in DOMAIN q : q[i] \in Data /\ ~Removes(q[i], y)
      BY <1>0, <2>1, <2>4
    <3>2. /\ NotRemoved(wire[c], 0, y) => NotRemoved(wire'[c], 0, y)
          /\ \A i \in DOMAIN wire[c] : Brings(wire[c], i, y, pingCount[c] - 1) =>
               i \in DOMAIN wire'[c] /\ Brings(wire'[c], i, y, pingCount[c] - 1)
      BY <1>0, <3>1, NewsBehind
    <3>3. Expected(c, y)
      BY <2>2 DEF Awaited
    <3>. QED
      BY <2>2, <3>2, <3>3 DEF Expected, NodeKey
  <2>. QED
    BY <2>3, <2>4
<1>9. CASE UNCHANGED vars
  BY <1>00, <1>9 DEF vars, clientVars, windowVars, serverVars
<1>. QED
  BY <1>1, <1>2, <1>3, <1>4, <1>5, <1>6, <1>7, <1>8, <1>9, StepKinds

LEMMA AwaitedInit == Init => Answered /\ Awaited
<1>1. DOMAIN <<>> = {}
  BY EmptySeq
<1>2. Init => \A c \in Conn : wire[c] = <<>> /\ stage[c] = "none"
  BY DEF Init
<1>. QED
  BY <1>1, <1>2 DEF Answered, Awaited, PongsBelow

(* Once the server has answered the ping of the present query, each file   *)
(* that was there when the query began and still is has its row, whatever  *)
(* was late of an earlier query and whatever other connections did         *)
(* (ServerConnection.cpp:202).                                             *)
THEOREM SweepsAreComplete == Spec => []SweepIsComplete
<1>1. Awaited => SweepIsComplete
  BY DEF Awaited, SweepIsComplete, Expected, NodeKey, Connected
<1>. QED
  BY <1>1, TypeInit, TypeStep, LostInit, BlankStep, LostStep, AwaitedInit, AnsweredStep,
     AwaitedStep, PTL DEF Spec
=============================================================================
