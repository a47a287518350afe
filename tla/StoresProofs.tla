---------------------------- MODULE StoresProofs ----------------------------
(***************************************************************************)
(* The files of Stores against its tables in memory, for any names, texts  *)
(* and number of calls and kills.                                          *)
(***************************************************************************)
EXTENDS Stores, FiniteSetTheorems, SequenceTheorems, TLAPS

(* Selected.  Counting gives every position of a set its place among them.   *)

Upto(I, i) == {j \in I : j <= i}

LEMMA UptoIsFinite ==
    ASSUME NEW n \in Nat, NEW I \in SUBSET (1 .. n), NEW i \in I
    PROVE  /\ IsFiniteSet(I) /\ Cardinality(I) \in Nat
           /\ IsFiniteSet(Upto(I, i)) /\ Cardinality(Upto(I, i)) \in Nat
           /\ Cardinality(Upto(I, i)) \in 1 .. Cardinality(I)
<1>1. IsFiniteSet(1 .. n)
  BY FS_Interval, SMT
<1>2. IsFiniteSet(I)
  BY <1>1, FS_Subset
<1>3. Upto(I, i) \in SUBSET I
  BY DEF Upto
<1>4. IsFiniteSet(Upto(I, i)) /\ Cardinality(Upto(I, i)) <= Cardinality(I)
  BY <1>2, <1>3, FS_Subset
<1>5. Cardinality(I) \in Nat /\ Cardinality(Upto(I, i)) \in Nat
  BY <1>2, <1>4, FS_CardinalityType
<1>6. i \in Upto(I, i)
  BY SMT DEF Upto
<1>7. Cardinality(Upto(I, i)) # 0
  BY <1>4, <1>6, FS_EmptySet
<1>8. QED
  BY <1>2, <1>4, <1>5, <1>7, SMT

LEMMA PlacesDiffer ==
    ASSUME NEW n \in Nat, NEW I \in SUBSET (1 .. n), NEW i \in I, NEW j \in I,
           Cardinality(Upto(I, i)) = Cardinality(Upto(I, j))
    PROVE  i = j
<1>1. ASSUME NEW a \in I, NEW b \in I, a < b,
             Cardinality(Upto(I, a)) = Cardinality(Upto(I, b))
      PROVE  FALSE
  <2>0. a \in Nat /\ b \in Nat /\ I \subseteq Nat
    BY SMT
  <2>1. Upto(I, a) \in SUBSET Upto(I, b)
    <3>1. \A p \in I : p <= a => p <= b
      BY <1>1, <2>0, SMT
    <3>2. QED
      BY <3>1, Zenon DEF Upto
  <2>2. b \in Upto(I, b) /\ b \notin Upto(I, a)
    BY <1>1, SMT DEF Upto
  <2>3. IsFiniteSet(Upto(I, b))
    BY UptoIsFinite
  <2>4. Upto(I, b) = Upto(I, a)
    BY <1>1, <2>1, <2>3, FS_Subset
  <2>5. QED
    BY <2>2, <2>4
<1>2. i \in Int /\ j \in Int
  BY SMT
<1>3. i < j \/ j < i \/ i = j
  BY <1>2, SMT
<1>4. QED
  BY <1>1, <1>3

LEMMA NthIsInPlace ==
    ASSUME NEW n \in Nat, NEW I \in SUBSET (1 .. n),
           NEW k \in 1 .. Cardinality(I)
    PROVE  /\ Nth(I, k) \in I
           /\ Cardinality(Upto(I, Nth(I, k))) = k
<1> DEFINE f == [i \in I |-> Cardinality(Upto(I, i))]
           K == 1 .. Cardinality(I)
<1>0. IsFiniteSet(1 .. n)
  BY FS_Interval, SMT
<1>1. IsFiniteSet(I) /\ Cardinality(I) \in Nat
  BY <1>0, FS_Subset, FS_CardinalityType
<1>2. IsFiniteSet(K) /\ Cardinality(K) = Cardinality(I)
  BY <1>1, FS_Interval, SMT
<1>3. f \in [I -> K]
  BY UptoIsFinite
<1>4. \A i, j \in I : f[i] = f[j] => i = j
  BY PlacesDiffer
<1>5. f \in Injection(I, K)
  BY <1>3, <1>4, Zenon DEF Injection, IsInjective
<1>6. f \in Surjection(I, K)
  BY <1>2, <1>5, FS_Injection
<1>7. PICK i \in I : f[i] = k
  BY <1>6 DEF Surjection
<1>8. \E i0 \in I : Cardinality({j \in I : j <= i0}) = k
  BY <1>7 DEF Upto
<1>9. /\ Nth(I, k) \in I
      /\ Cardinality({j \in I : j <= Nth(I, k)}) = k
  BY <1>8, Zenon DEF Nth
<1>10. QED
  BY <1>9 DEF Upto

LEMMA NthIsUnique ==
    ASSUME NEW n \in Nat, NEW I \in SUBSET (1 .. n), NEW i \in I,
           NEW k, Cardinality(Upto(I, i)) = k
    PROVE  Nth(I, k) = i
<1>1. k \in 1 .. Cardinality(I)
  BY UptoIsFinite
<1>2. Nth(I, k) \in I /\ Cardinality(Upto(I, Nth(I, k))) = Cardinality(Upto(I, i))
  BY <1>1, NthIsInPlace
<1>3. QED
  BY <1>2, PlacesDiffer

(* Induction over the length of a sequence, in terms of the set of the       *)
(* sequences that have a property.                                           *)

LEMMA LeastNumber ==
    ASSUME NEW T \in SUBSET Nat, T # {}
    PROVE  \E m \in T : \A k \in T : m <= k
<1> DEFINE R == {kj \in Nat \X Nat : kj[1] < kj[2]}
<1>1. \E m \in T : \A k \in T : <<k, m>> \notin R
  <2>1. IsWellFoundedOn(R, Nat)
    BY NatLessThanWellFounded, Zenon DEF OpToRel
  <2> HIDE DEF R
  <2>2. QED
    BY <2>1, WFMin
<1>2. PICK m \in T : \A k \in T : <<k, m>> \notin R
  BY <1>1
<1>3. ASSUME NEW k \in T
      PROVE  m <= k
  <2>1. k \in Nat /\ m \in Nat
    BY SMT
  <2>2. k < m => <<k, m>> \in R
    BY <2>1
  <2>3. ~(k < m)
    BY <1>2, <2>2
  <2>4. QED
    BY <2>1, <2>3, SMT
<1>4. QED
  BY <1>3

LEMMA SequencesByAppending ==
    ASSUME NEW T, NEW G, <<>> \in G,
           \A s \in Seq(T) : s \in G => \A e \in T : Append(s, e) \in G
    PROVE  Seq(T) \subseteq G
<1> DEFINE Bad == {k \in Nat : \E s \in Seq(T) : Len(s) = k /\ s \notin G}
<1>1. SUFFICES ASSUME Bad # {}
               PROVE  FALSE
  <2>1. \A s \in Seq(T) : Len(s) \in Nat
    BY SMT
  <2>2. QED
    BY <1>1, <2>1, Zenon
<1>2. Bad \in SUBSET Nat
  OBVIOUS
<1>3. PICK k \in Bad : \A j \in Bad : k <= j
  BY <1>1, <1>2, LeastNumber
<1>4. PICK s \in Seq(T) : Len(s) = k /\ s \notin G
  BY <1>3
<1>5. CASE k = 0
  <2>1. s = <<>>
    BY <1>4, <1>5, SMT
  <2>2. QED
    BY <1>4, <2>1
<1>6. CASE k # 0
  <2> DEFINE front == SubSeq(s, 1, k - 1)
  <2>1. k \in Nat /\ k - 1 \in Nat /\ s[k] \in T
    BY <1>4, <1>6, SMT
  <2>2. front \in Seq(T) /\ Len(front) = k - 1 /\ s = Append(front, s[k])
    BY <1>4, <1>6, <2>1, SMT
  <2> HIDE DEF front
  <2>3. front \in G
    <3>1. CASE front \in G
      BY <3>1
    <3>2. CASE front \notin G
      <4>1. k - 1 \in Bad
        BY <2>1, <2>2, <3>2
      <4>2. k <= k - 1
        BY <1>3, <4>1
      <4>3. QED
        BY <2>1, <4>2, SMT
    <3>3. QED
      BY <3>1, <3>2
  <2>4. QED
    BY <1>4, <2>1, <2>2, <2>3, Zenon
<1>7. QED
  BY <1>5, <1>6

(* What is kept of a sequence: the elements in S, in order.                  *)

Places(s, S) == {i \in DOMAIN s : s[i] \in S}

Kept(s, S) == Selected(s, Places(s, S))

LEMMA KeptOfNothing ==
    ASSUME NEW S
    PROVE  Kept(<<>>, S) = <<>>
<1>1. Places(<<>>, S) = {}
  BY SMT DEF Places
<1>2. Cardinality(Places(<<>>, S)) = 0
  BY <1>1, FS_EmptySet
<1>3. QED
  BY <1>2, SMT DEF Kept, Selected

LEMMA KeptLength ==
    ASSUME NEW T, NEW s \in Seq(T), NEW S
    PROVE  /\ Places(s, S) \in SUBSET (1 .. Len(s))
           /\ Len(s) \in Nat
           /\ Cardinality(Places(s, S)) \in Nat
           /\ IsFiniteSet(Places(s, S))
           /\ Kept(s, S) \in Seq(T \cap S)
           /\ Len(Kept(s, S)) = Cardinality(Places(s, S))
<1> DEFINE P == Places(s, S)
<1>1. P \in SUBSET (1 .. Len(s)) /\ Len(s) \in Nat
  BY SMT DEF Places
<1>2. IsFiniteSet(1 .. Len(s))
  BY <1>1, FS_Interval, SMT
<1>3. IsFiniteSet(P) /\ Cardinality(P) \in Nat
  BY <1>1, <1>2, FS_Subset, FS_CardinalityType
<1>4. \A k \in 1 .. Cardinality(P) : s[Nth(P, k)] \in T \cap S
  <2> SUFFICES ASSUME NEW k \in 1 .. Cardinality(P)
               PROVE  s[Nth(P, k)] \in T \cap S
    OBVIOUS
  <2>1. Nth(P, k) \in P
    BY <1>1, NthIsInPlace
  <2> DEFINE i == Nth(P, k)
  <2>2. i \in 1 .. Len(s) /\ s[i] \in S
    BY <1>1, <2>1 DEF Places
  <2> HIDE DEF i
  <2>3. s[i] \in T
    BY <2>2, SMT
  <2>4. QED
    BY <2>2, <2>3 DEF i
<1>5. Kept(s, S) = [k \in 1 .. Cardinality(P) |-> s[Nth(P, k)]]
  BY DEF Kept, Selected
<1> DEFINE N == Cardinality(P)
<1> HIDE DEF P
<1>6. Kept(s, S) \in Seq(T \cap S) /\ Len(Kept(s, S)) = Cardinality(P)
  BY <1>3, <1>4, <1>5, SMT
<1>7. QED
  BY <1>1, <1>3, <1>6 DEF P

LEMMA KeptOfAppend ==
    ASSUME NEW T, NEW s \in Seq(T), NEW e \in T, NEW S
    PROVE  Kept(Append(s, e), S) = IF e \in S THEN Append(Kept(s, S), e)
                                   ELSE Kept(s, S)
<1> DEFINE n == Len(s)
           t == Append(s, e)
           I == Places(s, S)
           J == Places(t, S)
           c == Cardinality(I)
<1>1. /\ n \in Nat /\ I \in SUBSET (1 .. n) /\ c \in Nat /\ IsFiniteSet(I)
      /\ Kept(s, S) \in Seq(T) /\ Len(Kept(s, S)) = c
  <2>1. Seq(T \cap S) \subseteq Seq(T)
    BY SMT
  <2>2. QED
    BY <2>1, KeptLength
<1>2. /\ t \in Seq(T) /\ Len(t) = n + 1 /\ t[n + 1] = e
      /\ \A i \in 1 .. n : t[i] = s[i]
      /\ DOMAIN t = 1 .. n + 1 /\ DOMAIN s = 1 .. n
  BY SMT
<1> HIDE DEF n, t
<1>3. J \in SUBSET (1 .. n + 1) /\ n + 1 \in Nat
  BY <1>1, <1>2, SMT DEF Places
<1>4. \A i \in 1 .. n : i \in J <=> i \in I
  BY <1>1, <1>2, SMT DEF Places
<1>5. n + 1 \in J <=> e \in S
  BY <1>1, <1>2, SMT DEF Places
<1>6. n + 1 \notin I
  BY <1>1, SMT
<1> HIDE DEF I, J
<1>7. J = IF e \in S THEN I \cup {n + 1} ELSE I
  <2>1. \A i : i \in 1 .. n + 1 <=> i \in 1 .. n \/ i = n + 1
    BY <1>1, SMT
  <2>2. \A i \in J : i \in 1 .. n + 1
    BY <1>3
  <2>3. \A i \in I : i \in 1 .. n
    BY <1>1
  <2>4. \A i : i \in J <=> i \in I \/ (i = n + 1 /\ e \in S)
    BY <1>4, <1>5, <2>1, <2>2, <2>3, Zenon
  <2>5. QED
    BY <2>4
<1>8. Cardinality(J) = IF e \in S THEN c + 1 ELSE c
  BY <1>1, <1>6, <1>7, FS_AddElement
<1> HIDE DEF c
<1>9. \A k \in 1 .. c : Nth(I, k) \in 1 .. n /\ Nth(J, k) = Nth(I, k)
  <2> SUFFICES ASSUME NEW k \in 1 .. c
               PROVE  Nth(I, k) \in 1 .. n /\ Nth(J, k) = Nth(I, k)
    OBVIOUS
  <2>1. Nth(I, k) \in I /\ Cardinality(Upto(I, Nth(I, k))) = k
    BY <1>1, NthIsInPlace DEF c
  <2> DEFINE i == Nth(I, k)
  <2>2. i \in 1 .. n /\ i \in J
    BY <1>1, <1>4, <2>1
  <2> HIDE DEF i
  <2>3. ~(n + 1 <= i)
    BY <1>1, <2>2, SMT
  <2>4. Upto(J, i) = Upto(I, i)
    BY <1>7, <2>3 DEF Upto
  <2>5. Nth(J, k) = i
    BY <1>3, <2>1, <2>2, <2>4, NthIsUnique DEF i
  <2>6. QED
    BY <2>2, <2>5 DEF i
<1>10. ASSUME e \in S
       PROVE  Nth(J, c + 1) = n + 1
  <2>1. \A j \in J : j <= n + 1
    BY <1>1, <1>3, SMT
  <2>2. Upto(J, n + 1) = J
    BY <2>1 DEF Upto
  <2>3. QED
    BY <1>3, <1>5, <1>8, <1>10, <2>2, NthIsUnique
<1>11. /\ Kept(s, S) = [k \in 1 .. c |-> s[Nth(I, k)]]
       /\ Kept(t, S) = [k \in 1 .. Cardinality(J) |-> t[Nth(J, k)]]
  BY DEF Kept, Selected, I, J, c
<1>12. CASE e \in S
  <2>1. Kept(t, S) = [k \in 1 .. c + 1 |-> t[Nth(J, k)]]
    BY <1>8, <1>11, <1>12
  <2>2. \A k \in 1 .. c : t[Nth(J, k)] = s[Nth(I, k)]
    BY <1>2, <1>9, Zenon
  <2>3. t[Nth(J, c + 1)] = e
    BY <1>2, <1>10, <1>12
  <2>4. Kept(t, S) = Append(Kept(s, S), e)
    <3>1. PICK K \in Seq(T) : K = Kept(s, S) /\ Len(K) = c
      BY <1>1
    <3>2. /\ Append(K, e) \in Seq(T)
          /\ Len(Append(K, e)) = c + 1
          /\ \A k \in 1 .. c : Append(K, e)[k] = K[k]
          /\ Append(K, e)[c + 1] = e
      BY <3>1, AppendProperties
    <3>3. \A k \in 1 .. c + 1 : k \in 1 .. c \/ k = c + 1
      BY <1>1, SMT
    <3>4. \A k \in 1 .. c : K[k] = s[Nth(I, k)]
      BY <3>1, <1>11
    <3>5. Kept(t, S) \in Seq(T) /\ Len(Kept(t, S)) = c + 1
      <4>1. Seq(T \cap S) \subseteq Seq(T)
        BY SMT
      <4>2. QED
        BY <1>2, <1>8, <1>12, <4>1, KeptLength DEF J
    <3>6. \A k \in 1 .. c + 1 : Kept(t, S)[k] = Append(K, e)[k]
      <4>1. \A k \in 1 .. c + 1 : Kept(t, S)[k] = t[Nth(J, k)]
        BY <2>1, Zenon
      <4>2. \A k \in 1 .. c : t[Nth(J, k)] = Append(K, e)[k]
        BY <2>2, <3>2, <3>4, Zenon
      <4>3. t[Nth(J, c + 1)] = Append(K, e)[c + 1]
        BY <2>3, <3>2, Zenon
      <4>4. QED
        BY <3>3, <4>1, <4>2, <4>3, Zenon
    <3>7. QED
      BY <3>1, <3>2, <3>5, <3>6, SeqEqual
  <2>5. QED
    BY <1>12, <2>4 DEF t
<1>13. CASE e \notin S
  <2>1. Kept(t, S) = [k \in 1 .. c |-> t[Nth(J, k)]]
    BY <1>8, <1>11, <1>13
  <2>2. \A k \in 1 .. c : t[Nth(J, k)] = s[Nth(I, k)]
    BY <1>2, <1>9, Zenon
  <2>3. Kept(t, S) = Kept(s, S)
    BY <1>11, <2>1, <2>2, Zenon
  <2>4. QED
    BY <1>13, <2>3 DEF t
<1>14. QED
  BY <1>12, <1>13

(* What follows from these two by induction.                                 *)

LEMMA KeptOfAll ==
    ASSUME NEW T, NEW S, T \subseteq S
    PROVE  \A s \in Seq(T) : Kept(s, S) = s
<1> DEFINE G == {s \in Seq(T) : Kept(s, S) = s}
<1>1. <<>> \in G
  BY KeptOfNothing, EmptySeq
<1>2. \A s \in Seq(T) : s \in G => \A e \in T : Append(s, e) \in G
  BY KeptOfAppend, AppendProperties
<1>3. Seq(T) \subseteq G
  BY <1>1, <1>2, SequencesByAppending
<1>4. QED
  BY <1>3

LEMMA KeptOfNone ==
    ASSUME NEW T, NEW S, T \cap S = {}
    PROVE  \A s \in Seq(T) : Kept(s, S) = <<>>
<1> DEFINE G == {s \in Seq(T) : Kept(s, S) = <<>>}
<1>1. <<>> \in G
  BY KeptOfNothing, EmptySeq
<1>2. \A e \in T : e \notin S
  OBVIOUS
<1>3. \A s \in Seq(T) : s \in G => \A e \in T : Append(s, e) \in G
  BY <1>2, KeptOfAppend, AppendProperties
<1>4. Seq(T) \subseteq G
  BY <1>1, <1>3, SequencesByAppending
<1>5. QED
  BY <1>4

LEMMA AppendToConcat ==
    ASSUME NEW T, NEW s \in Seq(T), NEW t \in Seq(T), NEW e \in T
    PROVE  Append(s \o t, e) = s \o Append(t, e)
<1>1. <<e>> \in Seq(T) /\ s \o t \in Seq(T)
  BY ConcatProperties, SMT
<1>2. Append(t, e) = t \o <<e>> /\ Append(s \o t, e) = (s \o t) \o <<e>>
  BY <1>1, AppendIsConcat
<1>3. QED
  BY <1>1, <1>2, ConcatAssociative

LEMMA KeptOfConcat ==
    ASSUME NEW T, NEW S, NEW s \in Seq(T)
    PROVE  \A t \in Seq(T) : Kept(s \o t, S) = Kept(s, S) \o Kept(t, S)
<1> DEFINE G == {t \in Seq(T) : Kept(s \o t, S) = Kept(s, S) \o Kept(t, S)}
<1>1. <<>> \in G
  <2>1. Kept(s, S) \in Seq(T \cap S)
    BY KeptLength
  <2>2. s \o <<>> = s /\ Kept(s, S) \o <<>> = Kept(s, S)
    BY <2>1, ConcatEmptySeq
  <2>3. QED
    BY <2>2, KeptOfNothing, EmptySeq
<1>2. ASSUME NEW t \in Seq(T), t \in G, NEW e \in T
      PROVE  Append(t, e) \in G
  <2>1. /\ Append(t, e) \in Seq(T) /\ s \o t \in Seq(T)
        /\ s \o Append(t, e) = Append(s \o t, e)
    BY AppendProperties, ConcatProperties, AppendToConcat
  <2>2. CASE e \in S
    <3>1. /\ Kept(Append(t, e), S) = Append(Kept(t, S), e)
          /\ Kept(Append(s \o t, e), S) = Append(Kept(s \o t, S), e)
      BY <2>1, <2>2, KeptOfAppend
    <3>2. /\ Kept(t, S) \in Seq(T \cap S) /\ Kept(s, S) \in Seq(T \cap S)
          /\ e \in T \cap S
      BY <2>2, KeptLength
    <3>3. Append(Kept(s, S) \o Kept(t, S), e)
              = Kept(s, S) \o Append(Kept(t, S), e)
      <4>1. PICK U : U = T \cap S
        OBVIOUS
      <4>2. Kept(s, S) \in Seq(U) /\ Kept(t, S) \in Seq(U) /\ e \in U
        BY <3>2, <4>1, Zenon
      <4>3. PICK K \in Seq(U), L \in Seq(U) : K = Kept(s, S) /\ L = Kept(t, S)
        BY <4>2, Zenon
      <4>4. Append(K \o L, e) = K \o Append(L, e)
        <5>1. K \in Seq(U) /\ L \in Seq(U) /\ e \in U
          BY <4>2, <4>3
        <5>2. <<e>> \in Seq(U) /\ K \o L \in Seq(U)
          BY <5>1, ConcatProperties, SMT
        <5>3. /\ Append(L, e) = L \o <<e>>
              /\ Append(K \o L, e) = (K \o L) \o <<e>>
          BY <5>1, <5>2, AppendIsConcat
        <5>4. QED
          BY <5>1, <5>2, <5>3, ConcatAssociative
      <4>5. QED
        BY <4>3, <4>4, Zenon
    <3>4. Kept(s \o t, S) = Kept(s, S) \o Kept(t, S)
      BY <1>2
    <3>5. Kept(s \o Append(t, e), S) = Kept(s, S) \o Kept(Append(t, e), S)
      BY <2>1, <3>1, <3>3, <3>4
    <3>6. QED
      BY <2>1, <3>5, Zenon
  <2>3. CASE e \notin S
    <3>1. /\ Kept(Append(t, e), S) = Kept(t, S)
          /\ Kept(Append(s \o t, e), S) = Kept(s \o t, S)
      BY <2>1, <2>3, KeptOfAppend
    <3>2. Kept(s \o t, S) = Kept(s, S) \o Kept(t, S)
      BY <1>2
    <3>3. Kept(s \o Append(t, e), S) = Kept(s, S) \o Kept(Append(t, e), S)
      BY <2>1, <3>1, <3>2
    <3>4. QED
      BY <2>1, <3>3, Zenon
  <2>4. QED
    BY <2>2, <2>3
<1>3. Seq(T) \subseteq G
  BY <1>1, <1>2, SequencesByAppending
<1>4. QED
  BY <1>3

LEMMA KeptOfKept ==
    ASSUME NEW T, NEW S, NEW R
    PROVE  \A s \in Seq(T) : Kept(Kept(s, S), R) = Kept(s, S \cap R)
<1> DEFINE G == {s \in Seq(T) : Kept(Kept(s, S), R) = Kept(s, S \cap R)}
<1>1. <<>> \in G
  BY KeptOfNothing, EmptySeq
<1>2. ASSUME NEW s \in Seq(T), s \in G, NEW e \in T
      PROVE  Append(s, e) \in G
  <2>1. Append(s, e) \in Seq(T) /\ Kept(s, S) \in Seq(T \cap S)
    BY AppendProperties, KeptLength
  <2>2. CASE e \in S
    <3>1. Kept(Append(s, e), S) = Append(Kept(s, S), e)
      BY <2>2, KeptOfAppend
    <3>2. e \in T \cap S
      BY <2>2
    <3>3. Kept(Append(Kept(s, S), e), R)
              = IF e \in R THEN Append(Kept(Kept(s, S), R), e)
                ELSE Kept(Kept(s, S), R)
      <4>1. PICK U : U = T \cap S
        OBVIOUS
      <4>2. Kept(s, S) \in Seq(U) /\ e \in U
        BY <2>1, <3>2, <4>1, Zenon
      <4>3. QED
        BY <4>2, KeptOfAppend
    <3>4. Kept(Append(s, e), S \cap R)
              = IF e \in R THEN Append(Kept(s, S \cap R), e)
                ELSE Kept(s, S \cap R)
      BY <2>2, KeptOfAppend
    <3>5. Kept(Kept(s, S), R) = Kept(s, S \cap R)
      BY <1>2
    <3>6. Kept(Kept(Append(s, e), S), R) = Kept(Append(s, e), S \cap R)
      BY <3>1, <3>3, <3>4, <3>5
    <3>7. QED
      BY <2>1, <3>6
  <2>3. CASE e \notin S
    BY <1>2, <2>1, <2>3, KeptOfAppend
  <2>4. QED
    BY <2>2, <2>3
<1>3. Seq(T) \subseteq G
  BY <1>1, <1>2, SequencesByAppending
<1>4. QED
  BY <1>3

\* The place of what is kept.
LEMMA KeptIsFound ==
    ASSUME NEW T, NEW S, NEW s \in Seq(T), NEW i \in DOMAIN s, s[i] \in S
    PROVE  \E k \in DOMAIN Kept(s, S) : Kept(s, S)[k] = s[i]
<1> DEFINE P == Places(s, S)
           k == Cardinality(Upto(P, i))
<1>1. /\ P \in SUBSET (1 .. Len(s)) /\ Len(s) \in Nat
      /\ Len(Kept(s, S)) = Cardinality(P) /\ Kept(s, S) \in Seq(T \cap S)
  BY KeptLength
<1>2. i \in P
  BY DEF Places
<1>3. k \in 1 .. Cardinality(P)
  BY <1>1, <1>2, UptoIsFinite
<1>4. Nth(P, k) = i
  BY <1>1, <1>2, NthIsUnique
<1>5. Kept(s, S)[k] = s[Nth(P, k)]
  BY <1>3 DEF Kept, Selected
<1>6. DOMAIN Kept(s, S) = 1 .. Cardinality(P)
  BY DEF Kept, Selected
<1>7. QED
  BY <1>3, <1>4, <1>5, <1>6

\* And everything kept was there.
LEMMA KeptWasThere ==
    ASSUME NEW T, NEW S, NEW s \in Seq(T), NEW k \in DOMAIN Kept(s, S)
    PROVE  \E i \in DOMAIN s : s[i] \in S /\ Kept(s, S)[k] = s[i]
<1> DEFINE P == Places(s, S)
<1>1. P \in SUBSET (1 .. Len(s)) /\ Len(s) \in Nat
  BY KeptLength
<1>2. k \in 1 .. Cardinality(P) /\ Kept(s, S)[k] = s[Nth(P, k)]
  BY DEF Kept, Selected
<1>3. Nth(P, k) \in P
  BY <1>1, <1>2, NthIsInPlace
<1>4. QED
  BY <1>2, <1>3 DEF Places

-----------------------------------------------------------------------------
(* The filters of Stores keep the elements of a set.                         *)

NamesBut(n)  == {m \in Names : Plain[m] # n}
LinesFor(n)  == {l \in LineType : Plain[l.to] = n}
LinesBut(n)  == {l \in LineType : Plain[l.to] # n}
SentMessages == {m \in MessageType : m.from # Nobody}

\* What the lines of a file give back, and what the messages of a table do.
ReadLines(ls) == [i \in DOMAIN ls |-> ReadMessage(ls[i])]
ReadOf(log, n) == ReadLines(Kept(log, LinesFor(n)))
Trimmed(msgs) == [i \in DOMAIN msgs |-> [msgs[i] EXCEPT !.text = Trim[@]]]
Lines(n, msgs) == [i \in DOMAIN msgs |-> Line(n, msgs[i])]

LEMMA FiltersKeep ==
    /\ accountLog \in Seq(Names) =>
           \A n : OtherAccounts(n) = Kept(accountLog, NamesBut(n))
    /\ messageLog \in Seq(LineType) =>
           \A n : /\ OtherMessages(n) = Kept(messageLog, LinesBut(n))
                  /\ ReadMessages(n) = ReadOf(messageLog, n)
    /\ \A msgs \in Seq(MessageType) : RealOnes(msgs) = Kept(msgs, RealMessages)
    /\ \A msgs \in Seq(MessageType) :
           AsRead(msgs) = Trimmed(Kept(msgs, SentMessages))
    /\ \A list \in Seq(Names) : Sound(list) = Kept(list, Names \ doubled)
<1>1. ASSUME NEW T, NEW s \in Seq(T), NEW i \in DOMAIN s
      PROVE  s[i] \in T
  BY SMT
<1>2. ASSUME accountLog \in Seq(Names), NEW n
      PROVE  OtherAccounts(n) = Kept(accountLog, NamesBut(n))
  <2>1. \A i \in DOMAIN accountLog :
            Plain[accountLog[i]] # n <=> accountLog[i] \in NamesBut(n)
    BY <1>1, <1>2 DEF NamesBut
  <2>2. {i \in DOMAIN accountLog : Plain[accountLog[i]] # n}
            = Places(accountLog, NamesBut(n))
    BY <2>1, Zenon DEF Places
  <2>3. QED
    BY <2>2 DEF OtherAccounts, Kept
<1>3. ASSUME messageLog \in Seq(LineType), NEW n
      PROVE  /\ OtherMessages(n) = Kept(messageLog, LinesBut(n))
             /\ ReadMessages(n) = ReadOf(messageLog, n)
  <2>1. \A i \in DOMAIN messageLog :
            /\ i \notin LinesTo(messageLog, n) <=> messageLog[i] \in LinesBut(n)
            /\ i \in LinesTo(messageLog, n) <=> messageLog[i] \in LinesFor(n)
    BY <1>1, <1>3 DEF LinesBut, LinesFor, LinesTo
  <2>2. /\ DOMAIN messageLog \ LinesTo(messageLog, n)
               = Places(messageLog, LinesBut(n))
        /\ LinesTo(messageLog, n) = Places(messageLog, LinesFor(n))
    BY <2>1 DEF Places, LinesTo
  <2>3. QED
    BY <2>2 DEF OtherMessages, Kept, ReadMessages, ReadOf, ReadLines
<1>4. ASSUME NEW msgs \in Seq(MessageType)
      PROVE  RealOnes(msgs) = Kept(msgs, RealMessages)
  <2>1. \A i \in DOMAIN msgs : Real(msgs[i]) <=> msgs[i] \in RealMessages
    BY <1>1 DEF RealMessages
  <2>2. {i \in DOMAIN msgs : Real(msgs[i])} = Places(msgs, RealMessages)
    BY <2>1, Zenon DEF Places
  <2>3. QED
    BY <2>2 DEF RealOnes, Kept
<1>5. ASSUME NEW msgs \in Seq(MessageType)
      PROVE  AsRead(msgs) = Trimmed(Kept(msgs, SentMessages))
  <2>1. \A i \in DOMAIN msgs :
            msgs[i].from # Nobody <=> msgs[i] \in SentMessages
    BY <1>1, <1>5 DEF SentMessages
  <2>2. {i \in DOMAIN msgs : msgs[i].from # Nobody}
            = Places(msgs, SentMessages)
    BY <2>1, Zenon DEF Places
  <2>3. QED
    BY <2>2 DEF AsRead, Kept, Trimmed
<1>a. ASSUME NEW list \in Seq(Names)
      PROVE  Sound(list) = Kept(list, Names \ doubled)
  <2>1. \A i \in DOMAIN list :
            list[i] \notin doubled <=> list[i] \in Names \ doubled
    BY <1>1
  <2>2. {i \in DOMAIN list : list[i] \notin doubled}
            = Places(list, Names \ doubled)
    BY <2>1, Zenon DEF Places
  <2>3. QED
    BY <2>2 DEF Sound, Kept
<1>6. QED
  BY <1>2, <1>3, <1>4, <1>5, <1>a, Zenon

LEMMA FiltersHaveTypes ==
    /\ accountLog \in Seq(Names) => \A n : OtherAccounts(n) \in Seq(Names)
    /\ messageLog \in Seq(LineType) =>
           \A n : /\ OtherMessages(n) \in Seq(LineType)
                  /\ ReadMessages(n) \in Seq(MessageType)
    /\ \A msgs \in Seq(MessageType) : RealOnes(msgs) \in Seq(RealMessages)
    /\ \A n \in Names : \A msgs \in Seq(RealMessages) :
           Lines(n, msgs) \in Seq(LineType)
<1>1. ASSUME NEW T, NEW S, NEW s \in Seq(T)
      PROVE  Kept(s, S) \in Seq(T)
  <2>1. Kept(s, S) \in Seq(T \cap S)
    BY KeptLength
  <2>2. QED
    BY <2>1, SeqMonotonic
<1>2. \A ls \in Seq(LineType) : ReadLines(ls) \in Seq(MessageType)
  <2>1. ASSUME NEW l \in LineType
        PROVE  ReadMessage(l) \in MessageType
    BY StoresAssumptions, SMT
    DEF ReadMessage, MessageType, LineType, Phantom
  <2>2. SUFFICES ASSUME NEW ls \in Seq(LineType)
                 PROVE  ReadLines(ls) \in Seq(MessageType)
    OBVIOUS
  <2>3. Len(ls) \in Nat /\ DOMAIN ls = 1 .. Len(ls)
    BY LenProperties
  <2>4. \A i \in 1 .. Len(ls) : ReadMessage(ls[i]) \in MessageType
    BY <2>1, ElementOfSeq
  <2>5. QED
    BY <2>3, <2>4, SMT DEF ReadLines
<1>3. ASSUME messageLog \in Seq(LineType), NEW n
      PROVE  ReadMessages(n) \in Seq(MessageType)
  <2>1. Kept(messageLog, LinesFor(n)) \in Seq(LineType)
    BY <1>1, <1>3
  <2>2. QED
    BY <1>2, <1>3, <2>1, FiltersKeep DEF ReadOf
<1>4. ASSUME NEW msgs \in Seq(MessageType)
      PROVE  RealOnes(msgs) \in Seq(RealMessages)
  <2>1. Kept(msgs, RealMessages) \in Seq(MessageType \cap RealMessages)
    BY KeptLength
  <2>2. QED
    BY <2>1, FiltersKeep, SeqMonotonic
<1>5. ASSUME NEW n \in Names, NEW msgs \in Seq(RealMessages)
      PROVE  Lines(n, msgs) \in Seq(LineType)
  <2>1. \A m \in RealMessages : Line(n, m) \in LineType
    BY DEF RealMessages, MessageType, Real, Line, LineType
  <2>2. Len(msgs) \in Nat /\ DOMAIN msgs = 1 .. Len(msgs)
    BY LenProperties
  <2>3. \A i \in 1 .. Len(msgs) : Line(n, msgs[i]) \in LineType
    BY <2>1, ElementOfSeq
  <2>4. QED
    BY <2>2, <2>3, SMT DEF Lines
<1>6. QED
  BY <1>1, <1>3, <1>4, <1>5, FiltersKeep

(* Types.                                                                    *)

LEMMA RemoveFirstHasType ==
    ASSUME NEW T, NEW s \in Seq(T), NEW e
    PROVE  RemoveFirst(s, e) \in Seq(T)
<1>1. ASSUME NEW i \in 1 .. Len(s)
      PROVE  RemoveAt(s, i) \in Seq(T)
  <2>1. Len(s) \in Nat /\ i \in Int
    BY SMT
  <2>2. SubSeq(s, 1, i - 1) \in Seq(T) /\ SubSeq(s, i + 1, Len(s)) \in Seq(T)
    BY SMT
  <2>3. QED
    BY <2>2, ConcatProperties DEF RemoveAt
<1>2. ASSUME \E i \in 1 .. Len(s) : s[i] = e
      PROVE  SelectInSeq(s, LAMBDA v : v = e) \in 1 .. Len(s)
  <2> DEFINE I == {i \in 1 .. Len(s) : s[i] = e}
  <2>1. I \in SUBSET Nat /\ I # {}
    BY <1>2, SMT
  <2>2. \E x \in I : \A y \in I : x <= y
    BY <2>1, LeastNumber
  <2>3. (CHOOSE x \in I : \A y \in I : x <= y) \in I
    BY <2>2, Zenon
  <2>4. QED
    BY <2>1, <2>3 DEF SelectInSeq, Min
<1>3. CASE \E i \in 1 .. Len(s) : s[i] = e
  BY <1>1, <1>2, <1>3, Zenon DEF RemoveFirst
<1>4. CASE ~ \E i \in 1 .. Len(s) : s[i] = e
  BY <1>4, Zenon DEF RemoveFirst
<1>5. QED
  BY <1>3, <1>4

LEMMA PrefixesHaveTypes ==
    ASSUME NEW T, NEW s \in Seq(T), NEW p \in Prefixes(s)
    PROVE  p \in Seq(T)
<1>1. PICK k \in 0 .. Len(s) : p = SubSeq(s, 1, k)
  BY DEF Prefixes
<1>2. QED
  BY <1>1, SMT

\* A call in progress is about an account, and there is a line to write in it.
AccountCalls ==
    {call \in Calls({"none", "append", "truncate", "flush"}, Seq(Names)) :
         call.next # "none" => call.name \in Names}

MessageCalls ==
    {call \in Calls({"none", "append", "truncate", "flush", "own"},
                    Seq(LineType)) :
         /\ call.next # "none" => call.name \in Names
         /\ call.next = "own" => call.own # <<>>}

AccountTypes ==
    /\ accounts \in Seq(Names) /\ accountLog \in Seq(Names)
    /\ accountCall \in AccountCalls
    /\ doubled \subseteq Names

MessageTypes ==
    /\ queue \in [Names -> Seq(MessageType)]
    /\ messageLog \in Seq(LineType)
    /\ messageCall \in MessageCalls

RunTypes == up \in BOOLEAN /\ calls \in 0 .. MaxCalls /\ kills \in 0 .. MaxKills

TypesInv == AccountTypes /\ MessageTypes /\ RunTypes

LEMMA TypesImplied == TypesInv => StoresTypeOK
BY DEF TypesInv, StoresTypeOK, AccountTypes, MessageTypes, RunTypes,
       AccountCalls, MessageCalls

LEMMA NoCallHasType == NoCall \in AccountCalls /\ NoCall \in MessageCalls
<1>1. \A T : <<>> \in Seq(T)
  BY EmptySeq
<1>2. QED
  BY <1>1, Zenon DEF NoCall, Calls, AccountCalls, MessageCalls

LEMMA GivenHasType ==
    ASSUME queue \in [Names -> Seq(MessageType)], NEW n \in Names,
           NEW msgs \in Given(n)
    PROVE  /\ msgs \in Seq(MessageType)
           /\ msgs \in Seq(RealMessages) \/ msgs = <<Phantom>>
<1>1. RealOnes(queue[n]) \in Seq(RealMessages)
  BY FiltersHaveTypes
<1>2. Seq(RealMessages) \subseteq Seq(MessageType)
  BY SeqMonotonic DEF RealMessages
<1>3. CASE msgs = <<Phantom>>
  <2>1. Phantom \in MessageType
    BY StoresAssumptions DEF Phantom, MessageType
  <2>2. <<Phantom>> \in Seq(MessageType)
    BY <2>1, SMT
  <2>3. QED
    BY <1>3, <2>2
<1>4. ASSUME NEW left \in Refused(n)
      PROVE  left \in Seq(RealMessages)
  <2>1. PICK sent \in Seq(RealMessages) : sent = RealOnes(queue[n])
    BY <1>1
  <2>2. \E k \in 1 .. Len(sent) + 1 : left = SubSeq(sent, k, Len(sent))
    BY <1>4, <2>1, Zenon DEF Refused
  <2>3. PICK k \in 1 .. Len(sent) + 1 : left = SubSeq(sent, k, Len(sent))
    BY <2>2
  <2>4. QED
    BY <2>3, SMT
<1>5. CASE msgs \in UNION {{Preceded(msg, left) : left \in Refused(n)} :
                                msg \in RealMessages}
  <2>1. PICK msg \in RealMessages, left \in Refused(n) :
              msgs = Preceded(msg, left)
    BY <1>5, Zenon
  <2>2. <<msg>> \in Seq(RealMessages) /\ left \in Seq(RealMessages)
    BY <1>4, SMT
  <2>3. msgs \in Seq(RealMessages)
    BY <2>1, <2>2, ConcatProperties DEF Preceded
  <2>4. QED
    BY <1>2, <2>3
<1>6. CASE msgs \in Refused(n)
  BY <1>2, <1>4, <1>6
<1>7. \/ msgs \in Refused(n) \/ msgs = <<Phantom>>
      \/ msgs \in UNION {{Preceded(msg, left) : left \in Refused(n)} :
                            msg \in RealMessages}
  BY Zenon DEF Given
<1>8. QED
  BY <1>3, <1>5, <1>6, <1>7, Zenon

LEMMA TypesStart == Init => TypesInv
<1> SUFFICES ASSUME Init
             PROVE  TypesInv
  OBVIOUS
<1>1. AccountTypes
  BY NoCallHasType, EmptySeq DEF Init, AccountTypes
<1>2. MessageTypes
  BY NoCallHasType, EmptySeq DEF Init, MessageTypes
<1>3. RunTypes
  BY StoresAssumptions, SMT DEF Init, RunTypes
<1>4. QED
  BY <1>1, <1>2, <1>3, Zenon DEF TypesInv

LEMMA TypesStep == TypesInv /\ [Next]_vars => TypesInv'
<1> SUFFICES ASSUME TypesInv, [Next]_vars
             PROVE  TypesInv'
  OBVIOUS
<1> USE DEF accountVars, messageVars
<1>0. AccountTypes /\ MessageTypes /\ RunTypes
  BY DEF TypesInv
<1>a. UNCHANGED accountVars => AccountTypes'
  BY <1>0, Zenon DEF AccountTypes
<1>m. UNCHANGED messageVars => MessageTypes'
  BY <1>0, Zenon DEF MessageTypes
<1>c. Call => RunTypes'
  BY <1>0, StoresAssumptions, SMT DEF Call, RunTypes
<1>u. UNCHANGED <<up, calls, kills>> => RunTypes'
  BY <1>0, Zenon DEF RunTypes
<1>r. RunTypes' /\ AccountTypes' /\ MessageTypes' => TypesInv'
  BY DEF TypesInv
<1>n. NoCall \in AccountCalls /\ NoCall \in MessageCalls
  BY NoCallHasType
<1>1. ASSUME NEW n \in Names, CreateAccount(n)
      PROVE  TypesInv'
  <2>1. AccountTypes'
    <3>1. accounts' \in Seq(Names) /\ accountLog' \in Seq(Names)
      BY <1>0, <1>1, AppendProperties DEF CreateAccount, AccountTypes
    <3>2. accountCall' \in AccountCalls
      BY <1>1, <1>n DEF CreateAccount, Calls, AccountCalls
    <3>3. QED
      BY <1>0, <1>1, <3>1, <3>2 DEF CreateAccount, AccountTypes
  <2>2. QED
    BY <1>1, <1>m, <1>c, <1>r, <2>1 DEF CreateAccount
<1>2. ASSUME NEW n \in Names, RemoveAccount(n)
      PROVE  TypesInv'
  <2>1. AccountTypes'
    <3>1. accounts' \in Seq(Names) /\ accountLog' \in Seq(Names)
      BY <1>0, <1>2, RemoveFirstHasType DEF RemoveAccount, AccountTypes
    <3>2. accountCall' \in AccountCalls
      BY <1>2, <1>n DEF RemoveAccount, Calls, AccountCalls
    <3>3. doubled' \subseteq Names
      BY <1>0, <1>2 DEF RemoveAccount, AccountTypes
    <3>4. QED
      BY <3>1, <3>2, <3>3 DEF AccountTypes
  <2>2. QED
    BY <1>2, <1>m, <1>c, <1>r, <2>1 DEF RemoveAccount
<1>3. ASSUME AppendAccount
      PROVE  TypesInv'
  <2>1. accountCall.name \in Names
    BY <1>0, <1>3 DEF AppendAccount, AccountTypes, AccountCalls
  <2>2. AccountTypes'
    BY <1>0, <1>3, <1>n, <2>1, AppendProperties DEF AppendAccount, AccountTypes
  <2>3. QED
    BY <1>3, <1>m, <1>u, <1>r, <2>2 DEF AppendAccount
<1>4. ASSUME TruncateAccounts
      PROVE  TypesInv'
  <2>1. OtherAccounts(accountCall.name) \in Seq(Names)
    BY <1>0, FiltersHaveTypes DEF AccountTypes
  <2>2. AccountTypes'
    BY <1>0, <1>4, <2>1, EmptySeq
    DEF TruncateAccounts, AccountTypes, Calls, AccountCalls
  <2>3. QED
    BY <1>4, <1>m, <1>u, <1>r, <2>2 DEF TruncateAccounts
<1>5. ASSUME FlushAccounts
      PROVE  TypesInv'
  <2>1. AccountTypes'
    BY <1>0, <1>5, <1>n DEF FlushAccounts, AccountTypes, Calls, AccountCalls
  <2>2. QED
    BY <1>5, <1>m, <1>u, <1>r, <2>1 DEF FlushAccounts
<1>6. ASSUME NEW to \in Names, NEW from \in Names, NEW text \in Texts,
             AddMessage(to, from, text)
      PROVE  TypesInv'
  <2> DEFINE msg == [from |-> from, text |-> text]
  <2>1. msg \in MessageType /\ Line(to, msg) \in LineType
    BY DEF MessageType, Line, LineType
  <2>2. queue' \in [Names -> Seq(MessageType)]
    <3>1. Append(queue[to], msg) \in Seq(MessageType)
      BY <1>0, <2>1, AppendProperties DEF MessageTypes
    <3>2. queue' = [queue EXCEPT ![to] = Append(@, msg)]
      BY <1>6 DEF AddMessage
    <3>3. QED
      BY <1>0, <3>1, <3>2, Zenon DEF MessageTypes
  <2>3. <<Line(to, msg)>> \in Seq(LineType)
    BY <2>1, SMT
  <2>4. messageCall' = [NoCall EXCEPT !.next = "append", !.name = to,
                                      !.own = <<Line(to, msg)>>]
    BY <1>6 DEF AddMessage
  <2>5. messageCall' \in MessageCalls
    BY <1>n, <2>3, <2>4 DEF Calls, MessageCalls
  <2>6. MessageTypes'
    BY <1>0, <1>6, <2>2, <2>5 DEF AddMessage, MessageTypes
  <2>7. QED
    BY <1>6, <1>a, <1>c, <1>r, <2>6 DEF AddMessage
<1>7. ASSUME AppendMessage
      PROVE  TypesInv'
  <2>1. messageLog \in Seq(LineType) /\ messageCall.own \in Seq(LineType)
    BY <1>0 DEF MessageTypes, Calls, MessageCalls
  <2>2. messageLog \o messageCall.own \in Seq(LineType)
    BY <2>1, ConcatProperties
  <2>3. MessageTypes'
    BY <1>0, <1>7, <1>n, <2>2 DEF AppendMessage, MessageTypes
  <2>4. QED
    BY <1>7, <1>a, <1>u, <1>r, <2>3 DEF AppendMessage
<1>8. ASSUME NEW n \in Names, NEW msgs \in Given(n), UpdateMessages(n, msgs)
      PROVE  TypesInv'
  <2>1. msgs \in Seq(MessageType)
    BY <1>0, GivenHasType DEF MessageTypes
  <2>2. queue' \in [Names -> Seq(MessageType)]
    BY <1>0, <1>8, <2>1 DEF UpdateMessages, MessageTypes
  <2>3. Lines(n, RealOnes(msgs)) \in Seq(LineType)
    BY <2>1, FiltersHaveTypes
  <2>4. messageCall' = [NoCall EXCEPT !.next = "truncate", !.name = n,
                                      !.was = queue[n],
                                      !.own = Lines(n, RealOnes(msgs))]
    BY <1>8, Zenon DEF UpdateMessages, Lines
  <2>a. queue[n] \in Seq(MessageType)
    BY <1>0 DEF MessageTypes
  <2>5. messageCall' \in MessageCalls
    BY <1>n, <2>3, <2>4, <2>a DEF Calls, MessageCalls
  <2>6. MessageTypes'
    BY <1>0, <1>8, <2>2, <2>5 DEF UpdateMessages, MessageTypes
  <2>7. QED
    BY <1>8, <1>a, <1>c, <1>r, <2>6 DEF UpdateMessages
<1>9. ASSUME TruncateMessages
      PROVE  TypesInv'
  <2>1. OtherMessages(messageCall.name) \in Seq(LineType)
    BY <1>0, FiltersHaveTypes DEF MessageTypes
  <2>2. MessageTypes'
    BY <1>0, <1>9, <2>1, EmptySeq
    DEF TruncateMessages, MessageTypes, Calls, MessageCalls
  <2>3. QED
    BY <1>9, <1>a, <1>u, <1>r, <2>2 DEF TruncateMessages
<1>10. ASSUME FlushMessages
       PROVE  TypesInv'
  <2>1. messageCall' \in MessageCalls
    <3>1. CASE messageCall.own = <<>>
      BY <1>10, <1>n, <3>1 DEF FlushMessages
    <3>2. CASE messageCall.own # <<>>
      BY <1>0, <1>10, <3>2, EmptySeq
      DEF FlushMessages, MessageTypes, Calls, MessageCalls
    <3>3. QED
      BY <3>1, <3>2
  <2>2. MessageTypes'
    BY <1>0, <1>10, <2>1 DEF FlushMessages, MessageTypes, Calls, MessageCalls
  <2>3. QED
    BY <1>10, <1>a, <1>u, <1>r, <2>2 DEF FlushMessages
<1>11. ASSUME WriteMessage
       PROVE  TypesInv'
  <2>1. messageLog \in Seq(LineType) /\ messageCall.own \in Seq(LineType)
    BY <1>0 DEF MessageTypes, Calls, MessageCalls
  <2>2. messageCall.own # <<>>
    BY <1>0, <1>11 DEF WriteMessage, MessageTypes, MessageCalls
  <2>3. /\ Head(messageCall.own) \in LineType
        /\ Tail(messageCall.own) \in Seq(LineType)
    BY <2>1, <2>2, HeadTailProperties
  <2>4. messageLog' \in Seq(LineType)
    BY <1>11, <2>1, <2>3, AppendProperties DEF WriteMessage
  <2>5. messageCall' \in MessageCalls
    <3>1. CASE Len(messageCall.own) = 1
      BY <1>11, <1>n, <3>1 DEF WriteMessage
    <3>2. CASE Len(messageCall.own) # 1
      <4>1. Tail(messageCall.own) # <<>>
        <5>1. /\ Len(messageCall.own) \in Nat \ {0}
              /\ Len(Tail(messageCall.own)) = Len(messageCall.own) - 1
          BY <2>1, <2>2, HeadTailProperties, EmptySeq
        <5>2. Len(Tail(messageCall.own)) # 0
          BY <3>2, <5>1, SMT
        <5>3. QED
          BY <5>2, EmptySeq
      <4>2. messageCall' = [messageCall EXCEPT !.own = Tail(@)]
        BY <1>11, <3>2 DEF WriteMessage
      <4>3. messageCall \in MessageCalls
        BY <1>0 DEF MessageTypes
      <4>4. QED
        BY <2>3, <4>1, <4>2, <4>3 DEF Calls, MessageCalls
    <3>3. QED
      BY <3>1, <3>2
  <2>6. MessageTypes'
    BY <1>0, <1>11, <2>4, <2>5 DEF WriteMessage, MessageTypes
  <2>7. QED
    BY <1>11, <1>a, <1>u, <1>r, <2>6 DEF WriteMessage
<1>12. ASSUME Kill
       PROVE  TypesInv'
  <2>1. /\ accountLog' \in Prefixes(accountCall.lines) \/ accountLog' = accountLog
        /\ messageLog' \in Prefixes(messageCall.lines) \/ messageLog' = messageLog
    BY <1>12, Zenon DEF Kill
  <2>2. accountLog' \in Seq(Names) /\ messageLog' \in Seq(LineType)
    BY <1>0, <2>1, PrefixesHaveTypes
    DEF AccountTypes, MessageTypes, Calls, AccountCalls, MessageCalls
  <2>3. AccountTypes' /\ MessageTypes'
    BY <1>0, <1>12, <2>2, Zenon DEF AccountTypes, MessageTypes, Kill
  <2>4. RunTypes'
    <3>1. kills < MaxKills /\ kills' = kills + 1 /\ up' = FALSE /\ calls' = calls
      BY <1>12, Zenon DEF Kill
    <3>2. /\ kills \in 0 .. MaxKills /\ calls \in 0 .. MaxCalls
          /\ MaxKills \in Nat
      BY <1>0, StoresAssumptions DEF RunTypes
    <3>3. kills' \in 0 .. MaxKills
      BY ONLY <3>1, <3>2, SMT
    <3>4. QED
      BY <3>1, <3>2, <3>3, Zenon DEF RunTypes
  <2>5. QED
    BY <1>r, <2>3, <2>4
<1>13. ASSUME Start
       PROVE  TypesInv'
  <2>1. ReadAccounts \in Seq(Names)
    <3>1. /\ Len(accountLog) \in Nat /\ DOMAIN accountLog = 1 .. Len(accountLog)
          /\ \A i \in 1 .. Len(accountLog) : accountLog[i] \in Names
      BY <1>0, LenProperties, ElementOfSeq DEF AccountTypes
    <3>2. \A i \in 1 .. Len(accountLog) : Plain[accountLog[i]] \in Names
      BY <3>1, StoresAssumptions
    <3>3. QED
      BY <3>1, <3>2, SMT DEF ReadAccounts
  <2>2. \A n \in Names : ReadMessages(n) \in Seq(MessageType)
    BY <1>0, FiltersHaveTypes DEF MessageTypes
  <2>3. AccountTypes'
    BY <1>0, <1>13, <1>n, <2>1, Zenon DEF Start, AccountTypes
  <2>4. MessageTypes'
    BY <1>0, <1>13, <1>n, <2>2, Zenon DEF Start, MessageTypes
  <2>5. RunTypes'
    BY <1>0, <1>13, Zenon DEF Start, RunTypes
  <2>6. QED
    BY <1>r, <2>3, <2>4, <2>5
<1>14. CASE UNCHANGED vars
  BY <1>14, <1>a, <1>m, <1>u, <1>r, Zenon DEF vars
<1>15. QED
  BY <1>1, <1>2, <1>3, <1>4, <1>5, <1>6, <1>7, <1>8, <1>9, <1>10, <1>11,
     <1>12, <1>13, <1>14, Zenon DEF Next

\* The tables, the files and the calls keep to their types, whatever is called
\* and whenever the server is killed: no empty name gets into a file or into the
\* list of accounts.
THEOREM StoresHaveTypes == Spec => []StoresTypeOK
<1>1. Init => TypesInv
  BY TypesStart
<1>2. TypesInv /\ [Next]_vars => TypesInv'
  BY TypesStep
<1>3. QED
  BY <1>1, <1>2, TypesImplied, PTL DEF Spec

-----------------------------------------------------------------------------
(* Servers that cannot be started again.  A line that ends the start is in   *)
(* the file only while a message without text waits for its recipient; but   *)
(* for the recipient of a call that is about to write the file anew.         *)

HasBlank(msgs) == \E i \in DOMAIN msgs : Blank(msgs[i])

BlanksWait(ls, q, n) ==
    \A i \in DOMAIN ls : TooShort(ls[i]) => ls[i].to = n \/ HasBlank(q[ls[i].to])

Rewritten == IF messageCall.next = "truncate" THEN messageCall.name ELSE Nobody

BlankInv ==
    /\ BlanksWait(messageLog, queue, Rewritten)
    /\ BlanksWait(messageCall.lines, queue, Nobody)
    /\ BlanksWait(messageCall.own, queue, Nobody)

LEMMA BlanksOfConcat ==
    ASSUME NEW s \in Seq(LineType), NEW t \in Seq(LineType), NEW q, NEW n,
           BlanksWait(s, q, n), BlanksWait(t, q, n)
    PROVE  BlanksWait(s \o t, q, n)
<1>1. ASSUME NEW i \in DOMAIN (s \o t)
      PROVE  \/ \E j \in DOMAIN s : (s \o t)[i] = s[j]
             \/ \E j \in DOMAIN t : (s \o t)[i] = t[j]
  <2>1. /\ Len(s) \in Nat /\ Len(t) \in Nat
        /\ DOMAIN s = 1 .. Len(s) /\ DOMAIN t = 1 .. Len(t)
    BY LenProperties
  <2>2. /\ s \o t \in Seq(LineType) /\ Len(s \o t) = Len(s) + Len(t)
        /\ \A k \in 1 .. Len(s) + Len(t) :
               (s \o t)[k] = IF k <= Len(s) THEN s[k] ELSE t[k - Len(s)]
    BY ConcatProperties
  <2>3. i \in 1 .. Len(s) + Len(t)
    BY <2>2, LenProperties
  <2>4. CASE i <= Len(s)
    <3>1. i \in DOMAIN s
      BY <2>1, <2>3, <2>4, SMT
    <3>2. QED
      BY <2>2, <2>3, <2>4, <3>1
  <2>5. CASE ~(i <= Len(s))
    <3>1. i - Len(s) \in DOMAIN t
      BY <2>1, <2>3, <2>5, SMT
    <3>2. QED
      BY <2>2, <2>3, <2>5, <3>1
  <2>6. QED
    BY <2>4, <2>5
<1>2. QED
  BY <1>1, Zenon DEF BlanksWait

LEMMA BlanksOfPrefix ==
    ASSUME NEW s \in Seq(LineType), NEW p \in Prefixes(s), NEW q, NEW n,
           BlanksWait(s, q, n)
    PROVE  BlanksWait(p, q, n)
<1>1. PICK k \in 0 .. Len(s) : p = SubSeq(s, 1, k)
  BY DEF Prefixes
<1>2. \A i \in DOMAIN p : i \in DOMAIN s /\ p[i] = s[i]
  BY <1>1, SMT
<1>3. QED
  BY <1>2, Zenon DEF BlanksWait

LEMMA BlanksOfTail ==
    ASSUME NEW s \in Seq(LineType), s # <<>>, NEW q, NEW n,
           BlanksWait(s, q, n)
    PROVE  BlanksWait(<<Head(s)>>, q, n) /\ BlanksWait(Tail(s), q, n)
<1>1. /\ Len(s) \in Nat \ {0} /\ DOMAIN s = 1 .. Len(s)
      /\ Tail(s) \in Seq(LineType) /\ Len(Tail(s)) = Len(s) - 1
      /\ \A i \in 1 .. Len(Tail(s)) : Tail(s)[i] = s[i + 1]
  BY EmptySeq, LenProperties, HeadTailProperties
<1>2. DOMAIN Tail(s) = 1 .. Len(s) - 1
  BY <1>1, LenProperties
<1>3. \A i \in 1 .. Len(s) - 1 : i + 1 \in DOMAIN s
  BY <1>1, SMT
<1>4. \A i \in DOMAIN Tail(s) : i + 1 \in DOMAIN s /\ Tail(s)[i] = s[i + 1]
  BY <1>1, <1>2, <1>3
<1>5. 1 \in DOMAIN s /\ Head(s) = s[1]
  BY <1>1, SMT
<1>6. \A i \in DOMAIN <<Head(s)>> : <<Head(s)>>[i] = s[1]
  BY <1>5, SMT
<1>7. BlanksWait(<<Head(s)>>, q, n)
  BY <1>5, <1>6, Zenon DEF BlanksWait
<1>8. BlanksWait(Tail(s), q, n)
  BY <1>4, Zenon DEF BlanksWait
<1>9. QED
  BY <1>7, <1>8

\* Queues that keep what they have.
LEMMA BlanksOfGrowth ==
    ASSUME NEW s \in Seq(LineType), NEW n, NEW q, NEW r,
           \A m \in Names : m # n /\ HasBlank(q[m]) => HasBlank(r[m]),
           BlanksWait(s, q, Nobody)
    PROVE  BlanksWait(s, r, n)
<1>1. \A i \in DOMAIN s : s[i] \in LineType
  BY LenProperties, ElementOfSeq
<1>2. \A i \in DOMAIN s : s[i].to \in Names
  BY <1>1 DEF LineType
<1>3. QED
  BY <1>2, StoresAssumptions, Zenon DEF BlanksWait

LEMMA BlankStart == Init => BlankInv
<1> SUFFICES ASSUME Init
             PROVE  BlankInv
  OBVIOUS
<1>1. \A q, n : BlanksWait(<<>>, q, n)
  <2>1. DOMAIN <<>> = {}
    BY SMT
  <2>2. QED
    BY <2>1, Zenon DEF BlanksWait
<1>2. messageLog = <<>> /\ messageCall.lines = <<>> /\ messageCall.own = <<>>
  BY DEF Init, NoCall
<1>3. QED
  BY <1>1, <1>2, Zenon DEF BlankInv

LEMMA BlankStep ==
    ASSUME Before = {}
    PROVE  TypesInv /\ TypesInv' /\ BlankInv /\ [Next]_vars => BlankInv'
<1> SUFFICES ASSUME TypesInv, TypesInv', BlankInv, [Next]_vars
             PROVE  BlankInv'
  OBVIOUS
<1>0. /\ queue \in [Names -> Seq(MessageType)]
      /\ messageLog \in Seq(LineType)
      /\ messageCall.lines \in Seq(LineType)
      /\ messageCall.own \in Seq(LineType)
  BY DEF TypesInv, MessageTypes, MessageCalls, Calls
<1>e. \A q, n : BlanksWait(<<>>, q, n)
  <2>1. DOMAIN <<>> = {}
    BY SMT
  <2>2. QED
    BY <2>1, Zenon DEF BlanksWait
<1>f. /\ NoCall.next = "none" /\ NoCall.lines = <<>> /\ NoCall.own = <<>>
  BY DEF NoCall
<1>u. ASSUME UNCHANGED messageVars
      PROVE  BlankInv'
  BY <1>u, Zenon DEF messageVars, BlankInv, Rewritten
<1>1. ASSUME NEW to \in Names, NEW from \in Names, NEW text \in Texts,
             AddMessage(to, from, text)
      PROVE  BlankInv'
  <2> DEFINE msg == [from |-> from, text |-> text]
  <2>1. /\ queue' = [queue EXCEPT ![to] = Append(@, msg)]
        /\ messageLog' = messageLog
        /\ messageCall = NoCall
        /\ messageCall' = [NoCall EXCEPT !.next = "append", !.name = to,
                                         !.own = <<Line(to, msg)>>]
    BY <1>1 DEF AddMessage
  <2>2. /\ messageCall'.lines = <<>> /\ messageCall'.next = "append"
        /\ messageCall'.own = <<Line(to, msg)>>
    BY <2>1 DEF NoCall
  <2>3. msg \in MessageType /\ queue[to] \in Seq(MessageType)
    BY <1>0 DEF MessageType
  <2>4. /\ \A i \in DOMAIN queue[to] : /\ i \in DOMAIN queue'[to]
                                       /\ queue'[to][i] = queue[to][i]
        /\ \E i \in DOMAIN queue'[to] : queue'[to][i] = msg
    <3>1. queue'[to] = Append(queue[to], msg)
      BY <1>0, <2>1
    <3>2. PICK s \in Seq(MessageType) : s = queue[to]
      BY <2>3
    <3> HIDE DEF msg
    <3>3. /\ Len(s) \in Nat /\ DOMAIN s = 1 .. Len(s)
          /\ DOMAIN Append(s, msg) = 1 .. Len(s) + 1
          /\ \A i \in 1 .. Len(s) : Append(s, msg)[i] = s[i]
          /\ Append(s, msg)[Len(s) + 1] = msg
      BY <2>3, AppendProperties, LenProperties
    <3>4. /\ \A i \in 1 .. Len(s) : i \in 1 .. Len(s) + 1
          /\ Len(s) + 1 \in 1 .. Len(s) + 1
      BY <3>3, SMT
    <3>5. QED
      BY <3>1, <3>2, <3>3, <3>4
  <2>5. \A m \in Names : m # Nobody /\ HasBlank(queue[m]) => HasBlank(queue'[m])
    <3>1. \A m \in Names : m # to => queue'[m] = queue[m]
      BY <1>0, <2>1
    <3>2. HasBlank(queue[to]) => HasBlank(queue'[to])
      BY <2>4, Zenon DEF HasBlank
    <3>3. QED
      BY <3>1, <3>2, Zenon
  <2>6. BlanksWait(messageLog, queue', Nobody)
    <3>1. BlanksWait(messageLog, queue, Nobody)
      BY <1>f, <2>1 DEF BlankInv, Rewritten
    <3>2. QED
      BY <1>0, <2>5, <3>1, BlanksOfGrowth
  <2>7. BlanksWait(<<Line(to, msg)>>, queue', Nobody)
    <3>1. /\ \A i \in DOMAIN <<Line(to, msg)>> :
                 <<Line(to, msg)>>[i] = Line(to, msg)
          /\ Line(to, msg).to = to /\ Line(to, msg).text = text
          /\ msg.text = text
      BY DEF Line
    <3>2. TooShort(Line(to, msg)) => Blank(msg)
      BY <3>1, Zenon DEF TooShort, Blank
    <3>3. Blank(msg) => HasBlank(queue'[to])
      BY <2>4, Zenon DEF HasBlank
    <3> HIDE DEF msg
    <3>4. QED
      BY <3>1, <3>2, <3>3, Zenon DEF BlanksWait
  <2>8. Rewritten' = Nobody
    BY <2>2 DEF Rewritten
  <2>9. QED
    BY <1>e, <2>1, <2>2, <2>6, <2>7, <2>8 DEF BlankInv
<1>2. ASSUME AppendMessage
      PROVE  BlankInv'
  <2>1. /\ messageCall.next = "append" /\ queue' = queue
        /\ messageLog' = messageLog \o messageCall.own
        /\ messageCall' = NoCall
    BY <1>2 DEF AppendMessage
  <2>2. BlanksWait(messageLog, queue, Nobody)
    BY <2>1 DEF BlankInv, Rewritten
  <2>3. BlanksWait(messageLog \o messageCall.own, queue, Nobody)
    BY <1>0, <2>2, BlanksOfConcat DEF BlankInv
  <2>4. Rewritten' = Nobody
    BY <1>f, <2>1 DEF Rewritten
  <2>5. QED
    BY <1>e, <1>f, <2>1, <2>3, <2>4 DEF BlankInv
<1>3. ASSUME NEW n \in Names, NEW msgs \in Given(n), UpdateMessages(n, msgs)
      PROVE  BlankInv'
  <2> DEFINE kept == RealOnes(msgs)
  <2>1. /\ messageCall = NoCall /\ messageLog' = messageLog
        /\ queue' = [queue EXCEPT ![n] = msgs]
        /\ messageCall' = [NoCall EXCEPT !.next = "truncate", !.name = n,
                                         !.was = queue[n],
                                         !.own = Lines(n, kept)]
    BY <1>3, Zenon DEF UpdateMessages, Lines
  <2>2. /\ messageCall'.next = "truncate" /\ messageCall'.name = n
        /\ messageCall'.lines = <<>> /\ messageCall'.own = Lines(n, kept)
    BY <2>1 DEF NoCall
  <2>3. queue'[n] = msgs /\ \A m \in Names : m # n => queue'[m] = queue[m]
    BY <1>0, <2>1
  <2>4. BlanksWait(messageLog, queue', n)
    <3>1. BlanksWait(messageLog, queue, Nobody)
      BY <1>f, <2>1 DEF BlankInv, Rewritten
    <3>2. QED
      BY <1>0, <2>3, <3>1, BlanksOfGrowth
  <2>5. BlanksWait(Lines(n, kept), queue', Nobody)
    <3>1. msgs \in Seq(MessageType) /\ kept = Kept(msgs, RealMessages)
      BY <1>0, GivenHasType, FiltersKeep
    <3>2. ASSUME NEW i \in DOMAIN kept, TooShort(Line(n, kept[i]))
          PROVE  HasBlank(queue'[n])
      <4>1. PICK j \in DOMAIN msgs : kept[i] = msgs[j]
        BY <3>1, KeptWasThere
      <4>2. Blank(msgs[j])
        BY <3>2, <4>1 DEF TooShort, Blank, Line
      <4>3. QED
        BY <2>3, <4>2 DEF HasBlank
    <3> HIDE DEF kept
    <3>3. /\ DOMAIN Lines(n, kept) = DOMAIN kept
          /\ \A i \in DOMAIN kept : /\ Lines(n, kept)[i] = Line(n, kept[i])
                                    /\ Line(n, kept[i]).to = n
      BY DEF Lines, Line
    <3>4. QED
      BY <3>2, <3>3, Zenon DEF BlanksWait
  <2>6. Rewritten' = n
    BY <2>2 DEF Rewritten
  <2>7. QED
    BY <1>e, <2>1, <2>2, <2>4, <2>5, <2>6 DEF BlankInv
<1>4. ASSUME TruncateMessages
      PROVE  BlankInv'
  <2>1. PICK n \in Names : n = messageCall.name
    BY <1>4 DEF TypesInv, MessageTypes, MessageCalls, TruncateMessages
  <2>2. /\ messageCall.next = "truncate" /\ queue' = queue
        /\ messageLog' = <<>>
        /\ messageCall'.next = "flush" /\ messageCall'.own = messageCall.own
        /\ messageCall'.lines = OtherMessages(n)
    BY <1>4, <2>1
    DEF TruncateMessages, TypesInv, MessageTypes, MessageCalls, Calls
  <2>3. BlanksWait(messageLog, queue, n)
    BY <2>1, <2>2 DEF BlankInv, Rewritten
  <2>4. BlanksWait(OtherMessages(n), queue, Nobody)
    <3> DEFINE kept == Kept(messageLog, LinesBut(n))
    <3>1. OtherMessages(n) = kept
      BY <1>0, FiltersKeep
    <3>2. ASSUME NEW i \in DOMAIN kept, TooShort(kept[i])
          PROVE  HasBlank(queue[kept[i].to])
      <4>1. PICK j \in DOMAIN messageLog :
                messageLog[j] \in LinesBut(n) /\ kept[i] = messageLog[j]
        BY <1>0, KeptWasThere
      <4>2. Plain[messageLog[j].to] # n /\ messageLog[j].to \in Names
        BY <4>1 DEF LinesBut, LineType
      <4>3. messageLog[j].to \notin After
        BY <3>2, <4>1 DEF TooShort, Shifted
      <4>4. messageLog[j].to # n
        BY <4>2, <4>3, StoresAssumptions
      <4>5. QED
        BY <2>3, <3>2, <4>1, <4>4, Zenon DEF BlanksWait
    <3> HIDE DEF kept
    <3>3. BlanksWait(kept, queue, Nobody)
      BY <3>2, Zenon DEF BlanksWait
    <3>4. QED
      BY <3>1, <3>3
  <2>5. QED
    BY <1>e, <2>2, <2>4 DEF BlankInv
<1>5. ASSUME FlushMessages
      PROVE  BlankInv'
  <2>1. /\ queue' = queue /\ messageLog' = messageCall.lines
        /\ messageCall'.next # "truncate"
        /\ messageCall'.lines = <<>>
        /\ messageCall'.own = <<>> \/ messageCall'.own = messageCall.own
    BY <1>5, <1>f DEF FlushMessages, TypesInv, MessageTypes, MessageCalls, Calls
  <2>2. Rewritten' = Nobody
    BY <2>1 DEF Rewritten
  <2>3. QED
    BY <1>e, <2>1, <2>2 DEF BlankInv
<1>6. ASSUME WriteMessage
      PROVE  BlankInv'
  <2>1. /\ messageCall.next = "own" /\ messageCall.own # <<>>
        /\ queue' = queue
        /\ messageLog' = Append(messageLog, Head(messageCall.own))
        /\ messageCall'.next # "truncate"
        /\ \/ messageCall'.lines = <<>>
           \/ messageCall'.lines = messageCall.lines
        /\ \/ messageCall'.own = <<>>
           \/ messageCall'.own = Tail(messageCall.own)
    BY <1>6, <1>f DEF WriteMessage, TypesInv, MessageTypes, MessageCalls, Calls
  <2>2. /\ BlanksWait(<<Head(messageCall.own)>>, queue, Nobody)
        /\ BlanksWait(Tail(messageCall.own), queue, Nobody)
    BY <1>0, <2>1, BlanksOfTail DEF BlankInv
  <2>3. BlanksWait(messageLog, queue, Nobody)
    BY <2>1 DEF BlankInv, Rewritten
  <2>4. BlanksWait(messageLog', queue, Nobody)
    <3>1. PICK l \in LineType : l = Head(messageCall.own)
      BY <1>0, <2>1, HeadTailProperties
    <3>2. messageLog' = messageLog \o <<l>>
      BY <1>0, <2>1, <3>1, AppendIsConcat
    <3>3. <<l>> \in Seq(LineType)
      BY SMT
    <3>4. BlanksWait(<<l>>, queue, Nobody)
      BY <2>2, <3>1
    <3>5. QED
      BY <1>0, <2>3, <3>2, <3>3, <3>4, BlanksOfConcat
  <2>5. Rewritten' = Nobody
    BY <2>1 DEF Rewritten
  <2>6. QED
    BY <1>e, <2>1, <2>2, <2>4, <2>5, Zenon DEF BlankInv
<1>7. ASSUME Kill
      PROVE  BlankInv'
  <2>1. queue' = queue /\ messageCall' = messageCall
    BY <1>7, Zenon DEF Kill
  <2>2. \/ messageLog' = messageLog
        \/ /\ messageCall.next = "flush"
           /\ messageLog' \in Prefixes(messageCall.lines)
    BY <1>7, Zenon DEF Kill
  <2>3. CASE messageLog' = messageLog
    BY <1>u, <2>1, <2>3 DEF messageVars
  <2>4. CASE /\ messageCall.next = "flush"
             /\ messageLog' \in Prefixes(messageCall.lines)
    <3>1. BlanksWait(messageLog', queue, Nobody)
      BY <1>0, <2>4, BlanksOfPrefix DEF BlankInv
    <3>2. Rewritten' = Nobody
      BY <2>1, <2>4 DEF Rewritten
    <3>3. QED
      BY <2>1, <3>1, <3>2 DEF BlankInv
  <2>5. QED
    BY <2>2, <2>3, <2>4
<1>8. ASSUME Start
      PROVE  BlankInv'
  <2>1. /\ messageLog' = messageLog /\ messageCall' = NoCall
        /\ \A i \in DOMAIN messageLog : ~TooShort(messageLog[i])
    BY <1>8 DEF Start, Readable
  <2>2. BlanksWait(messageLog', queue', Rewritten')
    BY <2>1, Zenon DEF BlanksWait
  <2>3. QED
    BY <1>e, <1>f, <2>1, <2>2 DEF BlankInv
<1>9. CASE UNCHANGED vars
  BY <1>9, <1>u, Zenon DEF vars
<1>10. ASSUME \/ \E n \in Names : CreateAccount(n) \/ RemoveAccount(n)
              \/ AppendAccount \/ TruncateAccounts \/ FlushAccounts
       PROVE  BlankInv'
  BY <1>10, <1>u, Zenon DEF CreateAccount, RemoveAccount, AppendAccount,
     TruncateAccounts, FlushAccounts
<1>11. QED
  BY <1>1, <1>2, <1>3, <1>4, <1>5, <1>6, <1>7, <1>8, <1>9, <1>10, Zenon DEF Next

\* While no name has a space before it, a server that has ended and cannot be
\* started again has a message without text waiting in memory, or was about to
\* hand one over for good: nothing else makes the start read a line of two words
\* and end with ValueError.
THEOREM OnlyBlanksEndTheStart ==
    ASSUME Before = {}
    PROVE  Spec => []OnlyBlanksPreventStart
<1>1. Init => TypesInv /\ BlankInv
  BY TypesStart, BlankStart
<1>2. TypesInv /\ BlankInv /\ [Next]_vars => (TypesInv /\ BlankInv)'
  BY TypesStep, BlankStep
<1>3. TypesInv /\ BlankInv => OnlyBlanksPreventStart
  <2> SUFFICES ASSUME TypesInv, BlankInv, ~Readable,
                      messageCall.next # "truncate"
               PROVE  \E n \in Names : HasBlank(queue[n])
    BY Zenon DEF OnlyBlanksPreventStart, HasBlank
  <2>1. PICK i \in DOMAIN messageLog : TooShort(messageLog[i])
    BY DEF Readable
  <2>2. messageLog[i] \in LineType
    <3>1. messageLog \in Seq(LineType)
      BY DEF TypesInv, MessageTypes
    <3>2. QED
      BY <3>1, LenProperties, ElementOfSeq
  <2>3. messageLog[i].to \in Names /\ messageLog[i].to # Nobody
    BY <2>2, StoresAssumptions DEF LineType
  <2>4. BlanksWait(messageLog, queue, Nobody)
    BY DEF BlankInv, Rewritten
  <2>5. QED
    BY <2>1, <2>3, <2>4, Zenon DEF BlanksWait
<1>4. QED
  BY <1>1, <1>2, <1>3, PTL DEF Spec

-----------------------------------------------------------------------------
(* Files and tables.  A name with a space beside it is read back as another, *)
(* and the theorems that follow are about servers without such names.        *)

Unpadded == Before = {} /\ After = {}

LEMMA NamesArePlain ==
    ASSUME Unpadded
    PROVE  /\ \A n \in Names : Plain[n] = n
           /\ \A n : NamesBut(n) = Names \ {n}
           /\ \A n : LinesFor(n) = {l \in LineType : l.to = n}
           /\ \A n : LinesBut(n) = {l \in LineType : l.to # n}
           /\ \A l \in LineType :
                  /\ ReadMessage(l) = [from |-> l.from, text |-> Trim[l.text]]
                  /\ TooShort(l) <=> Trim[l.text] = Empty
<1>1. \A n \in Names : Plain[n] = n
  BY StoresAssumptions DEF Unpadded
<1>2. \A l \in LineType : Plain[l.to] = l.to /\ Plain[l.from] = l.from
  BY <1>1 DEF LineType
<1>3. \A n : NamesBut(n) = Names \ {n}
  BY <1>1 DEF NamesBut
<1>4. \A n : /\ LinesFor(n) = {l \in LineType : l.to = n}
             /\ LinesBut(n) = {l \in LineType : l.to # n}
  BY <1>2 DEF LinesFor, LinesBut
<1>5. \A l : ~Shifted(l)
  BY DEF Unpadded, Shifted
<1>6. \A l \in LineType :
          /\ ReadMessage(l) = [from |-> l.from, text |-> Trim[l.text]]
          /\ TooShort(l) <=> Trim[l.text] = Empty
  BY <1>2, <1>5 DEF ReadMessage, TooShort
<1>7. QED
  BY <1>1, <1>3, <1>4, <1>6

LEMMA PrefixIsContinued ==
    ASSUME NEW T, NEW s \in Seq(T), NEW p \in Prefixes(s)
    PROVE  \E t \in Seq(T) : s = p \o t
<1>1. PICK k \in 0 .. Len(s) : p = SubSeq(s, 1, k)
  BY DEF Prefixes
<1>2. CASE Len(s) = 0
  <2>1. s = <<>> /\ p = <<>> /\ <<>> \in Seq(T)
    BY <1>1, <1>2, SMT
  <2>2. s = p \o <<>>
    BY <2>1, ConcatEmptySeq
  <2>3. QED
    BY <2>1, <2>2
<1>3. CASE Len(s) # 0
  <2>1. Len(s) \in Nat
    BY LenProperties
  <2>2. /\ 1 \in 1 .. Len(s) + 1 /\ k \in 1 - 1 .. Len(s)
        /\ Len(s) \in k .. Len(s)
    BY <2>1, SMT
  <2>3. SubSeq(s, 1, k) \o SubSeq(s, k + 1, Len(s)) = SubSeq(s, 1, Len(s))
    BY <2>2, ConcatAdjacentSubSeq
  <2>4. SubSeq(s, k + 1, Len(s)) \in Seq(T)
    BY SMT
  <2>5. SubSeq(s, 1, Len(s)) = s
    BY SubSeqFull
  <2>6. QED
    BY <1>1, <2>3, <2>4, <2>5, Zenon
<1>4. QED
  BY <1>2, <1>3

LEMMA ContinuedIsPrefix ==
    ASSUME NEW T, NEW s \in Seq(T), NEW t \in Seq(T)
    PROVE  IsPrefix(s, s \o t)
<1>1. /\ Len(s) \in Nat /\ Len(t) \in Nat /\ s \o t \in Seq(T)
      /\ Len(s \o t) = Len(s) + Len(t)
      /\ \A i \in 1 .. Len(s) + Len(t) :
             (s \o t)[i] = IF i <= Len(s) THEN s[i] ELSE t[i - Len(s)]
  BY LenProperties, ConcatProperties
<1>2. PICK u \in Seq(T) : u = s \o t
  BY <1>1
<1>3. \A i \in 1 .. Len(s) : u[i] = s[i]
  BY <1>1, <1>2, SMT
<1>4. Len(s) <= Len(u)
  BY <1>1, <1>2, SMT
<1>5. SubSeq(u, 1, Len(s)) = s
  <2>1. /\ SubSeq(u, 1, Len(s)) \in Seq(T)
        /\ Len(SubSeq(u, 1, Len(s))) = Len(s)
        /\ \A i \in 1 .. Len(s) : SubSeq(u, 1, Len(s))[i] = u[i]
    BY <1>1, <1>4, SMT
  <2>2. QED
    BY <1>3, <2>1, SeqEqual
<1>6. SubSeq(s, 1, Len(s)) = s
  BY SubSeqFull
<1>7. QED
  BY <1>2, <1>4, <1>5, <1>6 DEF IsPrefix

-----------------------------------------------------------------------------
(* The list of accounts.                                                     *)

LEMMA KeptHasType ==
    ASSUME NEW T, NEW S, NEW s \in Seq(T)
    PROVE  Kept(s, S) \in Seq(T)
<1>1. Kept(s, S) \in Seq(T \cap S)
  BY KeptLength
<1>2. QED
  BY <1>1, SeqMonotonic

(* RemoveFirst takes one of the element from a sequence and no other.        *)

LEMMA TimesAreKept ==
    ASSUME NEW s \in Seq(Names), NEW n
    PROVE  /\ Times(s, n) = Len(Kept(s, {n}))
           /\ Times(s, n) \in Nat
           /\ Contains(s, n) <=> Times(s, n) # 0
<1>1. {i \in DOMAIN s : s[i] = n} = Places(s, {n})
  BY DEF Places
<1>2. Times(s, n) = Cardinality(Places(s, {n}))
  BY <1>1, Zenon DEF Times
<1>3. /\ Len(Kept(s, {n})) = Cardinality(Places(s, {n}))
      /\ Cardinality(Places(s, {n})) \in Nat /\ IsFiniteSet(Places(s, {n}))
  BY KeptLength
<1>4. Cardinality(Places(s, {n})) # 0 <=> Places(s, {n}) # {}
  BY <1>3, FS_EmptySet
<1>5. DOMAIN s = 1 .. Len(s)
  BY LenProperties
<1>6. Contains(s, n) <=> Places(s, {n}) # {}
  BY <1>5 DEF Contains, Places
<1>7. QED
  BY <1>2, <1>3, <1>4, <1>6

LEMMA RemoveFirstOfNone ==
    ASSUME NEW T, NEW s \in Seq(T), NEW e, ~Contains(s, e)
    PROVE  RemoveFirst(s, e) = s
BY Zenon DEF RemoveFirst, Contains

Splits(s, e, a, b) == s = a \o (<<e>> \o b) /\ RemoveFirst(s, e) = a \o b

LEMMA RemoveFirstSplits ==
    ASSUME NEW T, NEW s \in Seq(T), NEW e, Contains(s, e)
    PROVE  e \in T /\ \E a, b \in Seq(T) : Splits(s, e, a, b)
<1>0. Len(s) \in Nat /\ DOMAIN s = 1 .. Len(s) /\ s \in [1 .. Len(s) -> T]
  BY LenProperties
<1>1. \E i \in 1 .. Len(s) : s[i] = e
  BY DEF Contains
<1> DEFINE I == {i \in 1 .. Len(s) : s[i] = e}
           p == SelectInSeq(s, LAMBDA v : v = e)
<1>2. p \in 1 .. Len(s) /\ s[p] = e
  <2>1. I \in SUBSET Nat /\ I # {}
    BY <1>0, <1>1, SMT
  <2>2. \E x \in I : \A y \in I : x <= y
    BY <2>1, LeastNumber
  <2>3. (CHOOSE x \in I : \A y \in I : x <= y) \in I
    BY <2>2, Zenon
  <2>4. p \in I
    BY <2>1, <2>3 DEF SelectInSeq, Min
  <2>5. QED
    BY <2>4
<1> DEFINE a == SubSeq(s, 1, p - 1)
           b == SubSeq(s, p + 1, Len(s))
<1>3. RemoveFirst(s, e) = a \o b
  BY <1>1, Zenon DEF RemoveFirst, RemoveAt
<1> HIDE DEF I, p
<1>4. /\ p \in Int /\ p - 1 \in Int /\ p + 1 \in Int
      /\ a \in Seq(T) /\ b \in Seq(T)
  BY <1>0, <1>2, SMT
<1>5. e \in T
  BY <1>0, <1>2
<1>6. SubSeq(s, p, Len(s)) = <<e>> \o b
  <2>1. Len(s) \in p .. Len(s)
    BY <1>0, <1>2, SMT
  <2>2. QED
    BY <1>2, <2>1, SubSeqRecursiveFirst
<1>7. a \o SubSeq(s, p, Len(s)) = s
  <2>1. /\ 1 \in 1 .. Len(s) + 1 /\ p - 1 \in 1 - 1 .. Len(s)
        /\ Len(s) \in p - 1 .. Len(s) /\ (p - 1) + 1 = p
    BY <1>0, <1>2, SMT
  <2>2. SubSeq(s, 1, p - 1) \o SubSeq(s, (p - 1) + 1, Len(s))
            = SubSeq(s, 1, Len(s))
    BY <2>1, ConcatAdjacentSubSeq
  <2>3. QED
    BY <2>1, <2>2, SubSeqFull
<1>8. s = a \o (<<e>> \o b)
  BY <1>6, <1>7
<1> HIDE DEF a, b
<1>9. Splits(s, e, a, b)
  BY <1>3, <1>8, Zenon DEF Splits
<1>10. QED
  BY <1>4, <1>5, <1>9, Zenon

LEMMA RemoveFirstKeeps ==
    ASSUME NEW T, NEW s \in Seq(T), NEW e, NEW S
    PROVE  /\ e \notin S => Kept(RemoveFirst(s, e), S) = Kept(s, S)
           /\ e \in S /\ Contains(s, e) =>
                  Len(Kept(s, S)) = Len(Kept(RemoveFirst(s, e), S)) + 1
<1>1. CASE ~Contains(s, e)
  BY <1>1, RemoveFirstOfNone
<1>2. CASE Contains(s, e)
  <2>1. e \in T
    BY <1>2, RemoveFirstSplits
  <2>b. PICK a, b \in Seq(T) : Splits(s, e, a, b)
    BY <1>2, RemoveFirstSplits
  <2>2. s = a \o (<<e>> \o b) /\ RemoveFirst(s, e) = a \o b
    BY <2>b, Zenon DEF Splits
  <2>a. <<e>> \in Seq(T)
    BY <2>1, SMT
  <2>3. PICK v \in Seq(T) : v = <<e>>
    BY <2>a
  <2>4. PICK u \in Seq(T) : u = v \o b
    BY <2>2, <2>3, ConcatProperties
  <2>5. /\ Kept(s, S) = Kept(a, S) \o Kept(u, S)
        /\ Kept(u, S) = Kept(v, S) \o Kept(b, S)
        /\ Kept(RemoveFirst(s, e), S) = Kept(a, S) \o Kept(b, S)
    <3>1. Kept(a \o u, S) = Kept(a, S) \o Kept(u, S)
      BY <2>2, <2>4, KeptOfConcat
    <3>2. Kept(v \o b, S) = Kept(v, S) \o Kept(b, S)
      BY <2>2, <2>3, KeptOfConcat
    <3>3. Kept(a \o b, S) = Kept(a, S) \o Kept(b, S)
      BY <2>2, KeptOfConcat
    <3>4. s = a \o u
      BY <2>2, <2>3, <2>4
    <3>5. QED
      BY <2>2, <2>4, <3>1, <3>2, <3>3, <3>4
  <2>6. v \in Seq({e})
    BY <2>3, SMT
  <2>7. PICK A \in Seq(T), B \in Seq(T) : A = Kept(a, S) /\ B = Kept(b, S)
    BY <2>2, KeptHasType
  <2>8. ASSUME e \notin S
        PROVE  Kept(RemoveFirst(s, e), S) = Kept(s, S)
    <3>1. Kept(v, S) = <<>>
      <4>1. {e} \cap S = {}
        BY <2>8
      <4>2. QED
        BY <2>6, <4>1, KeptOfNone
    <3>2. <<>> \o B = B
      BY ConcatEmptySeq
    <3>3. QED
      BY <2>5, <2>7, <3>1, <3>2
  <2>9. ASSUME e \in S
        PROVE  Len(Kept(s, S)) = Len(Kept(RemoveFirst(s, e), S)) + 1
    <3>1. Kept(v, S) = v
      <4>1. {e} \subseteq S
        BY <2>9
      <4>2. QED
        BY <2>6, <4>1, KeptOfAll
    <3>2. /\ Kept(s, S) = A \o (v \o B)
          /\ Kept(RemoveFirst(s, e), S) = A \o B
      BY <2>5, <2>7, <3>1
    <3>3. /\ v \o B \in Seq(T) /\ Len(v \o B) = Len(v) + Len(B)
          /\ Len(A \o B) = Len(A) + Len(B)
      BY ConcatProperties
    <3>4. Len(A \o (v \o B)) = Len(A) + Len(v \o B)
      BY <3>3, ConcatProperties
    <3>5. Len(A) \in Nat /\ Len(B) \in Nat /\ Len(v) = 1
      BY <2>3, LenProperties, SMT
    <3>6. QED
      BY ONLY <3>2, <3>3, <3>4, <3>5, SMT
  <2>10. QED
    BY <2>8, <2>9
<1>3. QED
  BY <1>1, <1>2

(* What the file of accounts holds when the call at work is done is the      *)
(* table, but for the doubled names.  Before the call has touched the file   *)
(* it is the table as it was.                                                *)

AccountsAfterCall ==
    CASE accountCall.next = "none"     -> accountLog
      [] accountCall.next = "append"   -> Append(accountLog, accountCall.name)
      [] accountCall.next = "truncate" ->
             Kept(accountLog, NamesBut(accountCall.name))
      [] accountCall.next = "flush"    -> accountCall.lines

SoundNames == Names \ doubled

AccountsInv ==
    /\ accountCall.next = "append" =>
           \E front \in Seq(Names) : accounts = Append(front, accountCall.name)
    /\ accountCall.next = "truncate" =>
           Kept(RemoveFirst(accountLog, accountCall.name), SoundNames)
               = Kept(accounts, SoundNames)
    /\ accountCall.next = "flush" => accountLog \in Prefixes(accountCall.lines)
    /\ Kept(AccountsAfterCall, SoundNames) = Kept(accounts, SoundNames)
    /\ \A n \in doubled : Times(AccountsAfterCall, n) < Times(accounts, n)

LEMMA AccountsStart == Init => AccountsInv
<1> SUFFICES ASSUME Init
             PROVE  AccountsInv
  OBVIOUS
<1>1. accounts = <<>> /\ accountLog = <<>> /\ accountCall.next = "none"
      /\ doubled = {}
  BY DEF Init, NoCall
<1>2. QED
  BY <1>1 DEF AccountsInv, AccountsAfterCall

LEMMA ReadAccountsPlain ==
    ASSUME Unpadded, accountLog \in Seq(Names)
    PROVE  ReadAccounts = accountLog
<1>1. /\ Len(accountLog) \in Nat /\ DOMAIN accountLog = 1 .. Len(accountLog)
      /\ accountLog \in [1 .. Len(accountLog) -> Names]
  BY LenProperties
<1>2. \A i \in 1 .. Len(accountLog) : Plain[accountLog[i]] = accountLog[i]
  BY <1>1, NamesArePlain
<1>3. ReadAccounts = [i \in 1 .. Len(accountLog) |-> accountLog[i]]
  BY <1>1, <1>2 DEF ReadAccounts
<1>4. QED
  BY <1>1, <1>3

\* A sequence that keeps what another does keeps less of it alike.
LEMMA KeptAlike ==
    ASSUME NEW T, NEW s \in Seq(T), NEW r \in Seq(T), NEW S, NEW R,
           R \subseteq S, Kept(s, S) = Kept(r, S)
    PROVE  Kept(s, R) = Kept(r, R)
<1>1. S \cap R = R
  OBVIOUS
<1>2. /\ Kept(Kept(s, S), R) = Kept(s, S \cap R)
      /\ Kept(Kept(r, S), R) = Kept(r, S \cap R)
  BY KeptOfKept
<1>3. QED
  BY <1>1, <1>2

\* What a removal of n does to two lists that agree on the names in S: the first
\* loses all its n when the file is written, the second one of them.
Alike(s, r, S) == Kept(s, S) = Kept(r, S)

Agree(log, list, D) ==
    /\ Kept(log, Names \ D) = Kept(list, Names \ D)
    /\ \A m \in D : Times(log, m) < Times(list, m)

LEMMA RemovalKeeps ==
    ASSUME NEW log \in Seq(Names), NEW list \in Seq(Names),
           NEW D, D \subseteq Names, NEW n \in Names, Contains(list, n),
           Agree(log, list, D),
           NEW after \in Seq(Names), after = RemoveFirst(list, n),
           NEW E, E = IF Contains(after, n) THEN D \cup {n} ELSE D \ {n}
    PROVE  /\ Alike(RemoveFirst(log, n), after, Names \ E)
           /\ Agree(Kept(log, Names \ {n}), after, E)
<1>a. /\ Kept(log, Names \ D) = Kept(list, Names \ D)
      /\ \A m \in D : Times(log, m) < Times(list, m)
  BY Zenon DEF Agree
<1>b. SUFFICES
          /\ Kept(RemoveFirst(log, n), Names \ E) = Kept(after, Names \ E)
          /\ Kept(Kept(log, Names \ {n}), Names \ E) = Kept(after, Names \ E)
          /\ \A m \in E : Times(Kept(log, Names \ {n}), m) < Times(after, m)
  BY Zenon DEF Agree, Alike
<1> DEFINE R == (Names \ E) \ {n}
<1>1. R \subseteq Names \ D /\ n \notin R /\ R \subseteq Names \ E
  OBVIOUS
<1>2. PICK left \in Seq(Names) : left = RemoveFirst(log, n)
  BY RemoveFirstHasType
<1>3. PICK others \in Seq(Names) : others = Kept(log, Names \ {n})
  BY KeptHasType
<1>4. /\ Kept(left, R) = Kept(log, R)
      /\ Kept(after, R) = Kept(list, R)
      /\ Kept(log, R) = Kept(list, R)
  BY <1>1, <1>2, <1>a, RemoveFirstKeeps, KeptAlike
<1>5. Kept(others, Names \ E) = Kept(log, R)
  <2>1. (Names \ {n}) \cap (Names \ E) = R
    OBVIOUS
  <2>2. Kept(Kept(log, Names \ {n}), Names \ E)
            = Kept(log, (Names \ {n}) \cap (Names \ E))
    BY KeptOfKept
  <2>3. QED
    BY <1>3, <2>1, <2>2
\* A list without n keeps as much without n in the set.
<1>6. ASSUME NEW s \in Seq(Names), ~Contains(s, n)
      PROVE  Kept(s, Names \ E) = Kept(s, R)
  <2>1. /\ DOMAIN s = 1 .. Len(s)
        /\ \A i \in 1 .. Len(s) : s[i] # n
    BY <1>6, LenProperties DEF Contains
  <2>2. Places(s, Names \ E) = Places(s, R)
    BY <2>1 DEF Places
  <2>3. QED
    BY <2>2 DEF Kept
<1>7. ASSUME NEW m \in Names, m # n
      PROVE  /\ Times(others, m) = Times(log, m)
             /\ Times(after, m) = Times(list, m)
  <2>1. n \notin {m} /\ (Names \ {n}) \cap {m} = {m}
    BY <1>7
  <2>2. Kept(after, {m}) = Kept(list, {m})
    BY <2>1, RemoveFirstKeeps
  <2>3. Kept(others, {m}) = Kept(log, (Names \ {n}) \cap {m})
    BY <1>3, KeptOfKept
  <2>4. Kept(others, {m}) = Kept(log, {m})
    BY <2>1, <2>3
  <2>5. /\ Times(others, m) = Len(Kept(others, {m}))
        /\ Times(log, m) = Len(Kept(log, {m}))
        /\ Times(after, m) = Len(Kept(after, {m}))
        /\ Times(list, m) = Len(Kept(list, {m}))
    BY TimesAreKept
  <2>6. QED
    BY <2>2, <2>4, <2>5, Zenon
<1>8. Times(others, n) = 0 /\ Times(after, n) \in Nat /\ Times(log, n) \in Nat
  <2>1. (Names \ {n}) \cap {n} = {}
    OBVIOUS
  <2>2. Kept(others, {n}) = Kept(log, {})
    BY <1>3, <2>1, KeptOfKept
  <2>3. Kept(log, {}) = <<>>
    <3>1. Names \cap {} = {}
      OBVIOUS
    <3>2. QED
      BY <3>1, KeptOfNone
  <2>4. QED
    BY <2>2, <2>3, TimesAreKept, EmptySeq
<1> HIDE DEF R
<1>9. \A m \in E : Times(others, m) < Times(after, m)
  <2>1. ASSUME NEW m \in E, m # n
        PROVE  Times(others, m) < Times(after, m)
    <3>1. m \in Names
      BY <2>1
    <3>2. QED
      BY <1>7, <1>a, <2>1, <3>1
  <2>2. ASSUME n \in E
        PROVE  Times(others, n) < Times(after, n)
    <3>1. Contains(after, n)
      BY <2>2
    <3>2. Times(after, n) # 0
      BY <3>1, TimesAreKept
    <3>3. QED
      BY ONLY <1>8, <3>2, SMT
  <2>3. QED
    BY <2>1, <2>2
<1>10. CASE Contains(after, n)
  <2>1. Names \ E = R
    BY <1>10 DEF R
  <2>2. QED
    BY <1>2, <1>3, <1>4, <1>5, <1>9, <2>1
\* The list had n once, and the file once or, if it was doubled, not at all.
<1>11. CASE ~Contains(after, n)
  <2>1. Times(list, n) = 1
    <3>1. Times(list, n) = Times(after, n) + 1
      <4>1. n \in {n}
        OBVIOUS
      <4>2. Len(Kept(list, {n})) = Len(Kept(RemoveFirst(list, n), {n})) + 1
        BY <4>1, RemoveFirstKeeps
      <4>3. /\ Times(list, n) = Len(Kept(list, {n}))
            /\ Times(after, n) = Len(Kept(after, {n}))
        BY TimesAreKept
      <4>4. QED
        BY <4>2, <4>3
    <3>2. Times(after, n) = 0
      BY <1>11, TimesAreKept
    <3>3. QED
      BY <3>1, <3>2
  <2>2. Times(log, n) = 0 \/ Times(log, n) = 1
    <3>1. CASE n \in D
      <4>1. Times(log, n) < Times(list, n)
        BY <1>a, <3>1
      <4>2. QED
        BY ONLY <1>8, <2>1, <4>1, SMT
    <3>2. CASE n \notin D
      <4>1. {n} \subseteq Names \ D
        BY <3>2
      <4>2. Kept(log, {n}) = Kept(list, {n})
        <5>1. Kept(log, Names \ D) = Kept(list, Names \ D)
          BY <1>a
        <5>2. log \in Seq(Names) /\ list \in Seq(Names)
          OBVIOUS
        <5>3. (Names \ D) \cap {n} = {n}
          BY <4>1
        <5>4. /\ Kept(Kept(log, Names \ D), {n}) = Kept(log, (Names \ D) \cap {n})
              /\ Kept(Kept(list, Names \ D), {n}) = Kept(list, (Names \ D) \cap {n})
          BY ONLY <5>2, KeptOfKept, SMTT(30)
        <5>5. QED
          BY ONLY <5>1, <5>3, <5>4, Zenon
      <4>3. Times(log, n) = Times(list, n)
        <5>1. /\ Times(log, n) = Len(Kept(log, {n}))
              /\ Times(list, n) = Len(Kept(list, {n}))
          BY TimesAreKept, SMTT(30)
        <5>2. QED
          BY <4>2, <5>1
      <4>4. QED
        BY ONLY <2>1, <4>3
    <3>3. QED
      BY <3>1, <3>2
  <2>3. ~Contains(left, n)
    <3>1. CASE ~Contains(log, n)
      BY <1>2, <3>1, RemoveFirstOfNone
    <3>2. CASE Contains(log, n)
      <4>1. Times(log, n) # 0
        BY <3>2, TimesAreKept
      <4>a. n \in {n}
        OBVIOUS
      <4>b. Len(Kept(log, {n})) = Len(Kept(RemoveFirst(log, n), {n})) + 1
        BY <3>2, <4>a, RemoveFirstKeeps
      <4>2. Len(Kept(log, {n})) = Len(Kept(left, {n})) + 1
        BY <1>2, <4>b
      <4>3. /\ Times(log, n) = Times(left, n) + 1
            /\ Times(left, n) \in Nat
        BY <4>2, TimesAreKept
      <4>4. Times(left, n) = 0
        BY ONLY <2>2, <4>1, <4>3, SMT
      <4>5. QED
        BY <4>4, TimesAreKept
    <3>3. QED
      BY <3>1, <3>2
  <2>4. /\ Kept(left, Names \ E) = Kept(left, R)
        /\ Kept(after, Names \ E) = Kept(after, R)
    BY <1>6, <1>11, <2>3
  <2>5. QED
    BY <1>2, <1>3, <1>4, <1>5, <1>9, <2>4
<1>12. QED
  BY <1>10, <1>11

LEMMA AccountsStep ==
    ASSUME Unpadded
    PROVE  TypesInv /\ TypesInv' /\ AccountsInv /\ [Next]_vars => AccountsInv'
<1> SUFFICES ASSUME TypesInv, TypesInv', AccountsInv, [Next]_vars
             PROVE  AccountsInv'
  OBVIOUS
<1>0. /\ accounts \in Seq(Names) /\ accountLog \in Seq(Names)
      /\ accountCall \in AccountCalls /\ AccountTypes
      /\ doubled \in SUBSET Names /\ accounts' \in Seq(Names)
  BY DEF TypesInv, AccountTypes
<1>f. NoCall.next = "none"
  BY DEF NoCall
<1>u. ASSUME UNCHANGED accountVars
      PROVE  AccountsInv'
  BY <1>u, Zenon DEF accountVars, AccountsInv, AccountsAfterCall, SoundNames
\* The same call is at work, or none, and the file will hold what it would.
<1>s. ASSUME accounts' = accounts, doubled' = doubled,
             AccountsAfterCall' = AccountsAfterCall,
             accountCall'.next \in {"none", "flush"},
             accountCall'.next = "flush" =>
                 accountLog' \in Prefixes(accountCall'.lines)
      PROVE  AccountsInv'
  <2>1. PICK file : file = AccountsAfterCall
    OBVIOUS
  <2>2. AccountsAfterCall' = file /\ SoundNames' = SoundNames
    BY <1>s, <2>1 DEF SoundNames
  <2>3. /\ Kept(file, SoundNames) = Kept(accounts, SoundNames)
        /\ \A n \in doubled : Times(file, n) < Times(accounts, n)
    BY <2>1 DEF AccountsInv
  <2>4. QED
    BY <1>s, <2>2, <2>3 DEF AccountsInv
<1>n. ASSUME accountCall = NoCall
      PROVE  /\ Kept(accountLog, Names \ doubled) = Kept(accounts, Names \ doubled)
             /\ \A m \in doubled : Times(accountLog, m) < Times(accounts, m)
  BY <1>n, <1>f DEF AccountsInv, AccountsAfterCall, SoundNames
<1>1. ASSUME NEW n \in Names, CreateAccount(n)
      PROVE  AccountsInv'
  <2>1. /\ accountCall = NoCall /\ doubled' = doubled
        /\ accounts' = Append(accounts, n) /\ accountLog' = accountLog
        /\ accountCall'.next = "append" /\ accountCall'.name = n
    BY <1>1 DEF CreateAccount, NoCall
  <2>2. AccountsAfterCall' = Append(accountLog, n) /\ SoundNames' = SoundNames
    BY <2>1 DEF AccountsAfterCall, SoundNames
  <2>3. Kept(Append(accountLog, n), SoundNames) = Kept(accounts', SoundNames)
    <3>1. Kept(accountLog, SoundNames) = Kept(accounts, SoundNames)
      BY <1>n, <2>1 DEF SoundNames
    <3>2. /\ Kept(Append(accountLog, n), SoundNames)
                 = IF n \in SoundNames THEN Append(Kept(accountLog, SoundNames), n)
                   ELSE Kept(accountLog, SoundNames)
          /\ Kept(Append(accounts, n), SoundNames)
                 = IF n \in SoundNames THEN Append(Kept(accounts, SoundNames), n)
                   ELSE Kept(accounts, SoundNames)
      BY <1>0, KeptOfAppend
    <3>3. QED
      BY <2>1, <3>1, <3>2, Zenon
  <2>4. ASSUME NEW m \in doubled
        PROVE  Times(Append(accountLog, n), m) < Times(Append(accounts, n), m)
    <3>1. ASSUME NEW s \in Seq(Names)
          PROVE  /\ Times(Append(s, n), m) = Times(s, m) + (IF m = n THEN 1 ELSE 0)
                 /\ Times(s, m) \in Nat
      <4>1. PICK r \in Seq(Names) : r = Append(s, n)
        BY AppendProperties
      <4>2. Times(r, m) = Len(Kept(r, {m})) /\ Times(s, m) = Len(Kept(s, {m}))
            /\ Times(s, m) \in Nat
        BY TimesAreKept
      <4>3. Kept(r, {m}) = IF n \in {m} THEN Append(Kept(s, {m}), n)
                           ELSE Kept(s, {m})
        BY <4>1, KeptOfAppend
      <4>4. Len(Append(Kept(s, {m}), n)) = Len(Kept(s, {m})) + 1
        BY KeptHasType, AppendProperties
      <4>5. CASE m = n
        BY <4>1, <4>2, <4>3, <4>4, <4>5
      <4>6. CASE m # n
        BY <4>1, <4>2, <4>3, <4>6
      <4>7. QED
        BY <4>5, <4>6
    <3>2. /\ Times(Append(accountLog, n), m)
                 = Times(accountLog, m) + (IF m = n THEN 1 ELSE 0)
          /\ Times(Append(accounts, n), m)
                 = Times(accounts, m) + (IF m = n THEN 1 ELSE 0)
          /\ Times(accountLog, m) \in Nat /\ Times(accounts, m) \in Nat
      BY <1>0, <3>1
    <3>3. Times(accountLog, m) < Times(accounts, m)
      BY <1>n, <2>1
    <3>4. QED
      BY ONLY <3>2, <3>3, SMT
  <2>5. QED
    BY <1>0, <2>1, <2>2, <2>3, <2>4 DEF AccountsInv
<1>2. ASSUME AppendAccount
      PROVE  AccountsInv'
  <2>1. /\ accountCall.next = "append" /\ accounts' = accounts
        /\ accountLog' = Append(accountLog, accountCall.name)
        /\ accountCall'.next = "none" /\ doubled' = doubled
    BY <1>2, <1>f DEF AppendAccount
  <2>2. AccountsAfterCall' = AccountsAfterCall
    BY <2>1 DEF AccountsAfterCall
  <2>3. QED
    BY <1>s, <2>1, <2>2
<1>3. ASSUME NEW n \in Names, RemoveAccount(n)
      PROVE  AccountsInv'
  <2>1. /\ accountCall = NoCall /\ Contains(accounts, n)
        /\ accounts' = RemoveFirst(accounts, n) /\ accountLog' = accountLog
        /\ accountCall'.next = "truncate" /\ accountCall'.name = n
        /\ doubled' = IF Contains(accounts', n) THEN doubled \cup {n}
                      ELSE doubled \ {n}
    BY <1>3, Zenon DEF RemoveAccount, NoCall
  <2>2. AccountsAfterCall' = Kept(accountLog, Names \ {n})
    <3>1. AccountsAfterCall' = Kept(accountLog, NamesBut(n))
      BY <2>1 DEF AccountsAfterCall, NamesBut
    <3>2. QED
      BY <3>1, NamesArePlain
  <2>3. PICK after \in Seq(Names) : after = accounts'
    BY <1>0
  <2>4. PICK E : E = doubled'
    OBVIOUS
  <2>5. /\ after = RemoveFirst(accounts, n)
        /\ E = IF Contains(after, n) THEN doubled \cup {n} ELSE doubled \ {n}
    BY <2>1, <2>3, <2>4
  <2>6. /\ Kept(RemoveFirst(accountLog, n), Names \ E) = Kept(after, Names \ E)
        /\ Kept(Kept(accountLog, Names \ {n}), Names \ E)
               = Kept(after, Names \ E)
        /\ \A m \in E : Times(Kept(accountLog, Names \ {n}), m) < Times(after, m)
    <3>1. PICK log \in Seq(Names), list \in Seq(Names), D \in SUBSET Names :
              log = accountLog /\ list = accounts /\ D = doubled
      BY <1>0
    <3>2. Contains(list, n)
      BY <2>1, <3>1
    <3>3. Agree(log, list, D)
      BY <1>n, <2>1, <3>1 DEF Agree
    <3>a. after = RemoveFirst(list, n)
      BY <2>5, <3>1
    <3>b. E = IF Contains(after, n) THEN D \cup {n} ELSE D \ {n}
      BY <2>5, <3>1
    <3>c. D \subseteq Names
      OBVIOUS
    <3>4. Agree(Kept(log, Names \ {n}), after, E)
      BY <3>2, <3>3, <3>a, <3>b, <3>c, RemovalKeeps
    <3>d. Alike(RemoveFirst(log, n), after, Names \ E)
      BY <3>2, <3>3, <3>a, <3>b, <3>c, RemovalKeeps
    <3>5. QED
      BY <3>1, <3>4, <3>d DEF Agree, Alike
  <2>7. SoundNames' = Names \ E
    BY <2>4 DEF SoundNames
  <2>8. QED
    BY <2>1, <2>2, <2>3, <2>4, <2>6, <2>7 DEF AccountsInv
<1>4. ASSUME TruncateAccounts
      PROVE  AccountsInv'
  <2>1. PICK n \in Names : n = accountCall.name
    BY <1>0, <1>4 DEF AccountCalls, TruncateAccounts
  <2>2. /\ accountCall.next = "truncate" /\ accounts' = accounts
        /\ accountLog' = <<>> /\ doubled' = doubled
        /\ accountCall'.next = "flush"
        /\ accountCall'.lines = OtherAccounts(n)
    BY <1>0, <1>4, <2>1 DEF TruncateAccounts, AccountCalls, Calls
  <2>3. PICK others \in Seq(Names) : others = OtherAccounts(n)
    BY <1>0, FiltersHaveTypes
  <2>4. others = Kept(accountLog, NamesBut(n))
    BY <1>0, <2>3, FiltersKeep
  <2>5. AccountsAfterCall' = AccountsAfterCall
    BY <2>1, <2>2, <2>3, <2>4 DEF AccountsAfterCall
  <2>6. <<>> \in Prefixes(others)
    <3>1. 0 \in 0 .. Len(others) /\ SubSeq(others, 1, 0) = <<>>
      BY LenProperties, SMT
    <3>2. QED
      BY <3>1, Zenon DEF Prefixes
  <2>7. QED
    BY <1>s, <2>2, <2>3, <2>5, <2>6
<1>5. ASSUME FlushAccounts
      PROVE  AccountsInv'
  <2>1. /\ accountCall.next = "flush" /\ accounts' = accounts
        /\ accountLog' = accountCall.lines
        /\ accountCall'.next = "none" /\ doubled' = doubled
    BY <1>5, <1>f DEF FlushAccounts
  <2>2. AccountsAfterCall' = AccountsAfterCall
    BY <2>1 DEF AccountsAfterCall
  <2>3. QED
    BY <1>s, <2>1, <2>2
<1>6. ASSUME Kill
      PROVE  AccountsInv'
  <2>1. accounts' = accounts /\ accountCall' = accountCall /\ doubled' = doubled
    BY <1>6, Zenon DEF Kill
  <2>2. \/ accountLog' = accountLog
        \/ /\ accountCall.next = "flush"
           /\ accountLog' \in Prefixes(accountCall.lines)
    BY <1>6, Zenon DEF Kill
  <2>3. CASE accountLog' = accountLog
    BY <1>u, <2>1, <2>3 DEF accountVars
  <2>4. CASE /\ accountCall.next = "flush"
             /\ accountLog' \in Prefixes(accountCall.lines)
    <3>1. AccountsAfterCall' = AccountsAfterCall
      BY <2>1, <2>4 DEF AccountsAfterCall
    <3>2. QED
      BY <1>s, <2>1, <2>4, <3>1
  <2>5. QED
    BY <2>2, <2>3, <2>4
<1>7. ASSUME Start
      PROVE  AccountsInv'
  <2>1. /\ accounts' = accountLog /\ accountLog' = accountLog
        /\ accountCall'.next = "none" /\ doubled' = {}
    BY <1>0, <1>7, <1>f, ReadAccountsPlain DEF Start
  <2>2. QED
    BY <2>1 DEF AccountsInv, AccountsAfterCall
<1>8. CASE UNCHANGED vars
  BY <1>8, <1>u, Zenon DEF vars
<1>9. ASSUME \/ \E to, from \in Names, text \in Texts : AddMessage(to, from, text)
             \/ \E n \in Names : \E msgs \in Given(n) : UpdateMessages(n, msgs)
             \/ AppendMessage \/ TruncateMessages \/ FlushMessages \/ WriteMessage
      PROVE  AccountsInv'
  BY <1>9, <1>u, Zenon DEF AddMessage, UpdateMessages, AppendMessage,
     TruncateMessages, FlushMessages, WriteMessage
<1>10. QED
  BY <1>1, <1>2, <1>3, <1>4, <1>5, <1>6, <1>7, <1>8, <1>9, Zenon DEF Next

LEMMA FrontOfAppend ==
    ASSUME NEW T, NEW s \in Seq(T), NEW e \in T
    PROVE  Front(Append(s, e)) = s
<1>1. /\ Len(s) \in Nat /\ Append(s, e) \in Seq(T)
      /\ Len(Append(s, e)) = Len(s) + 1
      /\ \A i \in 1 .. Len(s) : Append(s, e)[i] = s[i]
  BY LenProperties, AppendProperties
<1>2. PICK u \in Seq(T) : u = Append(s, e)
  BY <1>1
<1>3. /\ SubSeq(u, 1, Len(u) - 1) \in Seq(T)
      /\ Len(SubSeq(u, 1, Len(u) - 1)) = Len(s)
      /\ \A i \in 1 .. Len(s) : SubSeq(u, 1, Len(u) - 1)[i] = u[i]
  BY <1>1, <1>2, SMT
<1>4. SubSeq(u, 1, Len(u) - 1) = s
  BY <1>1, <1>2, <1>3, SeqEqual
<1>5. QED
  BY <1>2, <1>4, Zenon DEF Front

LEMMA AccountsRestored ==
    ASSUME Unpadded, TypesInv, AccountsInv, Start, NEW list \in Seq(Names),
           list = accounts'
    PROVE  CASE accountCall.next = "none"   -> Sound(list) = Sound(accounts)
             [] accountCall.next = "append" ->
                    Sound(list) = Sound(Front(accounts))
             [] accountCall.next = "truncate" ->
                    Sound(RemoveFirst(list, accountCall.name)) = Sound(accounts)
             [] accountCall.next = "flush"  ->
                    IsPrefix(Sound(list), Sound(accounts))
<1>1. /\ accounts \in Seq(Names) /\ accountLog \in Seq(Names)
      /\ accountCall.next # "none" => accountCall.name \in Names
      /\ accountCall.next \in {"none", "append", "truncate", "flush"}
      /\ accountCall.lines \in Seq(Names)
  BY DEF TypesInv, AccountTypes, AccountCalls, Calls
<1>2. list = accountLog
  BY <1>1, ReadAccountsPlain DEF Start
<1>3. Kept(AccountsAfterCall, SoundNames) = Kept(accounts, SoundNames)
  BY DEF AccountsInv
<1>s. \A s \in Seq(Names) : Sound(s) = Kept(s, SoundNames)
  BY FiltersKeep DEF SoundNames
<1>4. CASE accountCall.next = "none"
  BY <1>1, <1>2, <1>3, <1>4, <1>s DEF AccountsAfterCall
<1>5. CASE accountCall.next = "append"
  <2>1. PICK n \in Names : n = accountCall.name
    BY <1>1, <1>5
  <2>2. PICK front \in Seq(Names) : accounts = Append(front, n)
    BY <1>5, <2>1 DEF AccountsInv
  <2>3. Front(accounts) = front
    BY <2>2, FrontOfAppend
  <2>4. Kept(Append(list, n), SoundNames) = Kept(Append(front, n), SoundNames)
    BY <1>2, <1>3, <1>5, <2>1, <2>2 DEF AccountsAfterCall
  <2>5. Kept(list, SoundNames) = Kept(front, SoundNames)
    <3>1. CASE n \in SoundNames
      <4>1. Append(Kept(list, SoundNames), n) = Append(Kept(front, SoundNames), n)
        <5>1. Kept(Append(list, n), SoundNames) = Append(Kept(list, SoundNames), n)
          BY <3>1, KeptOfAppend
        <5>2. Kept(Append(front, n), SoundNames) = Append(Kept(front, SoundNames), n)
          BY <3>1, KeptOfAppend
        <5>3. QED
          BY ONLY <2>4, <5>1, <5>2
      <4>2. PICK a \in Seq(Names), b \in Seq(Names) :
                a = Kept(list, SoundNames) /\ b = Kept(front, SoundNames)
        <5>1. Kept(list, SoundNames) \in Seq(Names)
          BY KeptHasType
        <5>2. Kept(front, SoundNames) \in Seq(Names)
          BY KeptHasType
        <5>3. QED
          BY ONLY <5>1, <5>2
      <4>3. Front(Append(a, n)) = a /\ Front(Append(b, n)) = b
        BY FrontOfAppend
      <4>4. Append(a, n) = Append(b, n)
        BY <4>1, <4>2
      <4>5. QED
        BY <4>2, <4>3, <4>4
    <3>2. CASE n \notin SoundNames
      BY <2>4, <3>2, KeptOfAppend
    <3>3. QED
      BY <3>1, <3>2
  <2>6. QED
    BY <1>5, <1>s, <2>3, <2>5
<1>6. CASE accountCall.next = "truncate"
  <2>1. PICK left \in Seq(Names) : left = RemoveFirst(list, accountCall.name)
    BY RemoveFirstHasType
  <2>2. Kept(left, SoundNames) = Kept(accounts, SoundNames)
    BY <1>2, <1>6, <2>1 DEF AccountsInv
  <2>3. QED
    BY <1>1, <1>6, <1>s, <2>1, <2>2
<1>7. CASE accountCall.next = "flush"
  <2>1. accountLog \in Prefixes(accountCall.lines)
    BY <1>7 DEF AccountsInv
  <2>a. PICK lines \in Seq(Names) : lines = accountCall.lines
    BY <1>1
  <2>b. list \in Prefixes(lines)
    BY <1>2, <2>1, <2>a
  <2>c. PICK t \in Seq(Names) : lines = list \o t
    BY <2>b, PrefixIsContinued
  <2>2. accountCall.lines = list \o t
    BY <2>a, <2>c
  <2>3. Kept(list \o t, SoundNames) = Kept(list, SoundNames) \o Kept(t, SoundNames)
    BY KeptOfConcat
  <2>4. Kept(accounts, SoundNames) = Kept(list \o t, SoundNames)
    BY <1>3, <1>7, <2>2 DEF AccountsAfterCall
  <2>5. PICK a \in Seq(Names), b \in Seq(Names) :
            a = Kept(list, SoundNames) /\ b = Kept(t, SoundNames)
    BY KeptHasType
  <2>6. IsPrefix(a, a \o b)
    BY ContinuedIsPrefix
  <2>7. QED
    BY <1>1, <1>7, <1>s, <2>3, <2>4, <2>5, <2>6
<1>8. QED
  BY <1>1, <1>4, <1>5, <1>6, <1>7

-----------------------------------------------------------------------------
(* The undelivered messages.  Lines and messages are read one by one.        *)

Mapped(f, s) == [i \in DOMAIN s |-> f[s[i]]]

Maps(f, T, U) == f \in [T -> U]

LEMMA MappedIsASequence ==
    ASSUME NEW T, NEW U, NEW f, Maps(f, T, U), NEW s \in Seq(T)
    PROVE  /\ Mapped(f, s) \in Seq(U) /\ Len(Mapped(f, s)) = Len(s)
           /\ \A i \in 1 .. Len(s) : Mapped(f, s)[i] = f[s[i]]
<1>1. /\ Len(s) \in Nat /\ DOMAIN s = 1 .. Len(s)
      /\ \A i \in 1 .. Len(s) : s[i] \in T
  BY LenProperties, ElementOfSeq
<1>2. \A i \in 1 .. Len(s) : f[s[i]] \in U
  BY <1>1 DEF Maps
<1>3. Mapped(f, s) = [i \in 1 .. Len(s) |-> f[s[i]]]
  BY <1>1 DEF Mapped
<1>4. QED
  BY <1>1, <1>2, <1>3, SMT

LEMMA MappedConcat ==
    ASSUME NEW T, NEW U, NEW f, Maps(f, T, U), NEW s \in Seq(T), NEW t \in Seq(T)
    PROVE  Mapped(f, s \o t) = Mapped(f, s) \o Mapped(f, t)
<1>1. /\ s \o t \in Seq(T) /\ Len(s) \in Nat /\ Len(t) \in Nat
      /\ Len(s \o t) = Len(s) + Len(t)
      /\ \A i \in 1 .. Len(s) + Len(t) :
             (s \o t)[i] = IF i <= Len(s) THEN s[i] ELSE t[i - Len(s)]
  BY ConcatProperties, LenProperties
<1>2. PICK u \in Seq(T) : u = s \o t
  BY <1>1
<1>3. /\ Mapped(f, s) \in Seq(U) /\ Len(Mapped(f, s)) = Len(s)
      /\ \A i \in 1 .. Len(s) : Mapped(f, s)[i] = f[s[i]]
      /\ Mapped(f, t) \in Seq(U) /\ Len(Mapped(f, t)) = Len(t)
      /\ \A i \in 1 .. Len(t) : Mapped(f, t)[i] = f[t[i]]
      /\ Mapped(f, u) \in Seq(U) /\ Len(Mapped(f, u)) = Len(u)
      /\ \A i \in 1 .. Len(u) : Mapped(f, u)[i] = f[u[i]]
  BY MappedIsASequence
<1> DEFINE a == Mapped(f, s)
           b == Mapped(f, t)
<1>4. a \in Seq(U) /\ b \in Seq(U)
  BY <1>3
<1>5. Len(u) = Len(s) + Len(t)
  BY <1>1, <1>2
<1> HIDE DEF a, b
<1>6. /\ a \o b \in Seq(U) /\ Len(a \o b) = Len(s) + Len(t)
      /\ \A i \in 1 .. Len(s) + Len(t) :
             (a \o b)[i] = IF i <= Len(s) THEN a[i] ELSE b[i - Len(s)]
  <2>1. Len(a) = Len(s) /\ Len(b) = Len(t)
    BY <1>3 DEF a, b
  <2>2. /\ a \o b \in Seq(U) /\ Len(a \o b) = Len(a) + Len(b)
        /\ \A i \in 1 .. Len(a) + Len(b) :
               (a \o b)[i] = IF i <= Len(a) THEN a[i] ELSE b[i - Len(a)]
    BY <1>4, ConcatProperties
  <2>3. QED
    BY <2>1, <2>2, Zenon
<1>7. \A i \in 1 .. Len(s) + Len(t) : Mapped(f, u)[i] = (a \o b)[i]
  <2> SUFFICES ASSUME NEW i \in 1 .. Len(s) + Len(t)
               PROVE  Mapped(f, u)[i] = (a \o b)[i]
    OBVIOUS
  <2>1. CASE i <= Len(s)
    <3>1. i \in 1 .. Len(s)
      BY <1>1, <2>1, SMT
    <3>2. u[i] = s[i] /\ (a \o b)[i] = a[i]
      BY <1>1, <1>2, <1>6, <2>1
    <3>3. QED
      BY <1>3, <1>5, <3>1, <3>2 DEF a, b
  <2>2. CASE ~(i <= Len(s))
    <3>1. i - Len(s) \in 1 .. Len(t)
      BY <1>1, <2>2, SMT
    <3>2. u[i] = t[i - Len(s)] /\ (a \o b)[i] = b[i - Len(s)]
      BY <1>1, <1>2, <1>6, <2>2
    <3>3. QED
      BY <1>3, <1>5, <3>1, <3>2 DEF a, b
  <2>3. QED
    BY <2>1, <2>2
<1>8. Mapped(f, u) = a \o b
  BY <1>3, <1>5, <1>6, <1>7, SeqEqual
<1>9. QED
  BY <1>2, <1>8 DEF a, b

LEMMA MappedRest ==
    ASSUME NEW T, NEW U, NEW f, Maps(f, T, U), NEW s \in Seq(T),
           NEW k \in 1 .. Len(s) + 1
    PROVE  Mapped(f, SubSeq(s, k, Len(s))) = SubSeq(Mapped(f, s), k, Len(s))
<1>1. Len(s) \in Nat /\ k \in Nat
  BY LenProperties, SMT
<1>2. PICK r \in Seq(T) : r = SubSeq(s, k, Len(s))
  <2>1. \A i \in k .. Len(s) : s[i] \in T
    BY <1>1, SMT
  <2>2. SubSeq(s, k, Len(s)) \in Seq(T)
    BY <1>1, <2>1, SMT
  <2>3. QED
    BY <2>2
<1>3. PICK a \in Seq(U) : /\ a = Mapped(f, s) /\ Len(a) = Len(s)
                          /\ \A j \in 1 .. Len(s) : a[j] = f[s[j]]
  <2>1. /\ Mapped(f, s) \in Seq(U) /\ Len(Mapped(f, s)) = Len(s)
        /\ \A j \in 1 .. Len(s) : Mapped(f, s)[j] = f[s[j]]
    BY MappedIsASequence
  <2>2. QED
    BY <2>1
<1>4. /\ Len(r) = (Len(s) + 1) - k
      /\ \A i \in 1 .. Len(r) : /\ r[i] = s[(k + i) - 1]
                               /\ (k + i) - 1 \in 1 .. Len(s)
  BY <1>1, <1>2, SMT
<1>5. /\ SubSeq(a, k, Len(s)) \in Seq(U)
      /\ Len(SubSeq(a, k, Len(s))) = Len(r)
      /\ \A i \in 1 .. Len(r) : SubSeq(a, k, Len(s))[i] = a[(k + i) - 1]
  BY <1>1, <1>3, <1>4, SMT
<1>6. /\ Mapped(f, r) \in Seq(U) /\ Len(Mapped(f, r)) = Len(r)
      /\ \A i \in 1 .. Len(r) : Mapped(f, r)[i] = f[r[i]]
  BY MappedIsASequence
<1>7. \A i \in 1 .. Len(r) : Mapped(f, r)[i] = SubSeq(a, k, Len(s))[i]
  <2> SUFFICES ASSUME NEW i \in 1 .. Len(r)
               PROVE  Mapped(f, r)[i] = SubSeq(a, k, Len(s))[i]
    OBVIOUS
  <2>1. PICK j \in 1 .. Len(s) : j = (k + i) - 1
    BY <1>4
  <2>2. r[i] = s[j] /\ SubSeq(a, k, Len(s))[i] = a[j]
    BY <1>4, <1>5, <2>1
  <2>3. QED
    BY <1>3, <1>6, <2>1, <2>2
<1>8. Mapped(f, r) = SubSeq(a, k, Len(s))
  BY <1>5, <1>6, <1>7, SeqEqual
<1>9. QED
  BY <1>2, <1>3, <1>8

Reader  == [l \in LineType |-> ReadMessage(l)]
Trimmer == [m \in MessageType |-> [m EXCEPT !.text = Trim[@]]]

LEMMA ReadingIsMapping ==
    /\ Maps(Reader, LineType, MessageType)
    /\ Maps(Trimmer, MessageType, MessageType)
    /\ \A ls \in Seq(LineType) : ReadLines(ls) = Mapped(Reader, ls)
    /\ \A msgs \in Seq(MessageType) : Trimmed(msgs) = Mapped(Trimmer, msgs)
<1>1. \A T : \A s \in Seq(T) : \A i \in DOMAIN s : s[i] \in T
  BY LenProperties, ElementOfSeq
<1>2. Reader \in [LineType -> MessageType]
  BY StoresAssumptions
  DEF Reader, ReadMessage, MessageType, LineType, Phantom
<1>3. Trimmer \in [MessageType -> MessageType]
  BY StoresAssumptions DEF Trimmer, MessageType
<1>4. ASSUME NEW ls \in Seq(LineType)
      PROVE  ReadLines(ls) = Mapped(Reader, ls)
  BY <1>1, Zenon DEF ReadLines, Mapped, Reader
<1>5. ASSUME NEW msgs \in Seq(MessageType)
      PROVE  Trimmed(msgs) = Mapped(Trimmer, msgs)
  BY <1>1, Zenon DEF Trimmed, Mapped, Trimmer
<1>6. QED
  BY <1>2, <1>3, <1>4, <1>5 DEF Maps

\* What a recipient's queue is once it has been in the file.
Awaited(msgs) == Trimmed(Kept(msgs, SentMessages))

LEMMA ReadOfConcat ==
    ASSUME NEW s \in Seq(LineType), NEW t \in Seq(LineType), NEW n
    PROVE  /\ ReadOf(s \o t, n) = ReadOf(s, n) \o ReadOf(t, n)
           /\ ReadOf(s, n) \in Seq(MessageType)
<1>1. PICK a \in Seq(LineType), b \in Seq(LineType) :
          a = Kept(s, LinesFor(n)) /\ b = Kept(t, LinesFor(n))
  <2>1. Kept(s, LinesFor(n)) \in Seq(LineType)
    BY KeptHasType
  <2>2. Kept(t, LinesFor(n)) \in Seq(LineType)
    BY KeptHasType
  <2>3. QED
    BY ONLY <2>1, <2>2
<1>2. Kept(s \o t, LinesFor(n)) = a \o b
  BY <1>1, KeptOfConcat
<1>3. a \o b \in Seq(LineType)
  BY ConcatProperties
<1>4. Mapped(Reader, a \o b) = Mapped(Reader, a) \o Mapped(Reader, b)
  <2>1. Maps(Reader, LineType, MessageType)
    BY ReadingIsMapping
  <2>2. QED
    BY <2>1, MappedConcat, SMTT(30)
<1>5. /\ ReadOf(s \o t, n) = Mapped(Reader, a \o b)
      /\ ReadOf(s, n) = Mapped(Reader, a)
      /\ ReadOf(t, n) = Mapped(Reader, b)
  BY <1>1, <1>2, <1>3, ReadingIsMapping DEF ReadOf
<1>6. Mapped(Reader, a) \in Seq(MessageType)
  BY ReadingIsMapping, MappedIsASequence
<1>7. QED
  BY <1>4, <1>5, <1>6

LEMMA ReadLinesOfNothing == ReadLines(<<>>) = <<>>
BY SMT DEF ReadLines

LEMMA ReadOfNothing == \A n : ReadOf(<<>>, n) = <<>>
BY KeptOfNothing, ReadLinesOfNothing DEF ReadOf

\* The lines of one recipient, and those of the others.
LEMMA ReadOfOwn ==
    ASSUME Unpadded, NEW n, NEW own \in Seq(LinesFor(n)), NEW m
    PROVE  /\ own \in Seq(LineType)
           /\ ReadOf(own, m) = IF m = n THEN ReadLines(own) ELSE <<>>
<1>1. LinesFor(n) \subseteq LineType
  BY DEF LinesFor
<1>2. own \in Seq(LineType)
  BY <1>1, SeqMonotonic
<1>3. CASE m = n
  <2>1. Kept(own, LinesFor(n)) = own
    BY KeptOfAll
  <2>2. QED
    BY <1>2, <1>3, <2>1 DEF ReadOf
<1>4. CASE m # n
  <2>1. LinesFor(n) \cap LinesFor(m) = {}
    BY <1>4 DEF LinesFor
  <2>2. Kept(own, LinesFor(m)) = <<>>
    BY <2>1, KeptOfNone
  <2>3. QED
    BY <1>4, <1>2, <2>2, ReadLinesOfNothing DEF ReadOf
<1>5. QED
  BY <1>3, <1>4

LEMMA ReadOfOthers ==
    ASSUME Unpadded, NEW n, NEW log \in Seq(LineType), NEW m
    PROVE  ReadOf(Kept(log, LinesBut(n)), m)
               = IF m = n THEN <<>> ELSE ReadOf(log, m)
<1>1. Kept(Kept(log, LinesBut(n)), LinesFor(m))
          = Kept(log, LinesBut(n) \cap LinesFor(m))
  BY KeptOfKept
<1>2. CASE m = n
  <2>1. LinesBut(n) \cap LinesFor(m) = {}
    BY <1>2 DEF LinesBut, LinesFor
  <2>2. Kept(log, {}) = <<>>
    BY KeptOfNone
  <2>3. QED
    BY <1>1, <1>2, <2>1, <2>2, ReadLinesOfNothing DEF ReadOf
<1>3. CASE m # n
  <2>1. LinesBut(n) \cap LinesFor(m) = LinesFor(m)
    BY <1>3 DEF LinesBut, LinesFor
  <2>2. QED
    BY <1>1, <1>3, <2>1 DEF ReadOf
<1>4. QED
  BY <1>2, <1>3

\* A message that is written is read as it was, but for the spaces after it.
LEMMA WrittenIsRead ==
    ASSUME Unpadded, NEW n \in Names, NEW msgs \in Seq(SentMessages)
    PROVE  /\ Lines(n, msgs) \in Seq(LinesFor(n))
           /\ ReadLines(Lines(n, msgs)) = Trimmed(msgs)
           /\ Awaited(msgs) = Trimmed(msgs)
<1>1. /\ Len(msgs) \in Nat /\ DOMAIN msgs = 1 .. Len(msgs)
      /\ \A i \in 1 .. Len(msgs) : msgs[i] \in SentMessages
  BY LenProperties, ElementOfSeq
<1>2. \A m \in SentMessages :
          /\ Line(n, m) \in LineType /\ Line(n, m).to = n
          /\ ReadMessage(Line(n, m)) = [m EXCEPT !.text = Trim[@]]
  <2> SUFFICES ASSUME NEW m \in SentMessages
               PROVE  /\ Line(n, m) \in LineType /\ Line(n, m).to = n
                      /\ ReadMessage(Line(n, m)) = [m EXCEPT !.text = Trim[@]]
    OBVIOUS
  <2>1. /\ m \in MessageType /\ m.from \in Names
        /\ Line(n, m) \in LineType /\ Line(n, m).to = n
        /\ Line(n, m).from = m.from /\ Line(n, m).text = m.text
    BY DEF SentMessages, MessageType, Line, LineType
  <2>2. ReadMessage(Line(n, m)) = [from |-> m.from, text |-> Trim[m.text]]
    BY <2>1, NamesArePlain
  <2>3. QED
    BY <2>1, <2>2 DEF MessageType
<1>3. \A i \in 1 .. Len(msgs) : Line(n, msgs[i]) \in LinesFor(n)
  BY <1>1, <1>2, NamesArePlain
<1>4. Lines(n, msgs) \in Seq(LinesFor(n))
  BY <1>1, <1>3, SMT DEF Lines
<1>5. ReadLines(Lines(n, msgs)) = Trimmed(msgs)
  <2>1. Lines(n, msgs) = [i \in 1 .. Len(msgs) |-> Line(n, msgs[i])]
    BY <1>1 DEF Lines
  <2>2. ReadLines(Lines(n, msgs))
            = [i \in 1 .. Len(msgs) |-> ReadMessage(Line(n, msgs[i]))]
    BY <2>1, Zenon DEF ReadLines
  <2>3. QED
    BY <1>1, <1>2, <2>2, Zenon DEF Trimmed
<1>6. Awaited(msgs) = Trimmed(msgs)
  BY KeptOfAll DEF Awaited
<1>7. QED
  BY <1>4, <1>5, <1>6

\* What was read is read the same when it is written again.
LEMMA ReadIsAwaited ==
    ASSUME Unpadded, NEW n, NEW log \in Seq(LineType)
    PROVE  Awaited(ReadOf(log, n)) = ReadOf(log, n)
<1>1. PICK ls \in Seq(LineType) : ls = Kept(log, LinesFor(n))
  BY KeptHasType
<1> DEFINE r == ReadLines(ls)
<1>2. /\ Len(ls) \in Nat /\ DOMAIN ls = 1 .. Len(ls)
      /\ \A i \in 1 .. Len(ls) : ls[i] \in LineType
  BY LenProperties, ElementOfSeq
<1>3. \A l \in LineType :
          /\ ReadMessage(l) \in SentMessages
          /\ [ReadMessage(l) EXCEPT !.text = Trim[@]] = ReadMessage(l)
  <2> SUFFICES ASSUME NEW l \in LineType
               PROVE  /\ ReadMessage(l) \in SentMessages
                      /\ [ReadMessage(l) EXCEPT !.text = Trim[@]] = ReadMessage(l)
    OBVIOUS
  <2>1. /\ l.from \in Names /\ l.from # Nobody
        /\ Trim[l.text] \in Texts /\ Trim[Trim[l.text]] = Trim[l.text]
    BY StoresAssumptions DEF LineType
  <2>2. ReadMessage(l) = [from |-> l.from, text |-> Trim[l.text]]
    BY NamesArePlain
  <2>3. QED
    BY <2>1, <2>2 DEF SentMessages, MessageType
<1>4. r = [i \in 1 .. Len(ls) |-> ReadMessage(ls[i])]
  BY <1>2 DEF ReadLines
<1>5. r \in Seq(SentMessages)
  BY <1>2, <1>3, <1>4, SMT
<1>6. Kept(r, SentMessages) = r
  BY <1>5, KeptOfAll
<1>7. Trimmed(r) = r
  <2>1. \A i \in 1 .. Len(ls) : [r[i] EXCEPT !.text = Trim[@]] = r[i]
    BY <1>2, <1>3, <1>4
  <2>2. DOMAIN r = 1 .. Len(ls)
    BY <1>4
  <2>3. Trimmed(r) = [i \in 1 .. Len(ls) |-> r[i]]
    BY <2>1, <2>2, Zenon DEF Trimmed
  <2>4. QED
    BY <1>4, <2>2, <2>3
<1>8. QED
  BY <1>1, <1>6, <1>7 DEF ReadOf, Awaited

LEMMA AwaitedOfAppend ==
    ASSUME NEW q \in Seq(MessageType), NEW msg \in SentMessages
    PROVE  Awaited(Append(q, msg)) = Awaited(q) \o Trimmed(<<msg>>)
<1>1. msg \in MessageType /\ <<msg>> \in Seq(MessageType)
  <2>1. msg \in MessageType
    BY DEF SentMessages
  <2>2. QED
    BY <2>1, SMT
<1>2. PICK k \in Seq(MessageType) : k = Kept(q, SentMessages)
  BY KeptHasType
<1>3. Kept(Append(q, msg), SentMessages) = Append(k, msg)
  BY <1>1, <1>2, KeptOfAppend
<1>4. Append(k, msg) = k \o <<msg>> /\ k \o <<msg>> \in Seq(MessageType)
  BY <1>1, AppendIsConcat, ConcatProperties
<1>5. Mapped(Trimmer, k \o <<msg>>)
          = Mapped(Trimmer, k) \o Mapped(Trimmer, <<msg>>)
  <2>1. PICK v \in Seq(MessageType) : v = <<msg>>
    BY <1>1
  <2>2. Mapped(Trimmer, k \o v) = Mapped(Trimmer, k) \o Mapped(Trimmer, v)
    BY ReadingIsMapping, MappedConcat
  <2>3. QED
    BY <2>1, <2>2
<1>6. /\ Trimmed(k \o <<msg>>) = Mapped(Trimmer, k \o <<msg>>)
      /\ Trimmed(k) = Mapped(Trimmer, k)
      /\ Trimmed(<<msg>>) = Mapped(Trimmer, <<msg>>)
  BY <1>1, <1>4, ReadingIsMapping
<1>7. /\ Awaited(Append(q, msg)) = Trimmed(k \o <<msg>>)
      /\ Awaited(q) = Trimmed(k)
  BY <1>2, <1>3, <1>4 DEF Awaited
<1>8. QED
  BY <1>5, <1>6, <1>7

\* What a recipient refuses is put back as it was, the phantom of an empty list
\* apart.
LEMMA AwaitedOfGiven ==
    ASSUME queue \in [Names -> Seq(MessageType)], NEW n \in Names,
           NEW msgs \in Given(n)
    PROVE  /\ RealOnes(msgs) \in Seq(SentMessages)
           /\ Awaited(msgs) = Trimmed(RealOnes(msgs))
<1>1. msgs \in Seq(MessageType) /\ RealOnes(msgs) \in Seq(RealMessages)
  BY GivenHasType, FiltersHaveTypes
<1>2. RealMessages \subseteq SentMessages
  BY DEF RealMessages, SentMessages, Real
<1>3. RealOnes(msgs) = Kept(msgs, RealMessages)
  BY <1>1, FiltersKeep
<1>4. CASE msgs \in Seq(RealMessages)
  <2>1. Kept(msgs, RealMessages) = msgs /\ Kept(msgs, SentMessages) = msgs
    BY <1>2, <1>4, KeptOfAll
  <2>2. QED
    BY <1>1, <1>2, <1>3, <2>1, SeqMonotonic DEF Awaited
<1>5. CASE msgs = <<Phantom>>
  <2>1. <<Phantom>> \in Seq({Phantom})
    BY SMT
  <2>2. /\ {Phantom} \cap RealMessages = {}
        /\ {Phantom} \cap SentMessages = {}
    BY DEF RealMessages, SentMessages, Real, Phantom
  <2>3. /\ Kept(<<Phantom>>, RealMessages) = <<>>
        /\ Kept(<<Phantom>>, SentMessages) = <<>>
    BY <2>1, <2>2, KeptOfNone
  <2>4. QED
    BY <1>1, <1>2, <1>3, <1>5, <2>3, SeqMonotonic DEF Awaited
<1>6. QED
  BY <1>4, <1>5, GivenHasType

(* What the file of messages holds when the call at work is done is what     *)
(* waits in the table.                                                       *)

MessagesAfterCall ==
    CASE messageCall.next = "none" -> messageLog
      [] messageCall.next \in {"append", "own"} -> messageLog \o messageCall.own
      [] messageCall.next = "truncate" ->
             Kept(messageLog, LinesBut(messageCall.name)) \o messageCall.own
      [] messageCall.next = "flush" -> messageCall.lines \o messageCall.own

MessagesInv ==
    /\ messageCall.next # "none" =>
           messageCall.own \in Seq(LinesFor(messageCall.name))
    /\ messageCall.next = "append" => Len(messageCall.own) = 1
    /\ messageCall.next = "flush" => messageLog \in Prefixes(messageCall.lines)
    /\ messageCall.next = "flush" =>
           messageCall.lines \in Seq(LinesBut(messageCall.name))
    /\ messageCall.next = "truncate" =>
           ReadOf(messageLog, messageCall.name) = Awaited(messageCall.was)
    /\ \A n \in Names : ReadOf(MessagesAfterCall, n) = Awaited(queue[n])

LEMMA MessagesStart == Init => MessagesInv
<1> SUFFICES ASSUME Init
             PROVE  MessagesInv
  OBVIOUS
<1>1. /\ messageCall.next = "none" /\ messageLog = <<>>
      /\ \A n \in Names : queue[n] = <<>>
  BY DEF Init, NoCall
<1>2. Awaited(<<>>) = <<>>
  <2>1. Trimmed(<<>>) = <<>>
    BY SMT DEF Trimmed
  <2>2. QED
    BY <2>1, KeptOfNothing DEF Awaited
<1>3. QED
  BY <1>1, <1>2, ReadOfNothing DEF MessagesInv, MessagesAfterCall

LEMMA MessagesStep ==
    ASSUME Unpadded
    PROVE  TypesInv /\ TypesInv' /\ MessagesInv /\ [Next]_vars => MessagesInv'
<1> SUFFICES ASSUME TypesInv, TypesInv', MessagesInv, [Next]_vars
             PROVE  MessagesInv'
  OBVIOUS
<1>0. /\ queue \in [Names -> Seq(MessageType)] /\ messageLog \in Seq(LineType)
      /\ messageCall.lines \in Seq(LineType)
      /\ messageCall.own \in Seq(LineType)
      /\ messageCall \in MessageCalls
  BY DEF TypesInv, MessageTypes, MessageCalls, Calls
<1>f. NoCall.next = "none"
  BY DEF NoCall
<1>u. ASSUME UNCHANGED messageVars
      PROVE  MessagesInv'
  BY <1>u, Zenon DEF messageVars, MessagesInv, MessagesAfterCall, Readable
<1>n. ASSUME messageCall = NoCall
      PROVE  \A n \in Names : ReadOf(messageLog, n) = Awaited(queue[n])
  BY <1>n, <1>f DEF MessagesInv, MessagesAfterCall
\* A step that changes neither the table nor what the file will hold.
<1>s. ASSUME queue' = queue, MessagesAfterCall' = MessagesAfterCall
      PROVE  \A n \in Names : ReadOf(MessagesAfterCall', n) = Awaited(queue'[n])
  <2>1. PICK file : file = MessagesAfterCall
    OBVIOUS
  <2>2. MessagesAfterCall' = file
    BY <1>s, <2>1
  <2>3. \A n \in Names : ReadOf(file, n) = Awaited(queue[n])
    BY <2>1 DEF MessagesInv
  <2>4. QED
    BY <1>s, <2>2, <2>3
<1>1. ASSUME NEW to \in Names, NEW from \in Names, NEW text \in Texts,
             AddMessage(to, from, text)
      PROVE  MessagesInv'
  <2> DEFINE msg == [from |-> from, text |-> text]
  <2>1. /\ queue' = [queue EXCEPT ![to] = Append(@, msg)]
        /\ messageLog' = messageLog /\ messageCall = NoCall
        /\ messageCall'.next = "append" /\ messageCall'.name = to
        /\ messageCall'.own = <<Line(to, msg)>>
    BY <1>1 DEF AddMessage, NoCall
  <2>2. /\ msg \in SentMessages /\ <<msg>> \in Seq(SentMessages)
        /\ queue[to] \in Seq(MessageType)
    <3>1. msg \in SentMessages
      BY StoresAssumptions DEF SentMessages, MessageType
    <3> HIDE DEF msg
    <3>2. <<msg>> \in Seq(SentMessages)
      BY <3>1, SMT
    <3>3. QED
      BY <1>0, <3>1, <3>2
  <2>3. messageCall'.own = Lines(to, <<msg>>)
    <3>1. Lines(to, <<msg>>) = <<Line(to, msg)>>
      BY SMT DEF Lines
    <3>2. QED
      BY <2>1, <3>1
  <2> HIDE DEF msg
  <2>4. /\ Lines(to, <<msg>>) \in Seq(LinesFor(to))
        /\ ReadLines(Lines(to, <<msg>>)) = Trimmed(<<msg>>)
    BY <2>2, WrittenIsRead
  <2> DEFINE own == Lines(to, <<msg>>)
  <2> HIDE DEF own
  <2>5. Len(messageCall'.own) = 1
    BY <2>1, SMT
  <2>6. MessagesAfterCall' = messageLog \o own
    BY <2>1, <2>3 DEF MessagesAfterCall, own
  <2>7. own \in Seq(LineType) /\ own \in Seq(LinesFor(to))
    BY <2>4, ReadOfOwn DEF own
  <2>8. ASSUME NEW n \in Names
        PROVE  ReadOf(messageLog \o own, n) = Awaited(queue'[n])
    <3>1. ReadOf(messageLog \o own, n) = ReadOf(messageLog, n) \o ReadOf(own, n)
      BY <1>0, <2>7, ReadOfConcat
    <3>2. ReadOf(messageLog, n) = Awaited(queue[n])
      BY <1>n, <2>1
    <3>3. CASE n = to
      <4>1. queue'[n] = Append(queue[n], msg)
        BY <1>0, <2>1, <3>3
      <4>2. Awaited(queue'[n]) = Awaited(queue[n]) \o Trimmed(<<msg>>)
        BY <2>2, <3>3, <4>1, AwaitedOfAppend
      <4>3. ReadOf(own, n) = Trimmed(<<msg>>)
        BY <2>4, <2>7, <3>3, ReadOfOwn DEF own
      <4>4. QED
        BY <3>1, <3>2, <4>2, <4>3
    <3>4. CASE n # to
      <4>1. queue'[n] = queue[n]
        BY <1>0, <2>1, <3>4
      <4>2. ReadOf(own, n) = <<>>
        BY <2>7, <3>4, ReadOfOwn
      <4>3. ReadOf(messageLog, n) \o <<>> = ReadOf(messageLog, n)
        BY <1>0, <2>7, ReadOfConcat, ConcatEmptySeq
      <4>4. QED
        BY <3>1, <3>2, <4>1, <4>2, <4>3
    <3>5. QED
      BY <3>3, <3>4
  <2>9. QED
    BY <2>1, <2>3, <2>5, <2>6, <2>7, <2>8 DEF MessagesInv, own
<1>2. ASSUME AppendMessage
      PROVE  MessagesInv'
  <2>1. /\ messageCall.next = "append" /\ queue' = queue
        /\ messageLog' = messageLog \o messageCall.own
        /\ messageCall'.next = "none"
    BY <1>2, <1>f DEF AppendMessage
  <2>2. MessagesAfterCall' = MessagesAfterCall
    BY <2>1 DEF MessagesAfterCall
  <2>3. QED
    BY <1>s, <2>1, <2>2 DEF MessagesInv
<1>3. ASSUME NEW n \in Names, NEW msgs \in Given(n), UpdateMessages(n, msgs)
      PROVE  MessagesInv'
  <2> DEFINE own == Lines(n, RealOnes(msgs))
             others == Kept(messageLog, LinesBut(n))
  <2>1. /\ messageCall = NoCall /\ messageLog' = messageLog
        /\ queue' = [queue EXCEPT ![n] = msgs]
        /\ messageCall' = [NoCall EXCEPT !.next = "truncate", !.name = n,
                                         !.was = queue[n],
                                         !.own = own]
    BY <1>3, Zenon DEF UpdateMessages, Lines
  <2>2. /\ messageCall'.next = "truncate" /\ messageCall'.name = n
        /\ messageCall'.own = own /\ messageCall'.was = queue[n]
    BY <2>1 DEF NoCall
  <2>3. queue'[n] = msgs /\ \A m \in Names : m # n => queue'[m] = queue[m]
    BY <1>0, <2>1
  <2>4. /\ RealOnes(msgs) \in Seq(SentMessages)
        /\ Awaited(msgs) = Trimmed(RealOnes(msgs))
    BY <1>0, AwaitedOfGiven
  <2>5. own \in Seq(LinesFor(n)) /\ ReadLines(own) = Awaited(msgs)
    BY <2>4, WrittenIsRead
  <2>6. others \in Seq(LineType)
    BY <1>0, KeptHasType
  <2> HIDE DEF own
  <2>7. own \in Seq(LineType)
    BY <2>5, ReadOfOwn
  <2>8. MessagesAfterCall' = others \o own
    BY <2>1, <2>2 DEF MessagesAfterCall
  <2>o. \A m \in Names :
          ReadOf(others, m) = IF m = n THEN <<>> ELSE ReadOf(messageLog, m)
    BY <1>0, ReadOfOthers
  <2> HIDE DEF others
  <2>9. ASSUME NEW m \in Names
        PROVE  ReadOf(others \o own, m) = Awaited(queue'[m])
    <3>1. /\ ReadOf(others \o own, m) = ReadOf(others, m) \o ReadOf(own, m)
          /\ ReadOf(own, m) \in Seq(MessageType)
          /\ ReadOf(messageLog, m) \in Seq(MessageType)
      <4>1. ReadOf(others \o own, m) = ReadOf(others, m) \o ReadOf(own, m)
        BY <2>6, <2>7, ReadOfConcat
      <4>2. ReadOf(own, m) \in Seq(MessageType)
        BY <2>7, ReadOfConcat
      <4>3. ReadOf(messageLog, m) \in Seq(MessageType)
        BY <1>0, ReadOfConcat
      <4>4. QED
        BY <4>1, <4>2, <4>3
    <3>2. CASE m = n
      <4>1. ReadOf(others, m) = <<>>
        BY <2>o, <3>2
      <4>2. ReadOf(own, m) = Awaited(queue'[m])
        BY <2>3, <2>5, <3>2, ReadOfOwn
      <4>3. <<>> \o ReadOf(own, m) = ReadOf(own, m)
        BY <3>1, ConcatEmptySeq
      <4>4. QED
        BY <3>1, <4>1, <4>2, <4>3
    <3>3. CASE m # n
      <4>1. ReadOf(others, m) = ReadOf(messageLog, m)
        BY <2>o, <3>3
      <4>2. ReadOf(own, m) = <<>>
        BY <2>5, <3>3, ReadOfOwn
      <4>3. ReadOf(messageLog, m) \o <<>> = ReadOf(messageLog, m)
        BY <3>1, ConcatEmptySeq
      <4>4. ReadOf(messageLog, m) = Awaited(queue'[m])
        BY <1>n, <2>1, <2>3, <3>3
      <4>5. QED
        BY <3>1, <4>1, <4>2, <4>3, <4>4
    <3>4. QED
      BY <3>2, <3>3
  <2>10. ReadOf(messageLog', n) = Awaited(messageCall'.was)
    BY <1>n, <2>1, <2>2
  <2>11. QED
    BY <2>2, <2>5, <2>8, <2>9, <2>10 DEF MessagesInv
<1>4. ASSUME TruncateMessages
      PROVE  MessagesInv'
  <2>1. PICK n \in Names : n = messageCall.name
    BY <1>0, <1>4 DEF MessageCalls, TruncateMessages
  <2>2. /\ messageCall.next = "truncate" /\ queue' = queue
        /\ messageLog' = <<>>
        /\ messageCall'.next = "flush" /\ messageCall'.name = n
        /\ messageCall'.own = messageCall.own
        /\ messageCall'.lines = OtherMessages(n)
    BY <1>0, <1>4, <2>1 DEF TruncateMessages, MessageCalls, Calls
  <2>3. OtherMessages(n) = Kept(messageLog, LinesBut(n))
    BY <1>0, FiltersKeep
  <2>4. MessagesAfterCall' = MessagesAfterCall
    BY <2>1, <2>2, <2>3 DEF MessagesAfterCall
  <2>5. OtherMessages(n) \in Seq(LinesBut(n))
    <3>1. Kept(messageLog, LinesBut(n)) \in Seq(LineType \cap LinesBut(n))
      BY <1>0, KeptLength
    <3>2. LineType \cap LinesBut(n) \subseteq LinesBut(n)
      OBVIOUS
    <3>3. QED
      BY <2>3, <3>1, <3>2, SeqMonotonic
  <2>6. <<>> \in Prefixes(OtherMessages(n))
    <3>1. OtherMessages(n) \in Seq(LineType)
      BY <1>0, FiltersHaveTypes
    <3>2. /\ 0 \in 0 .. Len(OtherMessages(n))
          /\ SubSeq(OtherMessages(n), 1, 0) = <<>>
      BY <3>1, LenProperties, SMT
    <3>3. QED
      BY <3>2, Zenon DEF Prefixes
  <2>7. messageCall.own \in Seq(LinesFor(n))
    BY <2>1, <2>2 DEF MessagesInv
  <2>8. QED
    BY <1>s, <2>2, <2>4, <2>5, <2>6, <2>7 DEF MessagesInv
<1>5. ASSUME FlushMessages
      PROVE  MessagesInv'
  <2>1. /\ messageCall.next = "flush" /\ queue' = queue
        /\ messageLog' = messageCall.lines
    BY <1>5 DEF FlushMessages
  <2>2. CASE messageCall.own = <<>>
    <3>1. messageCall'.next = "none"
      BY <1>5, <1>f, <2>2 DEF FlushMessages
    <3>2. messageCall.lines \o <<>> = messageCall.lines
      BY <1>0, ConcatEmptySeq
    <3>3. MessagesAfterCall' = MessagesAfterCall
      BY <2>1, <2>2, <3>1, <3>2 DEF MessagesAfterCall
    <3>4. QED
      BY <1>s, <2>1, <3>1, <3>3 DEF MessagesInv
  <2>3. CASE messageCall.own # <<>>
    <3>1. /\ messageCall'.next = "own" /\ messageCall'.own = messageCall.own
          /\ messageCall'.name = messageCall.name
      BY <1>0, <1>5, <2>3 DEF FlushMessages, MessageCalls, Calls
    <3>2. MessagesAfterCall' = MessagesAfterCall
      BY <2>1, <3>1 DEF MessagesAfterCall
    <3>3. messageCall.own \in Seq(LinesFor(messageCall.name))
      BY <2>1 DEF MessagesInv
    <3>4. QED
      BY <1>s, <2>1, <3>1, <3>2, <3>3 DEF MessagesInv
  <2>4. QED
    BY <2>2, <2>3
<1>6. ASSUME WriteMessage
      PROVE  MessagesInv'
  <2>1. PICK n \in Names : n = messageCall.name
    BY <1>0, <1>6 DEF MessageCalls, WriteMessage
  <2>2. PICK own \in Seq(LinesFor(n)) : own = messageCall.own
    BY <1>6, <2>1 DEF MessagesInv, WriteMessage
  <2>3. /\ messageCall.next = "own" /\ queue' = queue
        /\ messageLog' = Append(messageLog, Head(own))
        /\ own # <<>> /\ own \in Seq(LineType)
    BY <1>0, <1>6, <2>2 DEF WriteMessage, MessageCalls
  <2>4. /\ Head(own) \in LineType /\ Tail(own) \in Seq(LineType)
        /\ Tail(own) \in Seq(LinesFor(n))
        /\ Len(own) \in Nat \ {0} /\ Len(Tail(own)) = Len(own) - 1
    BY <2>3, HeadTailProperties, EmptySeq
  <2>5. own = <<Head(own)>> \o Tail(own) /\ <<Head(own)>> \in Seq(LineType)
    <3>1. 1 \in 1 .. Len(own) /\ Len(own) \in 1 .. Len(own) /\ Head(own) = own[1]
      BY <2>3, <2>4, SMT
    <3>2. SubSeq(own, 1, Len(own)) = <<own[1]>> \o SubSeq(own, 1 + 1, Len(own))
      BY <2>3, <3>1, SubSeqRecursiveFirst
    <3>3. SubSeq(own, 1, Len(own)) = own /\ Tail(own) = SubSeq(own, 2, Len(own))
      BY <2>3, SubSeqFull, TailIsSubSeq
    <3>4. 1 + 1 = 2
      BY SMT
    <3>5. <<Head(own)>> \in Seq(LineType)
      BY <2>4, SMT
    <3>6. own = <<own[1]>> \o Tail(own)
      <4>1. SubSeq(own, 1 + 1, Len(own)) = Tail(own)
        BY <3>3, <3>4, Zenon
      <4>2. QED
        BY <3>2, <3>3, <4>1, Zenon
    <3>7. QED
      BY <3>1, <3>5, <3>6, Zenon
  <2>6. messageLog' \o Tail(own) = messageLog \o own
    <3>1. messageLog' = messageLog \o <<Head(own)>>
      BY <1>0, <2>3, <2>4, AppendIsConcat
    <3>2. (messageLog \o <<Head(own)>>) \o Tail(own)
              = messageLog \o (<<Head(own)>> \o Tail(own))
      <4>1. PICK log \in Seq(LineType) : log = messageLog
        BY <1>0, Zenon
      <4>a. PICK first \in Seq(LineType) : first = <<Head(own)>>
        BY <2>5
      <4>b. PICK rest \in Seq(LineType) : rest = Tail(own)
        BY <2>4, Zenon
      <4>2. (log \o first) \o rest = log \o (first \o rest)
        BY ConcatAssociative, SMTT(30)
      <4>3. QED
        BY <4>1, <4>a, <4>b, <4>2
    <3>3. QED
      BY <2>5, <3>1, <3>2
  <2>7. MessagesAfterCall = messageLog \o own
    BY <2>2, <2>3 DEF MessagesAfterCall
  <2>8. CASE Len(own) = 1
    <3>1. messageCall'.next = "none"
      BY <1>6, <1>f, <2>2, <2>8 DEF WriteMessage
    <3>2. Tail(own) = <<>>
      <4>1. PICK t \in Seq(LineType) : t = Tail(own)
        BY <2>4, Zenon
      <4>2. Len(t) = 0
        <5>1. Len(t) = Len(own) - 1
          BY <2>4, <4>1, Zenon
        <5>2. QED
          BY <2>8, <5>1, SMT
      <4>3. t # <<>> => Len(t) \in Nat \ {0}
        BY HeadTailProperties
      <4>4. t = <<>>
        BY <4>2, <4>3, SMT
      <4>5. QED
        BY <4>1, <4>4, Zenon
    <3>3. messageLog' \o <<>> = messageLog'
      BY <1>0, <2>3, <2>4, AppendProperties, ConcatEmptySeq
    <3>4. MessagesAfterCall' = MessagesAfterCall
      BY <2>6, <2>7, <3>1, <3>2, <3>3 DEF MessagesAfterCall
    <3>5. QED
      BY <1>s, <2>3, <3>1, <3>4 DEF MessagesInv
  <2>9. CASE Len(own) # 1
    <3>1. /\ messageCall'.next = "own" /\ messageCall'.own = Tail(own)
          /\ messageCall'.name = n
      BY <1>0, <1>6, <2>1, <2>2, <2>9 DEF WriteMessage, MessageCalls, Calls
    <3>2. MessagesAfterCall' = messageLog' \o Tail(own)
      BY <3>1 DEF MessagesAfterCall
    <3>3. MessagesAfterCall' = MessagesAfterCall
      BY <2>6, <2>7, <3>2
    <3>4. QED
      BY <1>s, <2>3, <2>4, <3>1, <3>3 DEF MessagesInv
  <2>10. QED
    BY <2>8, <2>9
<1>7. ASSUME Kill
      PROVE  MessagesInv'
  <2>1. queue' = queue /\ messageCall' = messageCall
    BY <1>7, Zenon DEF Kill
  <2>2. \/ messageLog' = messageLog
        \/ /\ messageCall.next = "flush"
           /\ messageLog' \in Prefixes(messageCall.lines)
    BY <1>7, Zenon DEF Kill
  <2>3. CASE messageLog' = messageLog
    BY <1>u, <2>1, <2>3 DEF messageVars
  <2>4. CASE /\ messageCall.next = "flush"
             /\ messageLog' \in Prefixes(messageCall.lines)
    <3>1. MessagesAfterCall' = MessagesAfterCall
      BY <2>1, <2>4 DEF MessagesAfterCall
    <3>2. QED
      BY <1>s, <2>1, <2>4, <3>1 DEF MessagesInv
  <2>5. QED
    BY <2>2, <2>3, <2>4
<1>8. ASSUME Start
      PROVE  MessagesInv'
  <2>1. /\ messageLog' = messageLog /\ messageCall'.next = "none"
        /\ queue' = [n \in Names |-> ReadMessages(n)]
    BY <1>8, <1>f DEF Start
  <2>2. MessagesAfterCall' = messageLog
    BY <2>1 DEF MessagesAfterCall
  <2>3. ASSUME NEW n \in Names
        PROVE  ReadOf(messageLog, n) = Awaited(queue'[n])
    <3>1. queue'[n] = ReadOf(messageLog, n)
      BY <1>0, <2>1, FiltersKeep
    <3>2. QED
      BY <1>0, <3>1, ReadIsAwaited
  <2>4. QED
    BY <2>1, <2>2, <2>3 DEF MessagesInv
<1>9. CASE UNCHANGED vars
  BY <1>9, <1>u, Zenon DEF vars
<1>10. ASSUME \/ \E n \in Names : CreateAccount(n) \/ RemoveAccount(n)
              \/ AppendAccount \/ TruncateAccounts \/ FlushAccounts
       PROVE  MessagesInv'
  BY <1>10, <1>u, Zenon DEF CreateAccount, RemoveAccount, AppendAccount,
     TruncateAccounts, FlushAccounts
<1>11. QED
  BY <1>1, <1>2, <1>3, <1>4, <1>5, <1>6, <1>7, <1>8, <1>9, <1>10, Zenon DEF Next


-----------------------------------------------------------------------------
(* The two tables together.                                                  *)

StoresInv == TypesInv /\ AccountsInv /\ MessagesInv

LEMMA StoresStart == Init => StoresInv
BY TypesStart, AccountsStart, MessagesStart DEF StoresInv

LEMMA StoresStep ==
    ASSUME Unpadded
    PROVE  StoresInv /\ [Next]_vars => StoresInv'
BY TypesStep, AccountsStep, MessagesStep, Zenon DEF StoresInv

LEMMA MatchImplied ==
    ASSUME Unpadded, StoresInv
    PROVE  FileMatchesMemory
<1>1. /\ accountLog \in Seq(Names) /\ messageLog \in Seq(LineType)
      /\ accounts \in Seq(Names) /\ queue \in [Names -> Seq(MessageType)]
  BY DEF StoresInv, TypesInv, AccountTypes, MessageTypes
<1>2. ASSUME accountCall = NoCall
      PROVE  /\ Sound(ReadAccounts) = Sound(accounts)
             /\ \A n \in doubled : Times(ReadAccounts, n) < Times(accounts, n)
  <2>1. accountCall.next = "none"
    BY <1>2 DEF NoCall
  <2>2. /\ Kept(accountLog, SoundNames) = Kept(accounts, SoundNames)
        /\ \A n \in doubled : Times(accountLog, n) < Times(accounts, n)
    BY <2>1 DEF StoresInv, AccountsInv, AccountsAfterCall
  <2>3. ReadAccounts = accountLog
    BY <1>1, ReadAccountsPlain
  <2>4. \A s \in Seq(Names) : Sound(s) = Kept(s, SoundNames)
    BY FiltersKeep DEF SoundNames
  <2>5. QED
    BY <1>1, <2>2, <2>3, <2>4
<1>3. ASSUME messageCall = NoCall, NEW n \in Names
      PROVE  ReadMessages(n) = Waiting(n)
  <2>1. messageCall.next = "none"
    BY <1>3 DEF NoCall
  <2>2. ReadOf(messageLog, n) = Awaited(queue[n])
    BY <2>1 DEF StoresInv, MessagesInv, MessagesAfterCall
  <2>3. QED
    BY <1>1, <2>2, FiltersKeep DEF Awaited, Waiting
<1>4. QED
  BY <1>2, <1>3 DEF FileMatchesMemory

\* Between two calls a file gives back what the table in memory holds, after
\* any calls, kills and starts, if no name has a space beside it: with one, an
\* account that was removed stays in the file.  Only a name that was removed while
\* a replica had it twice is in the file less often than in the list.
THEOREM FilesMatchMemory ==
    ASSUME Unpadded
    PROVE  Spec => []FileMatchesMemory
<1>1. Init => StoresInv
  BY StoresStart
<1>2. StoresInv /\ [Next]_vars => StoresInv'
  BY StoresStep
<1>3. StoresInv => FileMatchesMemory
  BY MatchImplied
<1>4. QED
  BY <1>1, <1>2, <1>3, PTL DEF Spec

LEMMA FrontOfOneMore ==
    ASSUME NEW T, NEW s \in Seq(T), NEW r \in Seq(T), Len(r) = 1
    PROVE  Front(s \o r) = s
<1>1. r[1] \in T
  <2>1. 1 \in 1 .. Len(r)
    BY SMT
  <2>2. QED
    BY <2>1, ElementOfSeq, Zenon
<1>2. PICK e \in T : e = r[1]
  BY <1>1
<1>3. r = <<e>>
  BY <1>2, SMT
<1>4. Append(s, e) = s \o r
  BY <1>3, AppendIsConcat
<1>5. QED
  BY <1>4, FrontOfAppend

LEMMA MessagesRestored ==
    ASSUME Unpadded, StoresInv, Start, NEW n \in Names
    PROVE  LET own == n = messageCall.name
           IN  CASE messageCall.next = "append" /\ own ->
                        queue'[n] = Front(Waiting(n))
                 [] messageCall.next = "truncate" /\ own ->
                        queue'[n] = AsRead(messageCall.was)
                 [] \/ messageCall.next = "flush"
                    \/ messageCall.next = "own" /\ own ->
                        IsPrefix(queue'[n], Waiting(n))
                 [] OTHER -> queue'[n] = Waiting(n)
<1>1. /\ messageLog \in Seq(LineType) /\ messageCall.lines \in Seq(LineType)
      /\ messageCall.own \in Seq(LineType)
      /\ messageCall.next \in {"none", "append", "truncate", "flush", "own"}
      /\ queue \in [Names -> Seq(MessageType)]
      /\ messageCall.was \in Seq(MessageType)
  BY DEF StoresInv, TypesInv, MessageTypes, MessageCalls, Calls
<1>2. MessagesInv
  BY DEF StoresInv
<1>3. queue'[n] = ReadOf(messageLog, n)
  BY <1>1, FiltersKeep DEF Start
<1>4. Waiting(n) = Awaited(queue[n])
  BY <1>1, FiltersKeep DEF Awaited, Waiting
<1>5. Waiting(n) = ReadOf(MessagesAfterCall, n)
  BY <1>2, <1>4 DEF MessagesInv
<1>6. ReadOf(messageLog, n) \in Seq(MessageType)
  BY <1>1, ReadOfConcat
\* What the file has, and what the call was still to write behind it.
<1>7. ASSUME NEW rest \in Seq(LineType), MessagesAfterCall = messageLog \o rest
      PROVE  /\ Waiting(n) = ReadOf(messageLog, n) \o ReadOf(rest, n)
             /\ ReadOf(rest, n) \in Seq(MessageType)
             /\ ReadOf(rest, n) = <<>> => queue'[n] = Waiting(n)
  <2>1. /\ ReadOf(messageLog \o rest, n)
               = ReadOf(messageLog, n) \o ReadOf(rest, n)
        /\ ReadOf(rest, n) \in Seq(MessageType)
    <3>1. PICK log \in Seq(LineType) : log = messageLog
      BY <1>1
    <3>2. ReadOf(log \o rest, n) = ReadOf(log, n) \o ReadOf(rest, n)
      BY ReadOfConcat
    <3>3. ReadOf(rest, n) \in Seq(MessageType)
      BY ReadOfConcat
    <3>4. QED
      BY <3>1, <3>2, <3>3
  <2>2. ReadOf(messageLog, n) \o <<>> = ReadOf(messageLog, n)
    BY <1>6, ConcatEmptySeq
  <2>3. Waiting(n) = ReadOf(messageLog, n) \o ReadOf(rest, n)
    BY <1>5, <1>7, <2>1
  <2>4. QED
    BY <1>3, <2>1, <2>2, <2>3
<1>8. CASE messageCall.next = "none"
  BY <1>3, <1>5, <1>8 DEF MessagesAfterCall
<1>9. ASSUME messageCall.next \in {"append", "own"}
      PROVE  /\ MessagesAfterCall = messageLog \o messageCall.own
             /\ messageCall.own \in Seq(LinesFor(messageCall.name))
  BY <1>2, <1>9 DEF MessagesAfterCall, MessagesInv
<1>10. CASE messageCall.next = "append" /\ n = messageCall.name
  <2>1. ReadOf(messageCall.own, n) = ReadLines(messageCall.own)
    BY <1>9, <1>10, ReadOfOwn
  <2>2. Len(ReadLines(messageCall.own)) = Len(messageCall.own)
    BY <1>1, ReadingIsMapping, MappedIsASequence
  <2>3. Len(ReadOf(messageCall.own, n)) = 1
    BY <1>2, <1>10, <2>1, <2>2 DEF MessagesInv
  <2>4. Front(Waiting(n)) = ReadOf(messageLog, n)
    <3>1. PICK a \in Seq(MessageType), b \in Seq(MessageType) :
              a = ReadOf(messageLog, n) /\ b = ReadOf(messageCall.own, n)
      BY <1>1, <1>6, <1>7, <1>9, <1>10
    <3>2. Waiting(n) = a \o b
      BY <1>1, <1>7, <1>9, <1>10, <3>1
    <3>3. Len(b) = 1
      BY <2>3, <3>1
    <3>4. Front(a \o b) = a
      BY <3>3, FrontOfOneMore
    <3>5. QED
      BY <3>1, <3>2, <3>4
  <2>5. QED
    BY <1>3, <1>10, <2>4
<1>11. CASE messageCall.next = "own" /\ n = messageCall.name
  <2>1. IsPrefix(ReadOf(messageLog, n), Waiting(n))
    BY <1>1, <1>6, <1>7, <1>9, <1>11, ContinuedIsPrefix
  <2>2. QED
    BY <1>3, <1>11, <2>1
<1>12. CASE messageCall.next \in {"append", "own"} /\ n # messageCall.name
  <2>1. ReadOf(messageCall.own, n) = <<>>
    BY <1>9, <1>12, ReadOfOwn
  <2>2. QED
    BY <1>1, <1>7, <1>9, <1>12, <2>1
<1>13. CASE messageCall.next = "flush"
  <2>1. PICK t \in Seq(LineType) : messageCall.lines = messageLog \o t
    BY <1>1, <1>2, <1>13, PrefixIsContinued DEF MessagesInv
  <2>2. MessagesAfterCall = messageLog \o (t \o messageCall.own)
    <3>1. MessagesAfterCall = (messageLog \o t) \o messageCall.own
      BY <1>13, <2>1 DEF MessagesAfterCall
    <3>2. PICK log \in Seq(LineType), own \in Seq(LineType) :
              log = messageLog /\ own = messageCall.own
      BY <1>1
    <3>3. (log \o t) \o own = log \o (t \o own)
      BY ConcatAssociative, SMTT(30)
    <3>4. QED
      BY <3>1, <3>2, <3>3
  <2>3. t \o messageCall.own \in Seq(LineType)
    BY <1>1, ConcatProperties
  <2>4. IsPrefix(ReadOf(messageLog, n), Waiting(n))
    BY <1>6, <1>7, <2>2, <2>3, ContinuedIsPrefix
  <2>5. QED
    BY <1>3, <1>13, <2>4
<1>14. CASE messageCall.next = "truncate" /\ n = messageCall.name
  <2>1. queue'[n] = Awaited(messageCall.was)
    BY <1>2, <1>3, <1>14 DEF MessagesInv
  <2>2. AsRead(messageCall.was) = Awaited(messageCall.was)
    BY <1>1, FiltersKeep DEF Awaited
  <2>3. QED
    BY <1>14, <2>1, <2>2
<1>15. CASE messageCall.next = "truncate" /\ n # messageCall.name
  <2> DEFINE others == Kept(messageLog, LinesBut(messageCall.name))
  <2>1. MessagesAfterCall = others \o messageCall.own
    BY <1>15 DEF MessagesAfterCall
  <2>2. /\ others \in Seq(LineType)
        /\ ReadOf(others, n) = ReadOf(messageLog, n)
    BY <1>1, <1>15, KeptHasType, ReadOfOthers
  <2> HIDE DEF others
  <2>3. ReadOf(messageCall.own, n) = <<>>
    BY <1>2, <1>15, ReadOfOwn DEF MessagesInv
  <2>4. ReadOf(others \o messageCall.own, n)
            = ReadOf(others, n) \o ReadOf(messageCall.own, n)
    BY <1>1, <2>2, ReadOfConcat
  <2>5. ReadOf(messageLog, n) \o <<>> = ReadOf(messageLog, n)
    BY <1>6, ConcatEmptySeq
  <2>6. Waiting(n) = queue'[n]
    BY <1>3, <1>5, <2>1, <2>2, <2>3, <2>4, <2>5
  <2>7. QED
    BY <1>15, <2>6
<1>16. QED
  BY <1>1, <1>8, <1>10, <1>11, <1>12, <1>13, <1>14, <1>15

\* Only a start makes a server that was killed run again.
LEMMA OnlyStartRestarts ==
    ASSUME [Next]_vars, ~up, up'
    PROVE  Start
<1>1. CASE UNCHANGED vars
  BY <1>1 DEF vars
<1>2. ASSUME NEW n \in Names, CreateAccount(n) \/ RemoveAccount(n)
      PROVE  FALSE
  BY <1>2 DEF CreateAccount, RemoveAccount, Call
<1>3. ASSUME NEW to \in Names, NEW from \in Names, NEW text \in Texts,
             AddMessage(to, from, text)
      PROVE  FALSE
  BY <1>3 DEF AddMessage, Call
<1>4. ASSUME NEW n \in Names, NEW msgs \in Given(n), UpdateMessages(n, msgs)
      PROVE  FALSE
  BY <1>4 DEF UpdateMessages, Call
<1>5. ASSUME \/ AppendAccount \/ TruncateAccounts \/ FlushAccounts
             \/ AppendMessage \/ TruncateMessages \/ FlushMessages
             \/ WriteMessage \/ Kill
      PROVE  FALSE
  BY <1>5 DEF AppendAccount, TruncateAccounts, FlushAccounts, AppendMessage,
     TruncateMessages, FlushMessages, WriteMessage, Kill
<1>6. QED
  BY <1>1, <1>2, <1>3, <1>4, <1>5, Zenon DEF Next

\* A server that is started again has what it had when it was killed, if no name
\* has a space beside it.  The call that was at work is undone or done; one that
\* had truncated the file leaves a prefix of what it was writing.
THEOREM RestartsRestore ==
    ASSUME Unpadded
    PROVE  Spec => RestartRestores
<1>1. Init => StoresInv
  BY StoresStart
<1>2. StoresInv /\ [Next]_vars => StoresInv'
  BY StoresStep
<1> DEFINE Accounts ==
               CASE accountCall.next = "none"   ->
                        Sound(accounts') = Sound(accounts)
                 [] accountCall.next = "append" ->
                        Sound(accounts') = Sound(Front(accounts))
                 [] accountCall.next = "truncate" ->
                        Sound(RemoveFirst(accounts', accountCall.name))
                            = Sound(accounts)
                 [] accountCall.next = "flush"  ->
                        IsPrefix(Sound(accounts'), Sound(accounts))
           Messages(n) ==
               LET own == n = messageCall.name
               IN  CASE messageCall.next = "append" /\ own ->
                            queue'[n] = Front(Waiting(n))
                     [] messageCall.next = "truncate" /\ own ->
                            queue'[n] = AsRead(messageCall.was)
                     [] \/ messageCall.next = "flush"
                        \/ messageCall.next = "own" /\ own ->
                            IsPrefix(queue'[n], Waiting(n))
                     [] OTHER -> queue'[n] = Waiting(n)
           Restored == ~up /\ up' => Accounts /\ \A n \in Names : Messages(n)
<1>3. StoresInv /\ [Next]_vars => Restored
  <2> SUFFICES ASSUME StoresInv, [Next]_vars, ~up, up'
               PROVE  Accounts /\ \A n \in Names : Messages(n)
    OBVIOUS
  <2>1. Start
    BY OnlyStartRestarts
  <2>2. Accounts
    <3>1. accounts' \in Seq(Names)
      <4>1. TypesInv'
        BY TypesStep DEF StoresInv
      <4>2. QED
        BY <4>1 DEF TypesInv, AccountTypes
    <3>2. PICK list \in Seq(Names) : list = accounts'
      BY <3>1
    <3>3. CASE accountCall.next = "none"
      BY <2>1, <3>2, <3>3, AccountsRestored DEF StoresInv
    <3>4. QED
      BY <2>1, <3>2, AccountsRestored DEF StoresInv
  <2>3. ASSUME NEW n \in Names
        PROVE  Messages(n)
    BY <2>1, MessagesRestored
  <2>4. QED
    BY <2>2, <2>3
<1>4. StoresInv /\ [Next]_vars => [Restored]_vars
  BY <1>3
<1>5. QED
  BY <1>1, <1>2, <1>4, PTL DEF Spec, RestartRestores
=============================================================================
