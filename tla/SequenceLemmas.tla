--------------------------- MODULE SequenceLemmas ---------------------------
(***************************************************************************)
(* Lemmas that the proofs of several components rest on: induction as the  *)
(* least number at which a claim could fail, and what taking an element    *)
(* out of a sequence leaves.                                               *)
(***************************************************************************)
EXTENDS SequencesExt, FiniteSetTheorems, SequenceTheorems, WellFoundedInduction, TLAPS

(* A set of natural numbers that is not empty has a least element.         *)
LEMMA LeastNatural ==
    ASSUME NEW S \in SUBSET Nat, S # {}
    PROVE  \E m \in S : \A k \in S : m <= k
<1>1. PICK m \in S : \A k \in S : <<k, m>> \notin OpToRel(<, Nat)
    BY WFMin, NatLessThanWellFounded, Zenon
<1>2. \A k \in S : ~(k < m)
    BY <1>1 DEF OpToRel
<1>3. QED
    BY <1>2

\* The elements of a sequence, and that none of them occurs twice.
Elements(seq) == {seq[i] : i \in DOMAIN seq}
Once(seq) == \A i, j \in DOMAIN seq : seq[i] = seq[j] => i = j

(* Taking out the k-th element moves those after it down by one.           *)
LEMMA RemoveAtProperties ==
    ASSUME NEW S, NEW seq \in Seq(S), NEW k \in 1..Len(seq)
    PROVE  /\ RemoveAt(seq, k) \in Seq(S)
           /\ Len(RemoveAt(seq, k)) = Len(seq) - 1
           /\ \A i \in 1..(Len(seq) - 1) :
                 RemoveAt(seq, k)[i] = IF i < k THEN seq[i] ELSE seq[i + 1]
<1> DEFINE front == SubSeq(seq, 1, k - 1)
           back == SubSeq(seq, k + 1, Len(seq))
<1>1. Len(seq) \in Nat
    OBVIOUS
<1>2. /\ front \in Seq(S) /\ Len(front) = k - 1
      /\ \A i \in 1..(k - 1) : front[i] = seq[i]
    BY <1>1
<1>3. /\ back \in Seq(S) /\ Len(back) = Len(seq) - k
      /\ \A i \in 1..(Len(seq) - k) : back[i] = seq[k + i]
    BY <1>1
<1>4. RemoveAt(seq, k) = front \o back
    BY DEF RemoveAt
<1> HIDE DEF front, back
<1>5. front \o back \in Seq(S) /\ Len(front \o back) = Len(seq) - 1
    <2>1. front \o back \in Seq(S) /\ Len(front \o back) = Len(front) + Len(back)
        BY <1>2, <1>3, ConcatProperties
    <2>2. QED
        BY <1>1, <1>2, <1>3, <2>1
<1>6. ASSUME NEW i \in 1..(Len(seq) - 1)
      PROVE  (front \o back)[i] = IF i < k THEN seq[i] ELSE seq[i + 1]
    <2>1. CASE i < k
        BY <1>1, <1>2, <1>3, <2>1
    <2>2. CASE i >= k
        <3> DEFINE j == i - (k - 1)
        <3>1. j \in 1..(Len(seq) - k) /\ i = (k - 1) + j
            BY <1>1, <2>2
        <3> HIDE DEF j
        <3>2. (front \o back)[i] = back[j]
            BY <1>1, <1>2, <1>3, <3>1, ConcatProperties
        <3>3. back[j] = seq[k + j] /\ k + j = i + 1
            BY <1>1, <1>3, <3>1
        <3>4. QED
            BY <2>2, <3>2, <3>3
    <2>3. i < k \/ i >= k
        BY <1>1
    <2>4. QED
        BY <2>1, <2>2, <2>3
<1>7. QED
    BY <1>4, <1>5, <1>6

(* Where every element occurs once, RemoveFirst leaves all the others.     *)
LEMMA RemoveFirstProperties ==
    ASSUME NEW S, NEW seq \in Seq(S), Once(seq), NEW e
    PROVE  /\ RemoveFirst(seq, e) \in Seq(S)
           /\ Once(RemoveFirst(seq, e))
           /\ Elements(RemoveFirst(seq, e)) = Elements(seq) \ {e}
<1>1. Len(seq) \in Nat /\ DOMAIN seq = 1..Len(seq)
    OBVIOUS
<1>2. CASE ~ \E i \in 1..Len(seq) : seq[i] = e
    <2>1. RemoveFirst(seq, e) = seq
        BY <1>2 DEF RemoveFirst
    <2>2. QED
        BY <1>1, <1>2, <2>1 DEF Elements
<1>3. CASE \E i \in 1..Len(seq) : seq[i] = e
    <2>1. PICK k \in 1..Len(seq) : seq[k] = e
        BY <1>3
    <2>2. {i \in 1..Len(seq) : seq[i] = e} = {k}
        BY <1>1, <2>1 DEF Once
    <2>3. Min({k}) = k
        BY DEF Min
    <2>4. RemoveFirst(seq, e) = RemoveAt(seq, k)
        BY <1>3, <2>2, <2>3 DEF RemoveFirst, SelectInSeq
    <2> DEFINE rest == RemoveAt(seq, k)
    <2>5. /\ rest \in Seq(S) /\ DOMAIN rest = 1..(Len(seq) - 1)
          /\ \A i \in 1..(Len(seq) - 1) : rest[i] = IF i < k THEN seq[i] ELSE seq[i + 1]
        <3>1. /\ rest \in Seq(S) /\ Len(rest) = Len(seq) - 1
              /\ \A i \in 1..(Len(seq) - 1) : rest[i] = IF i < k THEN seq[i] ELSE seq[i + 1]
            BY RemoveAtProperties
        <3>2. DOMAIN rest = 1..Len(rest)
            BY <3>1, LenProperties
        <3>3. QED
            BY <3>1, <3>2
    <2> HIDE DEF rest
    <2>6. Once(rest)
        <3> SUFFICES ASSUME NEW i \in DOMAIN rest, NEW j \in DOMAIN rest, rest[i] = rest[j]
                     PROVE  i = j
            BY DEF Once
        <3>1. i \in 1..(Len(seq) - 1) /\ j \in 1..(Len(seq) - 1)
            BY <2>5
        <3>2. \A m, n \in 1..Len(seq) : seq[m] = seq[n] => m = n
            BY <1>1 DEF Once
        <3>3. (IF i < k THEN seq[i] ELSE seq[i + 1]) = (IF j < k THEN seq[j] ELSE seq[j + 1])
            BY <2>5, <3>1
        <3> HIDE DEF Once
        <3>4. QED
            BY <1>1, <3>1, <3>2, <3>3
    <2>7. ASSUME NEW d \in Elements(rest) PROVE d \in Elements(seq) \ {e}
        <3>1. PICK i \in 1..(Len(seq) - 1) : d = rest[i]
            BY <2>5 DEF Elements
        <3>2. PICK j \in 1..Len(seq) : d = seq[j] /\ j # k
            BY <1>1, <2>5, <3>1
        <3>3. QED
            BY <1>1, <2>1, <3>2 DEF Elements, Once
    <2>8. ASSUME NEW d \in Elements(seq) \ {e} PROVE d \in Elements(rest)
        <3>1. PICK j \in 1..Len(seq) : d = seq[j]
            BY <1>1 DEF Elements
        <3>2. j # k
            BY <2>1, <3>1
        <3>3. PICK i \in 1..(Len(seq) - 1) : d = rest[i]
            <4>1. CASE j < k
                BY <1>1, <2>5, <3>1, <4>1
            <4>2. CASE j > k
                <5>1. j - 1 \in 1..(Len(seq) - 1) /\ rest[j - 1] = seq[j]
                    BY <1>1, <2>5, <4>2
                <5>2. QED
                    BY <3>1, <5>1
            <4>3. QED
                BY <1>1, <3>2, <4>1, <4>2
        <3>4. QED
            BY <2>5, <3>3 DEF Elements
    <2>9. QED
        BY <2>4, <2>5, <2>6, <2>7, <2>8 DEF rest
<1>4. QED
    BY <1>2, <1>3

(* A finite set in any order has each of its elements once.                *)
LEMMA SetToSeqsProperties ==
    ASSUME NEW S, IsFiniteSet(S), NEW seq \in SetToSeqs(S)
    PROVE  seq \in Seq(S) /\ Once(seq) /\ Elements(seq) = S
<1> DEFINE n == Cardinality(S)
<1>1. n \in Nat
    BY FS_CardinalityType
<1>2. /\ seq \in [1..n -> S]
      /\ \A i, j \in 1..n : i # j => seq[i] # seq[j]
    BY DEF SetToSeqs
<1>3. IsFiniteSet(1..n) /\ Cardinality(1..n) = n
    BY <1>1, FS_Interval
<1> HIDE DEF n
<1>4. seq \in Seq(S) /\ Once(seq)
    BY <1>1, <1>2 DEF Once
<1>5. seq \in Injection(1..n, S)
    BY <1>2 DEF Injection, IsInjective
<1>6. seq \in Surjection(1..n, S)
    BY <1>3, <1>5, FS_Injection DEF n
<1>7. Elements(seq) = S
    BY <1>2, <1>6 DEF Elements, Surjection
<1>8. QED
    BY <1>4, <1>7

(* So has the sequence that SetToSeq makes of it.                          *)
LEMMA SetToSeqProperties ==
    ASSUME NEW S, IsFiniteSet(S)
    PROVE  SetToSeq(S) \in Seq(S) /\ Once(SetToSeq(S)) /\ Elements(SetToSeq(S)) = S
<1> DEFINE n == Cardinality(S)
           Order(f) == f \in [1..n -> S] /\ IsInjective(f)
<1>1. PICK f : f \in Bijection(1..n, S)
    BY FS_CardinalityType DEF ExistsBijection
<1>2. Order(f)
    BY <1>1 DEF Bijection, Injection, IsInjective
<1>3. SetToSeq(S) = CHOOSE g \in [1..n -> S] : IsInjective(g)
    BY DEF SetToSeq
<1>4. Order(SetToSeq(S))
    BY <1>2, <1>3
<1>5. n \in Nat
    BY FS_CardinalityType
<1> HIDE DEF n
<1>6. SetToSeq(S) \in SetToSeqs(S)
    BY <1>4, <1>5 DEF SetToSeqs, IsInjective, n
<1>7. QED
    BY <1>6, SetToSeqsProperties
=============================================================================
