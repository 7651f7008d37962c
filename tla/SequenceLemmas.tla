--------------------------- MODULE SequenceLemmas ---------------------------
(***************************************************************************)
(* Facts about sequences that the library does not state and that the      *)
(* proofs about the queues of this system need.                            *)
(***************************************************************************)
EXTENDS Integers, SequencesExt, SequenceTheorems, WellFoundedInduction, TLAPS

\* No element comes twice.
Distinct(q) == \A i, j \in DOMAIN q : q[i] = q[j] => i = j

Members(q) == {q[i] : i \in DOMAIN q}

\* A set of naturals that is not empty has a least element: the loops that keep the
\* first match of a scan find one, and proofs by induction on a natural number take
\* the least counterexample.
LEMMA LeastElement ==
  ASSUME NEW T \in SUBSET Nat, T # {}
  PROVE  \E x \in T : \A y \in T : x <= y
<1> DEFINE R == {ss \in Nat \X Nat : ss[1] < ss[2]}
<1>1. IsWellFoundedOn(R, Nat)
  BY NatLessThanWellFounded DEF OpToRel
<1>2. PICK x \in T : \A y \in T : ~(<<y, x>> \in R)
  <2> HIDE DEF R
  <2> QED BY <1>1, WFMin
<1>3. ASSUME NEW y \in T, y < x PROVE FALSE
  <2>1. <<y, x>> \in R
    BY <1>3
  <2>2. QED BY <1>2, <2>1
<1>4. QED BY <1>3

\* What is left of a queue when the element at i has been erased.
LEMMA RemoveAtShape ==
  ASSUME NEW S, NEW q \in Seq(S), NEW i \in DOMAIN q
  PROVE  /\ RemoveAt(q, i) \in Seq(S)
         /\ Len(RemoveAt(q, i)) = Len(q) - 1
         /\ \A j \in 1 .. Len(q) - 1 : RemoveAt(q, i)[j] = IF j < i THEN q[j] ELSE q[j + 1]
<1> DEFINE l == SubSeq(q, 1, i - 1)
           r == SubSeq(q, i + 1, Len(q))
<1>1. i \in 1 .. Len(q) /\ Len(q) \in Nat
  BY LenProperties
<1>2. /\ l \in Seq(S) /\ Len(l) = i - 1 /\ \A j \in 1 .. Len(l) : l[j] = q[j]
      /\ r \in Seq(S) /\ Len(r) = Len(q) - i /\ \A j \in 1 .. Len(r) : r[j] = q[j + i]
  BY <1>1, SMTT(20)
<1>3. RemoveAt(q, i) = l \o r
  BY DEF RemoveAt
<1> HIDE DEF l, r
<1>4. QED BY <1>1, <1>2, <1>3, ConcatProperties

\* Erasing an element of a queue that has none twice takes away that element alone.
LEMMA RemoveAtMembers ==
  ASSUME NEW S, NEW q \in Seq(S), Distinct(q), NEW i \in DOMAIN q
  PROVE  /\ RemoveAt(q, i) \in Seq(S) /\ Distinct(RemoveAt(q, i))
         /\ Members(RemoveAt(q, i)) = Members(q) \ {q[i]}
<1> DEFINE r == RemoveAt(q, i)
<1>1. /\ r \in Seq(S) /\ DOMAIN r = 1 .. Len(q) - 1 /\ DOMAIN q = 1 .. Len(q)
      /\ \A j \in DOMAIN r : r[j] = IF j < i THEN q[j] ELSE q[j + 1]
      /\ Len(q) \in Nat
  BY RemoveAtShape, LenProperties
<1> HIDE DEF r
<1>2. Distinct(r)
  BY <1>1 DEF Distinct
<1>3. ASSUME NEW x \in Members(r) PROVE x \in Members(q) \ {q[i]}
  <2>1. PICK j \in DOMAIN r : x = r[j]
    BY <1>3 DEF Members
  <2>2. CASE j < i
    BY <1>1, <2>1, <2>2 DEF Members, Distinct
  <2>3. CASE ~(j < i)
    <3>1. j + 1 \in DOMAIN q /\ j + 1 # i /\ x = q[j + 1]
      BY <1>1, <2>1, <2>3
    <3>2. QED BY <3>1 DEF Members, Distinct
  <2>4. QED BY <2>2, <2>3
<1>4. ASSUME NEW x \in Members(q) \ {q[i]} PROVE x \in Members(r)
  <2>1. PICK j \in DOMAIN q : x = q[j] /\ j # i
    BY <1>4 DEF Members
  <2>2. CASE j < i
    <3>1. j \in DOMAIN r /\ x = r[j]
      BY <1>1, <2>1, <2>2
    <3>2. QED BY <3>1 DEF Members
  <2>3. CASE ~(j < i)
    <3>1. j - 1 \in DOMAIN r /\ x = r[j - 1]
      BY <1>1, <2>1, <2>3
    <3>2. QED BY <3>1 DEF Members
  <2>4. QED BY <2>2, <2>3
<1>5. QED BY <1>1, <1>2, <1>3, <1>4 DEF r

\* A new element at the end adds itself alone.
LEMMA AppendMembers ==
  ASSUME NEW S, NEW q \in Seq(S), Distinct(q), NEW x \in S, x \notin Members(q)
  PROVE  /\ Append(q, x) \in Seq(S) /\ Distinct(Append(q, x))
         /\ Members(Append(q, x)) = Members(q) \cup {x}
<1> DEFINE r == Append(q, x)
<1>1. /\ r \in Seq(S) /\ DOMAIN r = 1 .. Len(q) + 1 /\ DOMAIN q = 1 .. Len(q)
      /\ \A j \in DOMAIN q : r[j] = q[j]
      /\ r[Len(q) + 1] = x /\ Len(q) \in Nat
  BY AppendProperties, LenProperties
<1> HIDE DEF r
<1>2. \A j \in DOMAIN q : q[j] # x
  BY DEF Members
<1>3. Distinct(r)
  BY <1>1, <1>2 DEF Distinct
<1>4. \A j \in DOMAIN r : j \in DOMAIN q \/ j = Len(q) + 1
  BY <1>1
<1>5. Len(q) + 1 \in DOMAIN r /\ DOMAIN q \subseteq DOMAIN r
  BY <1>1
<1>6. Members(r) = Members(q) \cup {x}
  BY <1>1, <1>4, <1>5, Zenon DEF Members
<1>7. QED BY <1>1, <1>3, <1>6 DEF r

\* A new element at the end of the second of two queues in a row.
LEMMA ConcatAppend ==
  ASSUME NEW S, NEW s \in Seq(S), NEW t \in Seq(S), NEW x \in S
  PROVE  s \o Append(t, x) = Append(s \o t, x)
<1>1. <<x>> \in Seq(S) /\ s \o t \in Seq(S)
  BY ConcatProperties
<1>2. Append(t, x) = t \o <<x>> /\ Append(s \o t, x) = (s \o t) \o <<x>>
  BY <1>1, AppendIsConcat
<1>3. QED BY <1>1, <1>2, ConcatAssociative
=============================================================================
