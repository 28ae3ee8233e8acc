--------------------------- MODULE SequenceLemmas ---------------------------
(***************************************************************************)
(* Lists of things to do: what SetToSeq, Head, Tail, Append and \o do to    *)
(* the members of a sequence, for the proofs about the components that     *)
(* work such lists off; and the least and the greatest of a set of         *)
(* numbers.                                                                *)
(***************************************************************************)
EXTENDS Integers, Sequences, FiniteSets, SequencesExt, FiniteSetTheorems,
        WellFoundedInduction, TLAPS

\* A sequence in which nothing occurs twice.
Distinct(s) == \A i, j \in DOMAIN s : s[i] = s[j] => i = j

\* SetToSeq lists a finite set, each of its members once.
LEMMA SetToSeqLists ==
    ASSUME NEW S, IsFiniteSet(S)
    PROVE  /\ SetToSeq(S) \in Seq(S)
           /\ ToSet(SetToSeq(S)) = S
           /\ Distinct(SetToSeq(S))
<1> DEFINE n == Cardinality(S)
<1>1. n \in Nat /\ ExistsBijection(1 .. n, S)
  BY FS_CountingElements, FS_CardinalityType, FS_NatBijection
<1>2. PICK f \in [1 .. n -> S] : IsInjective(f)
  BY <1>1 DEF ExistsBijection, Bijection, Injection
<1> DEFINE s == SetToSeq(S)
<1>3. s \in [1 .. n -> S] /\ IsInjective(s)
  BY <1>2 DEF SetToSeq
<1> HIDE DEF s
<1>4. s \in Seq(S) /\ DOMAIN s = 1 .. n
  BY <1>1, <1>3
<1>5. Distinct(s)
  BY <1>3 DEF Distinct, IsInjective
<1>6. ToSet(s) = S
  <2>1. ToSet(s) \in SUBSET S
    BY <1>3 DEF ToSet
  <2>2. s \in Bijection(1 .. n, ToSet(s))
    BY <1>3, <1>4 DEF ToSet, Bijection, Injection, Surjection, IsInjective
  <2>3. IsFiniteSet(1 .. n) /\ Cardinality(1 .. n) = n
    BY <1>1, FS_Interval
  <2> HIDE DEF n
  <2>4. Cardinality(ToSet(s)) = n
    BY <2>2, <2>3, FS_Bijection DEF ExistsBijection
  <2> USE DEF n
  <2> QED BY <2>1, <2>4, FS_Subset
<1> QED BY <1>4, <1>5, <1>6 DEF s

\* The head of a list and what remains.
LEMMA HeadAndTail ==
    ASSUME NEW S, NEW s \in Seq(S), s # <<>>
    PROVE  /\ Head(s) \in S /\ Tail(s) \in Seq(S)
           /\ Head(s) \in ToSet(s)
           /\ ToSet(s) = {Head(s)} \union ToSet(Tail(s))
           /\ Distinct(s) => Distinct(Tail(s)) /\ Head(s) \notin ToSet(Tail(s))
<1>1. /\ Head(s) = s[1] /\ Tail(s) \in Seq(S) /\ Len(s) \in Nat \ {0}
      /\ DOMAIN s = 1 .. Len(s)
      /\ DOMAIN Tail(s) = 1 .. Len(s) - 1
      /\ \A i \in 1 .. Len(s) - 1 : Tail(s)[i] = s[i + 1]
  OBVIOUS
<1>2. Head(s) \in S /\ Head(s) \in ToSet(s)
  BY <1>1 DEF ToSet
<1>3. ToSet(s) = {Head(s)} \union ToSet(Tail(s))
  <2>1. ASSUME NEW x \in ToSet(s)
        PROVE  x \in {Head(s)} \union ToSet(Tail(s))
    <3>1. PICK i \in 1 .. Len(s) : x = s[i]
      BY <1>1, <2>1 DEF ToSet
    <3>2. CASE i = 1
      BY <1>1, <3>1, <3>2
    <3>3. CASE i # 1
      <4>1. i - 1 \in 1 .. Len(s) - 1 /\ Tail(s)[i - 1] = x
        BY <1>1, <3>1, <3>3
      <4> QED BY <1>1, <4>1 DEF ToSet
    <3> QED BY <3>2, <3>3
  <2>2. ASSUME NEW x \in ToSet(Tail(s))
        PROVE  x \in ToSet(s)
    <3>1. PICK i \in 1 .. Len(s) - 1 : x = s[i + 1]
      BY <1>1, <2>2 DEF ToSet
    <3>2. i + 1 \in DOMAIN s
      BY <1>1
    <3> QED BY <3>1, <3>2 DEF ToSet
  <2> QED BY <1>2, <2>1, <2>2
<1>4. ASSUME Distinct(s)
      PROVE  Distinct(Tail(s)) /\ Head(s) \notin ToSet(Tail(s))
  <2>1. \A i \in 1 .. Len(s) - 1 : i + 1 \in DOMAIN s /\ i + 1 # 1 /\ 1 \in DOMAIN s
    BY <1>1
  <2>2. \A i \in 1 .. Len(s) - 1 : Tail(s)[i] # s[1]
    BY <1>1, <1>4, <2>1 DEF Distinct
  <2>3. Distinct(Tail(s))
    <3> SUFFICES ASSUME NEW i \in 1 .. Len(s) - 1, NEW j \in 1 .. Len(s) - 1,
                        Tail(s)[i] = Tail(s)[j]
                 PROVE  i = j
      BY <1>1 DEF Distinct
    <3>1. i + 1 = j + 1
      BY <1>1, <1>4, <2>1 DEF Distinct
    <3> QED BY <3>1
  <2> QED BY <1>1, <2>2, <2>3 DEF ToSet
<1> QED BY <1>1, <1>2, <1>3, <1>4

\* A list that something is added to.
LEMMA ToSetAppend ==
    ASSUME NEW S, NEW s \in Seq(S), NEW e \in S
    PROVE  /\ Append(s, e) \in Seq(S) /\ Append(s, e) # <<>>
           /\ ToSet(Append(s, e)) = ToSet(s) \union {e}
           /\ s # <<>> => Head(Append(s, e)) = Head(s)
           /\ s = <<>> => Head(Append(s, e)) = e
<1>1. /\ Append(s, e) \in Seq(S) /\ Len(s) \in Nat
      /\ DOMAIN s = 1 .. Len(s) /\ DOMAIN Append(s, e) = 1 .. Len(s) + 1
      /\ Append(s, e)[Len(s) + 1] = e
      /\ \A i \in 1 .. Len(s) : Append(s, e)[i] = s[i]
      /\ Append(s, e) # <<>>
  OBVIOUS
<1>2. ToSet(Append(s, e)) = ToSet(s) \union {e}
  <2>1. 1 .. Len(s) + 1 = (1 .. Len(s)) \union {Len(s) + 1}
    BY <1>1
  <2> QED BY <1>1, <2>1 DEF ToSet
<1> QED BY <1>1, <1>2

\* Lists without and with one member.
LEMMA ToSetShort ==
    /\ ToSet(<<>>) = {}
    /\ \A e : ToSet(<<e>>) = {e} /\ Head(<<e>>) = e /\ <<e>> # <<>>
<1>1. DOMAIN <<>> = {} /\ \A e : DOMAIN <<e>> = {1} /\ <<e>>[1] = e
  OBVIOUS
<1> QED BY <1>1 DEF ToSet

\* The members of a list over a set.
LEMMA ToSetType ==
    ASSUME NEW S, NEW s \in Seq(S)
    PROVE  ToSet(s) \subseteq S
<1>1. DOMAIN s = 1 .. Len(s) /\ \A i \in 1 .. Len(s) : s[i] \in S
  OBVIOUS
<1> QED BY <1>1 DEF ToSet

\* Two lists, one after the other.
LEMMA ToSetConcat ==
    ASSUME NEW S, NEW s \in Seq(S), NEW t \in Seq(S)
    PROVE  s \o t \in Seq(S) /\ ToSet(s \o t) = ToSet(s) \union ToSet(t)
<1>1. /\ s \o t \in Seq(S) /\ Len(s) \in Nat /\ Len(t) \in Nat
      /\ DOMAIN s = 1 .. Len(s) /\ DOMAIN t = 1 .. Len(t) /\ DOMAIN (s \o t) = 1 .. Len(s) + Len(t)
      /\ \A n \in 1 .. Len(s) + Len(t) : (s \o t)[n] = IF n <= Len(s) THEN s[n] ELSE t[n - Len(s)]
  OBVIOUS
<1>2. ASSUME NEW x \in ToSet(s \o t)
      PROVE  x \in ToSet(s) \union ToSet(t)
  <2>1. PICK n \in 1 .. Len(s) + Len(t) : x = (s \o t)[n]
    BY <1>1, <1>2 DEF ToSet
  <2>2. CASE n <= Len(s)
    BY <1>1, <2>1, <2>2 DEF ToSet
  <2>3. CASE n > Len(s)
    <3>1. n - Len(s) \in 1 .. Len(t) /\ x = t[n - Len(s)]
      BY <1>1, <2>1, <2>3
    <3> QED BY <1>1, <3>1 DEF ToSet
  <2> QED BY <1>1, <2>1, <2>2, <2>3
<1>3. ASSUME NEW x \in ToSet(s)
      PROVE  x \in ToSet(s \o t)
  <2>1. PICK n \in 1 .. Len(s) : x = s[n]
    BY <1>1, <1>3 DEF ToSet
  <2>2. n \in 1 .. Len(s) + Len(t) /\ (s \o t)[n] = x
    BY <1>1, <2>1
  <2> QED BY <1>1, <2>2 DEF ToSet
<1>4. ASSUME NEW x \in ToSet(t)
      PROVE  x \in ToSet(s \o t)
  <2>1. PICK n \in 1 .. Len(t) : x = t[n]
    BY <1>1, <1>4 DEF ToSet
  <2>2. Len(s) + n \in 1 .. Len(s) + Len(t) /\ (s \o t)[Len(s) + n] = x
    BY <1>1, <2>1
  <2> QED BY <1>1, <2>2 DEF ToSet
<1> QED BY <1>1, <1>2, <1>3, <1>4

\* A set of numbers has a least one.
LEMMA LeastNumber ==
    ASSUME NEW R \in SUBSET Nat, R # {}
    PROVE  \E r \in R : \A q \in R : r <= q
<1> DEFINE less == {p \in Nat \X Nat : p[1] < p[2]}
<1>1. IsWellFoundedOn(less, Nat)
  <2>1. OpToRel(<, Nat) = less
    BY DEF OpToRel
  <2> QED BY <2>1, NatLessThanWellFounded
<1>2. PICK r \in R : \A q \in R : <<q, r>> \notin less
  <2> HIDE DEF less
  <2> QED BY <1>1, WFMin
<1>3. \A q \in R : r \in Nat /\ q \in Nat /\ (<<q, r>> \in less <=> q < r)
  OBVIOUS
<1>4. \A q \in R : r \in Nat /\ q \in Nat /\ ~(q < r)
  BY <1>2, <1>3
<1> QED BY <1>4

\* And a greatest one, if it is bounded.
LEMMA GreatestNumber ==
    ASSUME NEW R \in SUBSET Nat, R # {}, NEW n \in Nat, \A r \in R : r <= n
    PROVE  \E r \in R : \A q \in R : q <= r
<1> DEFINE D == {n - r : r \in R}
<1>1. D \in SUBSET Nat /\ D # {}
  <2>1. \A r \in R : n - r \in Nat
    OBVIOUS
  <2>2. PICK r \in R : TRUE
    OBVIOUS
  <2>3. n - r \in D
    BY <2>2
  <2> QED BY <2>1, <2>3
<1>2. PICK d \in D : \A e \in D : d <= e
  <2> HIDE DEF D
  <2> QED BY <1>1, LeastNumber
<1>3. PICK r \in R : d = n - r
  OBVIOUS
<1>4. ASSUME NEW q \in R
      PROVE  q <= r
  <2>1. n - q \in D /\ n - r <= n - q
    BY <1>2, <1>3
  <2>2. n \in Nat /\ q \in Nat /\ r \in Nat
    OBVIOUS
  <2> HIDE DEF D
  <2> QED BY <2>1, <2>2
<1> QED BY <1>4

\* A list without repetitions is as long as the set of its members.
LEMMA DistinctCounts ==
    ASSUME NEW S, NEW s \in Seq(S), Distinct(s)
    PROVE  Cardinality(ToSet(s)) = Len(s) /\ IsFiniteSet(ToSet(s)) /\ ToSet(s) \subseteq S
<1> DEFINE n == Len(s)
           f == [i \in 1 .. n |-> s[i]]
<1>1. n \in Nat /\ DOMAIN s = 1 .. n
  OBVIOUS
<1>2. \A i, j \in 1 .. n : s[i] = s[j] => i = j
  BY <1>1 DEF Distinct
<1>3. ToSet(s) = {s[i] : i \in 1 .. n}
  BY <1>1 DEF ToSet
<1>4. f \in Bijection(1 .. n, ToSet(s))
  BY <1>2, <1>3 DEF Bijection, Injection, Surjection, IsInjective
<1>5. ExistsBijection(1 .. n, ToSet(s))
  BY <1>4 DEF ExistsBijection
<1>6. IsFiniteSet(ToSet(s)) /\ Cardinality(ToSet(s)) = n
  <2>1. IsFiniteSet(1 .. n) /\ Cardinality(1 .. n) = n
    BY <1>1, FS_Interval
  <2>2. IsFiniteSet(ToSet(s))
    BY <1>1, <1>5, FS_NatBijection
  <2> QED BY <1>1, <1>5, <2>2, FS_CountingElements
<1> QED BY <1>6, ToSetType

\* A list without repetitions that something new is added to.
LEMMA DistinctAppend ==
    ASSUME NEW S, NEW s \in Seq(S), Distinct(s), NEW e \in S, e \notin ToSet(s)
    PROVE  Distinct(Append(s, e))
<1>1. /\ DOMAIN s = 1 .. Len(s) /\ DOMAIN Append(s, e) = 1 .. Len(s) + 1 /\ Len(s) \in Nat
      /\ Append(s, e)[Len(s) + 1] = e /\ \A i \in 1 .. Len(s) : Append(s, e)[i] = s[i]
  OBVIOUS
<1>2. \A i \in 1 .. Len(s) : Append(s, e)[i] # e
  BY <1>1 DEF ToSet
<1>3. \A i \in DOMAIN Append(s, e) : i \in 1 .. Len(s) \/ i = Len(s) + 1
  BY <1>1
<1> QED BY <1>1, <1>2, <1>3 DEF Distinct

\* RemoveAt leaves the other places in order.
LEMMA RemovedAt ==
    ASSUME NEW S, NEW s \in Seq(S), NEW i \in DOMAIN s
    PROVE  /\ RemoveAt(s, i) \in Seq(S) /\ DOMAIN RemoveAt(s, i) = 1 .. Len(s) - 1
           /\ \A k \in 1 .. Len(s) - 1 : RemoveAt(s, i)[k] = IF k < i THEN s[k] ELSE s[k + 1]
<1> DEFINE a == SubSeq(s, 1, i - 1)
           b == SubSeq(s, i + 1, Len(s))
<1>1. Len(s) \in Nat /\ i \in 1 .. Len(s)
  OBVIOUS
<1>2. a \in Seq(S) /\ Len(a) = i - 1 /\ \A k \in 1 .. i - 1 : a[k] = s[k]
  BY <1>1
<1>3. b \in Seq(S) /\ Len(b) = Len(s) - i /\ \A k \in 1 .. Len(s) - i : b[k] = s[k + i]
  BY <1>1
<1> HIDE DEF a, b
<1>4. /\ a \o b \in Seq(S) /\ DOMAIN (a \o b) = 1 .. Len(a) + Len(b)
      /\ \A k \in 1 .. Len(a) + Len(b) : (a \o b)[k] = IF k <= Len(a) THEN a[k] ELSE b[k - Len(a)]
  BY <1>2, <1>3
<1>5. Len(a) + Len(b) = Len(s) - 1
  BY <1>1, <1>2, <1>3
<1>6. ASSUME NEW k \in 1 .. Len(s) - 1
      PROVE  (a \o b)[k] = IF k < i THEN s[k] ELSE s[k + 1]
  <2>1. CASE k < i
    BY <1>1, <1>2, <1>4, <1>5, <2>1
  <2>2. CASE ~(k < i)
    <3>1. k - (i - 1) \in 1 .. Len(s) - i /\ (k - (i - 1)) + i = k + 1 /\ ~(k <= i - 1)
      BY <1>1, <2>2
    <3> QED BY <1>2, <1>3, <1>4, <1>5, <2>2, <3>1
  <2> QED BY <2>1, <2>2
<1> QED BY <1>4, <1>5, <1>6 DEF RemoveAt, a, b

\* RemoveFirst takes a member out of a list without repetitions.
LEMMA RemovedOnce ==
    ASSUME NEW S, NEW s \in Seq(S), Distinct(s), NEW e
    PROVE  /\ RemoveFirst(s, e) \in Seq(S) /\ Distinct(RemoveFirst(s, e))
           /\ ToSet(RemoveFirst(s, e)) = ToSet(s) \ {e}
<1>1. DOMAIN s = 1 .. Len(s) /\ Len(s) \in Nat
  OBVIOUS
<1>2. CASE e \notin ToSet(s)
  <2>1. RemoveFirst(s, e) = s
    BY <1>1, <1>2 DEF RemoveFirst, ToSet
  <2> QED BY <1>2, <2>1
<1>3. CASE e \in ToSet(s)
  <2> DEFINE I == {i \in 1 .. Len(s) : s[i] = e}
             first == Min(I)
  <2>1. I \in SUBSET Nat /\ I # {}
    BY <1>1, <1>3 DEF ToSet
  <2>2. \E i \in I : \A j \in I : i <= j
    <3> HIDE DEF I
    <3> QED BY <2>1, LeastNumber
  <2>3. first \in I
    <3> HIDE DEF I
    <3> QED BY <2>2 DEF Min
  <2>4. RemoveFirst(s, e) = RemoveAt(s, first)
    BY <1>1, <1>3, <2>1 DEF RemoveFirst, SelectInSeq, ToSet
  <2> HIDE DEF first
  <2>5. PICK i, u : i = first /\ u = RemoveAt(s, i)
    OBVIOUS
  <2>6. i \in 1 .. Len(s) /\ s[i] = e
    BY <2>3, <2>5
  <2>7. /\ u \in Seq(S) /\ DOMAIN u = 1 .. Len(s) - 1
        /\ \A k \in 1 .. Len(s) - 1 : u[k] = IF k < i THEN s[k] ELSE s[k + 1]
    BY <1>1, <2>5, <2>6, RemovedAt
  <2>8. \A k \in 1 .. Len(s) - 1 : (k < i /\ k \in 1 .. Len(s) /\ u[k] = s[k])
                                     \/ (k >= i /\ k + 1 \in 1 .. Len(s) /\ u[k] = s[k + 1])
    BY <1>1, <2>6, <2>7
  <2>9. Distinct(u)
    <3> SUFFICES ASSUME NEW k \in 1 .. Len(s) - 1, NEW l \in 1 .. Len(s) - 1, u[k] = u[l]
                 PROVE  k = l
      BY <2>7 DEF Distinct
    <3>1. \A p, q \in 1 .. Len(s) : s[p] = s[q] => p = q
      BY <1>1 DEF Distinct
    <3>2. k \in Int /\ l \in Int /\ i \in Int
      BY <1>1, <2>6
    <3> QED BY <2>8, <3>1, <3>2
  <2>10. ToSet(u) \subseteq ToSet(s) \ {e}
    <3> SUFFICES ASSUME NEW k \in 1 .. Len(s) - 1
                 PROVE  u[k] \in ToSet(s) /\ u[k] # e
      BY <2>7 DEF ToSet
    <3>1. \A p \in 1 .. Len(s) : s[p] = e => p = i
      BY <1>1, <2>6 DEF Distinct
    <3>2. k \in Int /\ i \in Int
      BY <1>1, <2>6
    <3> QED BY <1>1, <2>8, <3>1, <3>2 DEF ToSet
  <2>11. ToSet(s) \ {e} \subseteq ToSet(u)
    <3> SUFFICES ASSUME NEW p \in 1 .. Len(s), s[p] # e
                 PROVE  s[p] \in ToSet(u)
      BY <1>1 DEF ToSet
    <3>1. CASE p < i
      <4>1. p \in 1 .. Len(s) - 1 /\ u[p] = s[p]
        BY <1>1, <2>6, <2>7, <3>1
      <4> QED BY <2>7, <4>1 DEF ToSet
    <3>2. CASE p > i
      <4>1. p - 1 \in 1 .. Len(s) - 1 /\ ~(p - 1 < i) /\ (p - 1) + 1 = p
        BY <1>1, <2>6, <3>2
      <4>2. u[p - 1] = s[p]
        BY <2>7, <4>1
      <4> QED BY <2>7, <4>1, <4>2 DEF ToSet
    <3>3. p # i
      BY <2>6
    <3> QED BY <1>1, <2>6, <3>1, <3>2, <3>3
  <2> QED BY <2>4, <2>5, <2>7, <2>9, <2>10, <2>11
<1> QED BY <1>2, <1>3
=============================================================================
