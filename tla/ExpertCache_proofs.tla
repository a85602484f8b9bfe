------------------------- MODULE ExpertCache_proofs -------------------------
(***************************************************************************)
(* What the methods of CacheManager do to a well-formed cache, for every   *)
(* policy, every set of experts and every number of slots.                 *)
(***************************************************************************)
EXTENDS ExpertCache, SequenceTheorems, WellFoundedInduction, FiniteSetTheorems,
        FunctionTheorems, TLAPS

-----------------------------------------------------------------------------
(***************************************************************************)
(* The list operations: what Append, RemoveFirst (list.remove), Head and   *)
(* Tail (pop(0)) do to the length, the elements and the freedom from       *)
(* repetition of a list.                                                   *)
(***************************************************************************)

\* A non-empty set of naturals has a least element, which Min denotes.
LEMMA MinIsLeast ==
    ASSUME NEW I \in SUBSET Nat, I # {}
    PROVE  /\ Min(I) \in I
           /\ \A i \in I : Min(I) <= i
<1>1. \E m \in I : \A i \in I : ~ (<<i, m>> \in OpToRel(<, Nat))
  BY NatLessThanWellFounded, WFMin
<1>2. PICK m \in I : \A i \in I : ~ (i < m)
  BY <1>1 DEF OpToRel
<1>3. m \in I /\ \A i \in I : m <= i
  BY <1>2
<1>. QED  BY <1>3 DEF Min

\* list.remove: the list loses one occurrence of an element it contains and
\* is unchanged otherwise.
LEMMA RemoveAtFacts ==
    ASSUME NEW S, NEW s \in Seq(S), NEW j \in 1 .. Len(s)
    PROVE  /\ RemoveAt(s, j) \in Seq(S)
           /\ Len(RemoveAt(s, j)) = Len(s) - 1
           /\ \A i \in 1 .. Len(s) - 1 :
                 RemoveAt(s, j)[i] = IF i < j THEN s[i] ELSE s[i + 1]
<1>. DEFINE front == SubSeq(s, 1, j - 1)
            rear  == SubSeq(s, j + 1, Len(s))
<1>0. Len(s) \in Nat /\ j \in 1 .. Len(s) /\ \A i \in 1 .. Len(s) : s[i] \in S
  OBVIOUS
<1>1. /\ front \in Seq(S)
      /\ Len(front) = j - 1
      /\ \A i \in 1 .. j - 1 : front[i] = s[i]
  BY <1>0, SubSeqProperties
<1>2. /\ rear \in Seq(S)
      /\ Len(rear) = Len(s) - j
      /\ \A i \in 1 .. Len(s) - j : rear[i] = s[j + i]
  BY <1>0, SubSeqProperties
<1>3. RemoveAt(s, j) = front \o rear
  BY DEF RemoveAt
<1>. HIDE DEF front, rear
<1>4. /\ front \o rear \in Seq(S)
      /\ Len(front \o rear) = Len(front) + Len(rear)
      /\ \A i \in 1 .. Len(front) + Len(rear) :
            (front \o rear)[i] =
                IF i <= Len(front) THEN front[i] ELSE rear[i - Len(front)]
  BY <1>1, <1>2, ConcatProperties
<1>5. Len(front) + Len(rear) = Len(s) - 1
  BY <1>0, <1>1, <1>2
<1>6. ASSUME NEW i \in 1 .. Len(s) - 1
      PROVE  (front \o rear)[i] = IF i < j THEN s[i] ELSE s[i + 1]
  <2>1. CASE i < j
    BY <2>1, <1>0, <1>1, <1>4, <1>5
  <2>2. CASE ~ (i < j)
    <3>1. (front \o rear)[i] = rear[i - (j - 1)]
      BY <2>2, <1>0, <1>1, <1>4, <1>5
    <3>2. i - (j - 1) \in 1 .. Len(s) - j /\ j + (i - (j - 1)) = i + 1
      BY <2>2, <1>0
    <3>3. rear[i - (j - 1)] = s[j + (i - (j - 1))]
      BY <3>2, <1>2
    <3>. QED  BY <2>2, <3>1, <3>2, <3>3
  <2>. QED  BY <2>1, <2>2
<1>. QED  BY <1>3, <1>4, <1>5, <1>6

\* The same for the element: RemoveFirst takes out the least index at which
\* the element occurs.
LEMMA RemoveFirstIndex ==
    ASSUME NEW S, NEW s \in Seq(S), NEW e, Contains(s, e)
    PROVE  \E j \in 1 .. Len(s) : s[j] = e /\ RemoveFirst(s, e) = RemoveAt(s, j)
<1>. DEFINE I == {i \in 1 .. Len(s) : s[i] = e}
<1>1. I \in SUBSET Nat /\ I # {}
  BY DEF Contains
<1>2. Min(I) \in I
  BY <1>1, MinIsLeast
<1>3. RemoveFirst(s, e) = RemoveAt(s, Min(I))
  BY <1>1 DEF RemoveFirst, SelectInSeq, Contains
<1>. QED  BY <1>2, <1>3

\* Removing an element that is not in the list leaves the list alone.
LEMMA RemoveFirstAbsent ==
    ASSUME NEW s, NEW e, ~ Contains(s, e)
    PROVE  RemoveFirst(s, e) = s
  BY DEF RemoveFirst, Contains

\* list.remove(e) on a list without repetition removes e and nothing else, and
\* the list stays free of repetition.
LEMMA RemoveFirstFacts ==
    ASSUME NEW S, NEW s \in Seq(S), NEW e
    PROVE  /\ RemoveFirst(s, e) \in Seq(S)
           /\ Contains(s, e) => Len(RemoveFirst(s, e)) = Len(s) - 1
           /\ ~ Contains(s, e) => RemoveFirst(s, e) = s
           /\ IsInjective(s) =>
                /\ IsInjective(RemoveFirst(s, e))
                /\ ToSet(RemoveFirst(s, e)) = ToSet(s) \ {e}
<1>1. CASE ~ Contains(s, e)
  BY <1>1, RemoveFirstAbsent DEF Contains, ToSet
<1>2. CASE Contains(s, e)
  <2>1. PICK j \in 1 .. Len(s) : s[j] = e /\ RemoveFirst(s, e) = RemoveAt(s, j)
    BY <1>2, RemoveFirstIndex
  <2>. DEFINE r == RemoveAt(s, j)
  <2>2. /\ r \in Seq(S)
        /\ Len(r) = Len(s) - 1
        /\ \A i \in 1 .. Len(s) - 1 : r[i] = IF i < j THEN s[i] ELSE s[i + 1]
    BY RemoveAtFacts
  <2>. HIDE DEF r
  <2>3. ASSUME IsInjective(s)
        PROVE  IsInjective(r) /\ ToSet(r) = ToSet(s) \ {e}
    <3>1. DOMAIN r = 1 .. Len(s) - 1 /\ DOMAIN s = 1 .. Len(s) /\ Len(s) \in Nat
      BY <2>2
    <3>2. \A i, k \in 1 .. Len(s) : s[i] = s[k] => i = k
      BY <2>3, <3>1 DEF IsInjective
    <3>3. IsInjective(r)
      BY <3>1, <3>2, <2>2 DEF IsInjective
    <3>4. ToSet(r) \subseteq ToSet(s) \ {e}
      BY <3>1, <3>2, <2>1, <2>2 DEF ToSet
    <3>5. ASSUME NEW k \in 1 .. Len(s), s[k] # e
          PROVE  s[k] \in ToSet(r)
      <4>1. CASE k < j
        <5>1. k \in 1 .. Len(s) - 1 /\ r[k] = s[k]
          BY <4>1, <3>1, <2>2
        <5>. QED  BY <5>1, <3>1 DEF ToSet
      <4>2. CASE k > j
        <5>1. k - 1 \in 1 .. Len(s) - 1 /\ r[k - 1] = s[k]
          BY <4>2, <3>1, <2>2
        <5>. QED  BY <5>1, <3>1 DEF ToSet
      <4>. QED  BY <4>1, <4>2, <3>5, <2>1, <3>1
    <3>. QED  BY <3>1, <3>3, <3>4, <3>5 DEF ToSet
  <2>. QED  BY <1>2, <2>1, <2>2, <2>3 DEF r
<1>. QED  BY <1>1, <1>2

\* list.append of an element the list does not contain keeps it free of
\* repetition.
LEMMA AppendFacts ==
    ASSUME NEW S, NEW s \in Seq(S), NEW e \in S
    PROVE  /\ Append(s, e) \in Seq(S)
           /\ Len(Append(s, e)) = Len(s) + 1
           /\ ToSet(Append(s, e)) = ToSet(s) \cup {e}
           /\ IsInjective(s) /\ e \notin ToSet(s) => IsInjective(Append(s, e))
<1>. DEFINE r == Append(s, e)
<1>1. /\ r \in Seq(S)
      /\ Len(r) = Len(s) + 1
      /\ \A i \in 1 .. Len(s) : r[i] = s[i]
      /\ r[Len(s) + 1] = e
  BY AppendProperties
<1>2. DOMAIN r = 1 .. Len(s) + 1 /\ DOMAIN s = 1 .. Len(s) /\ Len(s) \in Nat
  BY <1>1
<1>. HIDE DEF r
<1>3. ToSet(r) = ToSet(s) \cup {e}
  <2>1. ToSet(r) \subseteq ToSet(s) \cup {e}
    BY <1>1, <1>2 DEF ToSet
  <2>2. \A i \in 1 .. Len(s) : s[i] = r[i] /\ i \in DOMAIN r
    BY <1>1, <1>2
  <2>3. Len(s) + 1 \in DOMAIN r
    BY <1>2
  <2>. QED  BY <2>1, <2>2, <2>3, <1>1, <1>2 DEF ToSet
<1>4. ASSUME IsInjective(s), e \notin ToSet(s)
      PROVE  IsInjective(r)
  <2>1. \A i \in 1 .. Len(s) : s[i] # e
    BY <1>4, <1>2 DEF ToSet
  <2>2. \A i, k \in 1 .. Len(s) : s[i] = s[k] => i = k
    BY <1>4, <1>2 DEF IsInjective
  <2>. QED  BY <2>1, <2>2, <1>1, <1>2 DEF IsInjective
<1>. QED  BY <1>1, <1>3, <1>4 DEF r

\* Being in a list is being in the set of its elements.
LEMMA ContainsIsToSet ==
    ASSUME NEW S, NEW s \in Seq(S), NEW e
    PROVE  Contains(s, e) <=> e \in ToSet(s)
  BY DEF Contains, ToSet

\* Popping the head of a list without repetition takes that key out of it.
LEMMA PopFacts ==
    ASSUME NEW S, NEW s \in Seq(S), s # << >>
    PROVE  /\ Head(s) \in ToSet(s) /\ Head(s) \in S
           /\ Tail(s) \in Seq(S)
           /\ IsInjective(s) =>
                 IsInjective(Tail(s)) /\ ToSet(Tail(s)) = ToSet(s) \ {Head(s)}
<1>1. /\ Len(s) \in Nat /\ Len(s) >= 1 /\ DOMAIN s = 1 .. Len(s)
      /\ Head(s) = s[1] /\ Head(s) \in S
      /\ Tail(s) \in Seq(S) /\ Len(Tail(s)) = Len(s) - 1
      /\ DOMAIN Tail(s) = 1 .. Len(s) - 1
      /\ \A i \in 1 .. Len(s) - 1 : Tail(s)[i] = s[i + 1]
  BY HeadTailProperties, EmptySeq
<1>2. Head(s) \in ToSet(s)
  BY <1>1 DEF ToSet
<1>. DEFINE r == Tail(s)
<1>. HIDE DEF r
<1>3. /\ DOMAIN r = 1 .. Len(s) - 1
      /\ \A i \in 1 .. Len(s) - 1 : r[i] = s[i + 1]
  BY <1>1 DEF r
<1>4. ASSUME IsInjective(s)
      PROVE  IsInjective(r) /\ ToSet(r) = ToSet(s) \ {s[1]}
  <2>1. \A i, j \in 1 .. Len(s) : s[i] = s[j] => i = j
    BY <1>1, <1>4 DEF IsInjective
  <2>2. IsInjective(r)
    BY <1>1, <1>3, <2>1 DEF IsInjective
  <2>3. ToSet(r) \subseteq ToSet(s) \ {s[1]}
    BY <1>1, <1>3, <2>1 DEF ToSet
  <2>4. ASSUME NEW i \in 1 .. Len(s), s[i] # s[1]
        PROVE  s[i] \in ToSet(r)
    <3>1. i - 1 \in 1 .. Len(s) - 1 /\ r[i - 1] = s[i]
      BY <1>1, <1>3, <2>4
    <3>. QED  BY <3>1, <1>3 DEF ToSet
  <2>. QED  BY <1>1, <2>2, <2>3, <2>4 DEF ToSet
<1>. QED  BY <1>1, <1>2, <1>4 DEF r

\* Two lists without repetition and without a common element.
LEMMA ConcatFacts ==
    ASSUME NEW S, NEW s \in Seq(S), NEW r \in Seq(S),
           IsInjective(s), IsInjective(r), ToSet(s) \cap ToSet(r) = {}
    PROVE  /\ s \o r \in Seq(S)
           /\ ToSet(s \o r) = ToSet(s) \cup ToSet(r)
           /\ IsInjective(s \o r)
<1>. DEFINE q == s \o r
<1>1. /\ Len(s) \in Nat /\ Len(r) \in Nat
      /\ DOMAIN s = 1 .. Len(s) /\ DOMAIN r = 1 .. Len(r)
      /\ q \in Seq(S) /\ DOMAIN q = 1 .. Len(s) + Len(r)
      /\ \A i \in 1 .. Len(s) + Len(r) :
            q[i] = IF i <= Len(s) THEN s[i] ELSE r[i - Len(s)]
  BY ConcatProperties
<1>. HIDE DEF q
<1>2. ToSet(q) \subseteq ToSet(s) \cup ToSet(r)
  <2>1. ASSUME NEW i \in DOMAIN q PROVE q[i] \in ToSet(s) \cup ToSet(r)
    <3>1. CASE i <= Len(s)
      BY <1>1, <3>1 DEF ToSet
    <3>2. CASE ~ (i <= Len(s))
      <4>1. i - Len(s) \in DOMAIN r /\ q[i] = r[i - Len(s)]
        BY <1>1, <3>2
      <4>. QED  BY <4>1 DEF ToSet
    <3>. QED  BY <3>1, <3>2
  <2>. QED  BY <2>1 DEF ToSet
<1>3. ASSUME NEW i \in DOMAIN s PROVE s[i] \in ToSet(q)
  <2>1. i \in DOMAIN q /\ q[i] = s[i]
    BY <1>1
  <2>. QED  BY <2>1 DEF ToSet
<1>4. ASSUME NEW i \in DOMAIN r PROVE r[i] \in ToSet(q)
  <2>1. i + Len(s) \in DOMAIN q /\ q[i + Len(s)] = r[i]
    BY <1>1
  <2>. QED  BY <2>1 DEF ToSet
<1>5. ToSet(q) = ToSet(s) \cup ToSet(r)
  BY <1>2, <1>3, <1>4 DEF ToSet
<1>6. ASSUME NEW i \in DOMAIN q, NEW j \in DOMAIN q, q[i] = q[j] PROVE i = j
  <2>1. \A a, b \in DOMAIN s : s[a] = s[b] => a = b
    BY DEF IsInjective
  <2>2. \A a, b \in DOMAIN r : r[a] = r[b] => a = b
    BY DEF IsInjective
  <2>3. \A a \in DOMAIN s, b \in DOMAIN r : s[a] # r[b]
    BY DEF ToSet
  <2>4. CASE i <= Len(s) /\ j <= Len(s)
    BY <1>1, <1>6, <2>1, <2>4
  <2>5. CASE ~ (i <= Len(s)) /\ ~ (j <= Len(s))
    <3>1. i - Len(s) \in DOMAIN r /\ j - Len(s) \in DOMAIN r
          /\ q[i] = r[i - Len(s)] /\ q[j] = r[j - Len(s)]
      BY <1>1, <2>5
    <3>2. i - Len(s) = j - Len(s)
      BY <1>6, <2>2, <3>1
    <3>. QED  BY <1>1, <3>2
  <2>6. CASE i <= Len(s) /\ ~ (j <= Len(s))
    <3>1. i \in DOMAIN s /\ j - Len(s) \in DOMAIN r
          /\ q[i] = s[i] /\ q[j] = r[j - Len(s)]
      BY <1>1, <2>6
    <3>. QED  BY <1>6, <2>3, <3>1
  <2>7. CASE ~ (i <= Len(s)) /\ j <= Len(s)
    <3>1. j \in DOMAIN s /\ i - Len(s) \in DOMAIN r
          /\ q[j] = s[j] /\ q[i] = r[i - Len(s)]
      BY <1>1, <2>7
    <3>. QED  BY <1>6, <2>3, <3>1
  <2>. QED  BY <2>4, <2>5, <2>6, <2>7
<1>7. IsInjective(q)
  BY <1>6 DEF IsInjective
<1>. QED  BY <1>1, <1>5, <1>7 DEF q

-----------------------------------------------------------------------------
(***************************************************************************)
(* The ARC bookkeeping is well typed.                                      *)
(***************************************************************************)

\* Cutting a ghost list back leaves at most n of the same keys, still free of
\* repetition.
LEMMA NewestFacts ==
    ASSUME NEW S, NEW s \in Seq(S), NEW n \in Nat
    PROVE  /\ Newest(s, n) \in Seq(S)
           /\ Len(Newest(s, n)) <= n
           /\ ToSet(Newest(s, n)) \subseteq ToSet(s)
           /\ IsInjective(s) => IsInjective(Newest(s, n))
<1>1. CASE Len(s) > n
  <2>. DEFINE m == Len(s) - n
              r == SubSeq(s, m + 1, Len(s))
  <2>1. /\ Len(s) \in Nat /\ m \in Nat /\ m + n = Len(s)
        /\ DOMAIN s = 1 .. Len(s)
    BY <1>1
  <2>. HIDE DEF m
  <2>2. r \in Seq(S) /\ Len(r) = n /\ \A i \in 1 .. n : r[i] = s[m + i]
    <3>2. \A i \in m + 1 .. Len(s) : s[i] \in S
      BY <2>1
    <3>3. /\ r \in Seq(S)
          /\ Len(r) = IF m + 1 <= Len(s) THEN Len(s) - (m + 1) + 1 ELSE 0
          /\ \A i \in 1 .. Len(s) - (m + 1) + 1 : r[i] = s[m + 1 + i - 1]
      BY <2>1, <3>2, SubSeqProperties
    <3>4. Len(r) = n /\ n = Len(s) - (m + 1) + 1
      BY <2>1, <3>3
    <3>5. \A i \in 1 .. n : m + 1 + i - 1 = m + i
      BY <2>1
    <3>. QED  BY <3>3, <3>4, <3>5
  <2>3. DOMAIN r = 1 .. n
    BY <2>2
  <2>4. Newest(s, n) = r
    BY <1>1 DEF Newest, m
  <2>. HIDE DEF r
  <2>5. ToSet(r) \subseteq ToSet(s)
    BY <2>1, <2>2, <2>3 DEF ToSet
  <2>6. IsInjective(s) => IsInjective(r)
    BY <2>1, <2>2, <2>3 DEF IsInjective
  <2>7. Len(r) <= n
    BY <2>2
  <2>. QED  BY <2>2, <2>4, <2>5, <2>6, <2>7
<1>2. CASE ~ (Len(s) > n)
  <2>1. Len(s) \in Nat /\ Len(s) <= n
    BY <1>2
  <2>. QED  BY <1>2, <2>1 DEF Newest
<1>. QED  BY <1>1, <1>2

\* max(1, n) is positive: on_miss divides by it.
LEMMA AtLeast1Type ==
    ASSUME NEW n \in Nat
    PROVE  AtLeast1(n) \in Nat \ {0}
  BY DEF AtLeast1

\* The fields of an ARC state, and the facts about them the lemmas below use.
LEMMA ArcFields ==
    ASSUME NEW a \in Arc, NEW k \in Expert
    PROVE  /\ a.p \in Nat
           /\ a.t1 \in Seq(Expert) /\ RemoveFirst(a.t1, k) \in Seq(Expert)
           /\ a.t2 \in Seq(Expert) /\ RemoveFirst(a.t2, k) \in Seq(Expert)
           /\ a.b1 \in Seq(Expert) /\ RemoveFirst(a.b1, k) \in Seq(Expert)
           /\ a.b2 \in Seq(Expert) /\ RemoveFirst(a.b2, k) \in Seq(Expert)
<1>1. /\ a.p \in Nat
      /\ a.t1 \in Seq(Expert) /\ a.t2 \in Seq(Expert)
      /\ a.b1 \in Seq(Expert) /\ a.b2 \in Seq(Expert)
  BY DEF Arc
<1>. QED  BY <1>1, RemoveFirstFacts

\* on_hit moves a key between lists of experts.
LEMMA ArcHitType ==
    ASSUME NEW a \in Arc, NEW k \in Expert
    PROVE  ArcHit(a, k) \in Arc
<1>1. /\ Append(a.t2, k) \in Seq(Expert)
      /\ Append(RemoveFirst(a.t2, k), k) \in Seq(Expert)
  BY ArcFields
<1>. QED  BY <1>1, ArcFields DEF ArcHit, Arc

\* remove takes a key out of lists of experts.
LEMMA ArcRemoveType ==
    ASSUME NEW a \in Arc, NEW k \in Expert
    PROVE  ArcRemove(a, k) \in Arc
  BY ArcFields DEF ArcRemove, Arc

\* The target size p of T1 never becomes negative, nor larger than the slots:
\* on_miss clamps it at both ends.
LEMMA ArcTargetType ==
    ASSUME NEW a \in Arc, NEW k \in Expert, NEW max \in Nat
    PROVE  /\ ArcTarget(a, k, max) \in Nat
           /\ a.p <= max => ArcTarget(a, k, max) <= max
<1>. DEFINE grow   == AtLeast1(Len(a.b2) \div AtLeast1(Len(a.b1)))
            shrink == AtLeast1(Len(a.b1) \div AtLeast1(Len(a.b2)))
<1>1. Len(a.b1) \in Nat /\ Len(a.b2) \in Nat
  BY ArcFields, LenProperties
<1>2. /\ AtLeast1(Len(a.b1)) \in Nat \ {0}
      /\ AtLeast1(Len(a.b2)) \in Nat \ {0}
  BY <1>1, AtLeast1Type
<1>3. /\ Len(a.b2) \div AtLeast1(Len(a.b1)) \in Nat
      /\ Len(a.b1) \div AtLeast1(Len(a.b2)) \in Nat
  BY <1>1, <1>2
<1>4. grow \in Nat /\ shrink \in Nat
  BY <1>3, AtLeast1Type
<1>5. ArcTarget(a, k, max) =
         IF Contains(a.b1, k)
         THEN IF a.p + grow > max THEN max ELSE a.p + grow
         ELSE IF Contains(a.b2, k)
         THEN IF a.p > shrink THEN a.p - shrink ELSE 0
         ELSE a.p
  BY DEF ArcTarget
<1>. HIDE DEF grow, shrink
<1>. QED  BY <1>4, <1>5, ArcFields

\* on_miss leaves the four lists lists of experts, for any number of slots.
LEMMA ArcMissType ==
    ASSUME NEW a \in Arc, NEW k \in Expert, NEW max \in Nat
    PROVE  ArcMiss(a, k, max) \in Arc
<1>1. /\ Newest(RemoveFirst(a.b1, k), max) \in Seq(Expert)
      /\ Newest(RemoveFirst(a.b2, k), max) \in Seq(Expert)
      /\ Newest(a.b2, max) \in Seq(Expert)
  BY ArcFields, NewestFacts
<1>2. Newest(IF Contains(a.b1, k) THEN a.b2 ELSE RemoveFirst(a.b2, k), max)
        \in Seq(Expert)
  BY <1>1
<1>3. Append(a.t1, k) \in Seq(Expert)
  BY ArcFields
<1>. QED  BY <1>1, <1>2, <1>3, ArcFields, ArcTargetType DEF ArcMiss, Arc

\* choose_evict takes the head of a live list that is not empty.
LEMMA ArcChosenType ==
    ASSUME NEW a \in Arc, NEW k \in Expert, ~ ArcIsEmpty(a)
    PROVE  ArcChosen(a) \in Arc
<1>1. CASE ArcTakesT1(a)
  <2>1. Head(a.t1) \in Expert /\ Tail(a.t1) \in Seq(Expert)
    BY <1>1, ArcFields, HeadTailProperties DEF ArcTakesT1
  <2>2. Append(a.b1, Head(a.t1)) \in Seq(Expert)
    BY <2>1, ArcFields
  <2>. QED  BY <1>1, <2>1, <2>2, ArcFields DEF ArcChosen, Arc
<1>2. CASE ~ ArcTakesT1(a)
  <2>1. Head(a.t2) \in Expert /\ Tail(a.t2) \in Seq(Expert)
    BY <1>2, ArcFields, HeadTailProperties DEF ArcTakesT1, ArcIsEmpty
  <2>2. Append(a.b2, Head(a.t2)) \in Seq(Expert)
    BY <2>1, ArcFields
  <2>. QED  BY <1>2, <2>1, <2>2, ArcFields DEF ArcChosen, Arc
<1>. QED  BY <1>1, <1>2

-----------------------------------------------------------------------------
(***************************************************************************)
(* What the operations of _ArcState do to four lists that have no key      *)
(* twice.                                                                  *)
(***************************************************************************)

\* The live keys of an ARC state, and its four lists without repetition and
\* without a common key.
Live(a) == ToSet(a.t1) \cup ToSet(a.t2)

Apart(a) ==
    /\ IsInjective(a.t1) /\ IsInjective(a.t2) /\ IsInjective(a.b1) /\ IsInjective(a.b2)
    /\ ToSet(a.t1) \cap ToSet(a.t2) = {}
    /\ ToSet(a.b1) \cap ToSet(a.b2) = {}
    /\ Live(a) \cap (ToSet(a.b1) \cup ToSet(a.b2)) = {}

\* Being apart is what ArcListsDisjoint asks of the lists.
LEMMA ApartIsInjective ==
    ASSUME NEW a \in Arc, Apart(a)
    PROVE  IsInjective(a.t1 \o a.t2 \o a.b1 \o a.b2)
<1>1. /\ a.t1 \in Seq(Expert) /\ a.t2 \in Seq(Expert)
      /\ a.b1 \in Seq(Expert) /\ a.b2 \in Seq(Expert)
  BY DEF Arc
<1>. DEFINE live == a.t1 \o a.t2
<1>2. live \in Seq(Expert) /\ ToSet(live) = Live(a) /\ IsInjective(live)
  BY <1>1, ConcatFacts DEF Apart, Live
<1>. HIDE DEF live
<1>. DEFINE three == live \o a.b1
<1>3. /\ three \in Seq(Expert) /\ IsInjective(three)
      /\ ToSet(three) = Live(a) \cup ToSet(a.b1)
  <2>1. ToSet(live) \cap ToSet(a.b1) = {}
    BY <1>2 DEF Apart
  <2>. QED  BY <1>1, <1>2, <2>1, ConcatFacts DEF Apart
<1>. HIDE DEF three
<1>4. IsInjective(three \o a.b2)
  <2>1. ToSet(three) \cap ToSet(a.b2) = {}
    BY <1>3 DEF Apart
  <2>. QED  BY <1>1, <1>3, <2>1, ConcatFacts DEF Apart
<1>. QED  BY <1>4 DEF three, live

\* on_hit keeps the lists apart and the same keys live.
LEMMA ApartHit ==
    ASSUME NEW a \in Arc, Apart(a), NEW k \in Expert
    PROVE  /\ Apart(ArcHit(a, k))
           /\ Live(ArcHit(a, k)) = Live(a)
           /\ ArcHit(a, k).p = a.p
<1>1. /\ a.t1 \in Seq(Expert) /\ a.t2 \in Seq(Expert)
      /\ a.b1 \in Seq(Expert) /\ a.b2 \in Seq(Expert)
  BY DEF Arc
<1>2. /\ RemoveFirst(a.t1, k) \in Seq(Expert) /\ IsInjective(RemoveFirst(a.t1, k))
      /\ ToSet(RemoveFirst(a.t1, k)) = ToSet(a.t1) \ {k}
      /\ RemoveFirst(a.t2, k) \in Seq(Expert) /\ IsInjective(RemoveFirst(a.t2, k))
      /\ ToSet(RemoveFirst(a.t2, k)) = ToSet(a.t2) \ {k}
  BY <1>1, RemoveFirstFacts DEF Apart
<1>3. Contains(a.t1, k) <=> k \in ToSet(a.t1)
  BY <1>1, ContainsIsToSet
<1>4. Contains(a.t2, k) <=> k \in ToSet(a.t2)
  BY <1>1, ContainsIsToSet
<1>5. CASE k \in ToSet(a.t1)
  <2>. DEFINE s == Append(a.t2, k)
              d == ArcHit(a, k)
  <2>1. ToSet(s) = ToSet(a.t2) \cup {k} /\ IsInjective(s)
    BY <1>1, <1>5, AppendFacts DEF Apart
  <2>2. /\ d.p = a.p /\ d.t1 = RemoveFirst(a.t1, k) /\ d.t2 = s
        /\ d.b1 = a.b1 /\ d.b2 = a.b2
    BY <1>3, <1>5 DEF ArcHit
  <2>. HIDE DEF s, d
  <2>. QED  BY <1>2, <1>5, <2>1, <2>2 DEF Apart, Live, d
<1>6. CASE k \notin ToSet(a.t1) /\ k \in ToSet(a.t2)
  <2>. DEFINE r == RemoveFirst(a.t2, k)
              s == Append(r, k)
              d == ArcHit(a, k)
  <2>0. r \in Seq(Expert) /\ IsInjective(r) /\ k \notin ToSet(r) /\ ToSet(r) = ToSet(a.t2) \ {k}
    BY <1>2
  <2>. HIDE DEF r
  <2>1. ToSet(s) = ToSet(r) \cup {k} /\ IsInjective(s)
    BY <2>0, AppendFacts
  <2>2. /\ d.p = a.p /\ d.t1 = a.t1 /\ d.t2 = s
        /\ d.b1 = a.b1 /\ d.b2 = a.b2
    BY <1>3, <1>4, <1>6 DEF ArcHit, r
  <2>. HIDE DEF s, d
  <2>3. ToSet(s) = ToSet(a.t2)
    BY <1>6, <2>0, <2>1
  <2>. QED  BY <2>1, <2>2, <2>3 DEF Apart, Live, d
<1>7. CASE k \notin ToSet(a.t1) /\ k \notin ToSet(a.t2)
  BY <1>3, <1>4, <1>7 DEF ArcHit
<1>. QED  BY <1>5, <1>6, <1>7

\* remove takes the key out of the live lists.
LEMMA ApartRemove ==
    ASSUME NEW a \in Arc, Apart(a), NEW k \in Expert
    PROVE  /\ Apart(ArcRemove(a, k))
           /\ Live(ArcRemove(a, k)) = Live(a) \ {k}
           /\ ArcRemove(a, k).p = a.p
<1>1. a.t1 \in Seq(Expert) /\ a.t2 \in Seq(Expert)
  BY DEF Arc
<1>2. /\ IsInjective(RemoveFirst(a.t1, k)) /\ ToSet(RemoveFirst(a.t1, k)) = ToSet(a.t1) \ {k}
      /\ IsInjective(RemoveFirst(a.t2, k)) /\ ToSet(RemoveFirst(a.t2, k)) = ToSet(a.t2) \ {k}
  BY <1>1, RemoveFirstFacts DEF Apart
<1>3. /\ ArcRemove(a, k).p = a.p
      /\ ArcRemove(a, k).t1 = RemoveFirst(a.t1, k) /\ ArcRemove(a, k).t2 = RemoveFirst(a.t2, k)
      /\ ArcRemove(a, k).b1 = a.b1 /\ ArcRemove(a, k).b2 = a.b2
  BY DEF ArcRemove
<1>. QED  BY <1>2, <1>3 DEF Apart, Live

\* choose_evict turns one live key, the victim, into a ghost.
LEMMA ApartChosen ==
    ASSUME NEW a \in Arc, Apart(a), ~ ArcIsEmpty(a)
    PROVE  /\ Apart(ArcChosen(a))
           /\ ArcVictim(a) \in Live(a)
           /\ Live(ArcChosen(a)) = Live(a) \ {ArcVictim(a)}
           /\ ArcChosen(a).p = a.p
<1>1. /\ a.t1 \in Seq(Expert) /\ a.t2 \in Seq(Expert)
      /\ a.b1 \in Seq(Expert) /\ a.b2 \in Seq(Expert)
  BY DEF Arc
<1>. DEFINE d == ArcChosen(a)
            v == ArcVictim(a)
<1>2. CASE ArcTakesT1(a)
  <2>1. a.t1 # << >> /\ v = Head(a.t1)
    BY <1>2 DEF ArcTakesT1, ArcVictim
  <2>2. /\ v \in ToSet(a.t1) /\ v \in Expert
        /\ IsInjective(Tail(a.t1)) /\ ToSet(Tail(a.t1)) = ToSet(a.t1) \ {v}
    BY <1>1, <2>1, PopFacts DEF Apart
  <2>3. /\ d.p = a.p /\ d.t1 = Tail(a.t1) /\ d.t2 = a.t2
        /\ d.b1 = Append(a.b1, v) /\ d.b2 = a.b2
    BY <1>2, <2>1 DEF ArcChosen
  <2>. HIDE DEF d, v
  <2>4. v \notin ToSet(a.b1) /\ v \notin ToSet(a.b2) /\ v \notin ToSet(a.t2)
    BY <2>2 DEF Apart, Live
  <2>5. ToSet(d.b1) = ToSet(a.b1) \cup {v} /\ IsInjective(d.b1)
    BY <1>1, <2>2, <2>3, <2>4, AppendFacts DEF Apart
  <2>. QED  BY <2>2, <2>3, <2>4, <2>5 DEF Apart, Live, d, v
<1>3. CASE ~ ArcTakesT1(a)
  <2>1. a.t2 # << >> /\ v = Head(a.t2)
    BY <1>3 DEF ArcTakesT1, ArcVictim, ArcIsEmpty
  <2>2. /\ v \in ToSet(a.t2) /\ v \in Expert
        /\ IsInjective(Tail(a.t2)) /\ ToSet(Tail(a.t2)) = ToSet(a.t2) \ {v}
    BY <1>1, <2>1, PopFacts DEF Apart
  <2>3. /\ d.p = a.p /\ d.t1 = a.t1 /\ d.t2 = Tail(a.t2)
        /\ d.b1 = a.b1 /\ d.b2 = Append(a.b2, v)
    BY <1>3, <2>1 DEF ArcChosen
  <2>. HIDE DEF d, v
  <2>4. v \notin ToSet(a.b1) /\ v \notin ToSet(a.b2) /\ v \notin ToSet(a.t1)
    BY <2>2 DEF Apart, Live
  <2>5. ToSet(d.b2) = ToSet(a.b2) \cup {v} /\ IsInjective(d.b2)
    BY <1>1, <2>2, <2>3, <2>4, AppendFacts DEF Apart
  <2>. QED  BY <2>2, <2>3, <2>4, <2>5 DEF Apart, Live, d, v
<1>. QED  BY <1>2, <1>3

\* on_miss makes a key live that was not, wherever its ghost was, and keeps
\* the target size of T1 within the slots.
LEMMA ApartMiss ==
    ASSUME NEW a \in Arc, Apart(a), NEW k \in Expert, k \notin Live(a),
           NEW max \in Nat, a.p <= max
    PROVE  /\ Apart(ArcMiss(a, k, max))
           /\ Live(ArcMiss(a, k, max)) = Live(a) \cup {k}
           /\ ArcMiss(a, k, max).p <= max
<1>1. /\ a.p \in Nat /\ a.t1 \in Seq(Expert) /\ a.t2 \in Seq(Expert)
      /\ a.b1 \in Seq(Expert) /\ a.b2 \in Seq(Expert)
  BY DEF Arc
<1>. DEFINE d == ArcMiss(a, k, max)
            g1 == RemoveFirst(a.b1, k)
            g2 == IF Contains(a.b1, k) THEN a.b2 ELSE RemoveFirst(a.b2, k)
<1>2. /\ g1 \in Seq(Expert) /\ IsInjective(g1) /\ ToSet(g1) = ToSet(a.b1) \ {k}
  BY <1>1, RemoveFirstFacts DEF Apart
<1>3. /\ g2 \in Seq(Expert) /\ IsInjective(g2) /\ ToSet(g2) = ToSet(a.b2) \ {k}
  <2>1. CASE Contains(a.b1, k)
    <3>1. k \in ToSet(a.b1)
      BY <1>1, <2>1, ContainsIsToSet
    <3>. QED  BY <1>1, <2>1, <3>1 DEF Apart
  <2>2. CASE ~ Contains(a.b1, k)
    BY <1>1, <2>2, RemoveFirstFacts DEF Apart
  <2>. QED  BY <2>1, <2>2
<1>4. /\ d.p = ArcTarget(a, k, max) /\ d.t1 = Append(a.t1, k) /\ d.t2 = a.t2
      /\ d.b1 = Newest(g1, max) /\ d.b2 = Newest(g2, max)
  BY DEF ArcMiss
<1>. HIDE DEF d, g1, g2
<1>5. /\ IsInjective(d.b1) /\ ToSet(d.b1) \subseteq ToSet(a.b1) \ {k}
      /\ IsInjective(d.b2) /\ ToSet(d.b2) \subseteq ToSet(a.b2) \ {k}
  <2>1. /\ IsInjective(Newest(g1, max)) /\ ToSet(Newest(g1, max)) \subseteq ToSet(g1)
        /\ IsInjective(Newest(g2, max)) /\ ToSet(Newest(g2, max)) \subseteq ToSet(g2)
    BY <1>2, <1>3, NewestFacts
  <2>. QED  BY <1>2, <1>3, <1>4, <2>1
<1>6. IsInjective(d.t1) /\ ToSet(d.t1) = ToSet(a.t1) \cup {k}
  BY <1>1, <1>4, AppendFacts DEF Apart, Live
<1>7. Apart(d) /\ Live(d) = Live(a) \cup {k}
  BY <1>4, <1>5, <1>6 DEF Apart, Live
<1>8. d.p <= max
  BY <1>4, ArcTargetType
<1>. QED  BY <1>7, <1>8 DEF d

-----------------------------------------------------------------------------
(***************************************************************************)
(* What each operation does to a well-formed cache.                        *)
(***************************************************************************)

\* The counters agree with the tiers, and the tiers with their slots.
Counted(c) == \A t \in Tier : c.used[t] = Len(c.order[t])
Bounded(c) == \A t \in Tier : Len(c.order[t]) <= AtLeast1(SlotsOf(t))

\* What IsCache says of the fields of a cache, for the proofs below.
LEMMA CacheFields ==
    ASSUME NEW c, IsCache(c), NEW t \in Tier
    PROVE  /\ c.order \in [Tier -> Seq(Expert)]
           /\ c.count \in [Tier -> [Expert -> Nat]]
           /\ c.arc \in [Tier -> Arc]
           /\ c.used \in [Tier -> Nat]
           /\ c.order[t] \in Seq(Expert)
           /\ Len(c.order[t]) \in Nat
           /\ c.arc[t] \in Arc
           /\ IsInjective(c.order[t])
           /\ Resident(c, t) \subseteq Expert
<1>1. /\ c.order \in [Tier -> Seq(Expert)]
      /\ c.count \in [Tier -> [Expert -> Nat]]
      /\ c.arc \in [Tier -> Arc]
      /\ c.used \in [Tier -> Nat]
      /\ IsInjective(c.order[t])
  BY DEF IsCache
<1>2. c.order[t] \in Seq(Expert) /\ c.arc[t] \in Arc
  BY <1>1
<1>3. Len(c.order[t]) \in Nat
  BY <1>2, LenProperties
<1>4. Resident(c, t) \subseteq Expert
  BY <1>2 DEF Resident, ToSet
<1>. QED  BY <1>1, <1>2, <1>3, <1>4

\* _touch moves the entry of a resident key and nothing else.
LEMMA TouchFacts ==
    ASSUME NEW c, IsCache(c), NEW t \in Tier, NEW k \in Resident(c, t)
    PROVE  /\ IsCache(Touch(c, t, k))
           /\ \A u \in Tier :
                /\ Len(Touch(c, t, k).order[u]) = Len(c.order[u])
                /\ Resident(Touch(c, t, k), u) = Resident(c, u)
           /\ Touch(c, t, k).used = c.used
<1>. DEFINE s == c.order[t]
            r == Append(RemoveFirst(s, k), k)
<1>1. k \in Expert /\ s \in Seq(Expert) /\ IsInjective(s) /\ k \in ToSet(s) /\ Len(s) \in Nat
  BY CacheFields DEF Resident
<1>2. Contains(s, k)
  BY <1>1, ContainsIsToSet
<1>3. /\ RemoveFirst(s, k) \in Seq(Expert)
      /\ Len(RemoveFirst(s, k)) = Len(s) - 1
      /\ IsInjective(RemoveFirst(s, k))
      /\ ToSet(RemoveFirst(s, k)) = ToSet(s) \ {k}
  BY <1>1, <1>2, RemoveFirstFacts
<1>. HIDE DEF s
<1>4. r \in Seq(Expert) /\ Len(r) = Len(s) /\ IsInjective(r) /\ ToSet(r) = ToSet(s)
  <2>. DEFINE q == RemoveFirst(s, k)
  <2>1. /\ q \in Seq(Expert) /\ k \in Expert /\ k \notin ToSet(q) /\ IsInjective(q)
        /\ Len(q) = Len(s) - 1 /\ ToSet(q) = ToSet(s) \ {k}
    BY <1>1, <1>3
  <2>. HIDE DEF q
  <2>2. /\ Append(q, k) \in Seq(Expert)
        /\ Len(Append(q, k)) = Len(q) + 1
        /\ ToSet(Append(q, k)) = ToSet(q) \cup {k}
        /\ IsInjective(Append(q, k))
    BY <2>1, AppendFacts
  <2>3. Len(Append(q, k)) = Len(s) /\ ToSet(Append(q, k)) = ToSet(s)
    BY <2>1, <2>2, <1>1
  <2>. QED  BY <2>2, <2>3 DEF q
<1>. HIDE DEF r
<1>5. Touch(c, t, k).order = [c.order EXCEPT ![t] = r]
  BY DEF Touch, r, s
<1>6. /\ Touch(c, t, k).order \in [Tier -> Seq(Expert)]
      /\ Touch(c, t, k).order[t] = r
      /\ \A u \in Tier \ {t} : Touch(c, t, k).order[u] = c.order[u]
  BY <1>4, <1>5, CacheFields
<1>7. /\ Touch(c, t, k).count \in [Tier -> [Expert -> Nat]]
      /\ Touch(c, t, k).used = c.used
  BY <1>1, CacheFields DEF Touch
<1>8. Touch(c, t, k).arc \in [Tier -> Arc]
  <2>1. ArcHit(c.arc[t], k) \in Arc
    BY <1>1, CacheFields, ArcHitType
  <2>. QED  BY <2>1, CacheFields DEF Touch
<1>9. IsCache(Touch(c, t, k))
  <2>1. Touch(c, t, k) \in [order : [Tier -> Seq(Expert)],
                            count : [Tier -> [Expert -> Nat]],
                            arc   : [Tier -> Arc],
                            used  : [Tier -> Nat]]
    BY <1>6, <1>7, <1>8, CacheFields DEF Touch
  <2>2. \A u \in Tier : IsInjective(Touch(c, t, k).order[u])
    BY <1>4, <1>6, CacheFields
  <2>. QED  BY <2>1, <2>2 DEF IsCache
<1>10. \A u \in Tier :
          /\ Len(Touch(c, t, k).order[u]) = Len(c.order[u])
          /\ Resident(Touch(c, t, k), u) = Resident(c, u)
  BY <1>4, <1>6 DEF Resident, s
<1>. QED  BY <1>7, <1>9, <1>10

\* Dropping a key takes that key out of one tier.
LEMMA DropFacts ==
    ASSUME NEW c, IsCache(c), NEW t \in Tier, NEW k \in Resident(c, t)
    PROVE  /\ IsCache(Drop(c, t, k))
           /\ Len(Drop(c, t, k).order[t]) = Len(c.order[t]) - 1
           /\ Resident(Drop(c, t, k), t) = Resident(c, t) \ {k}
           /\ \A u \in Tier \ {t} : Drop(c, t, k).order[u] = c.order[u]
           /\ Drop(c, t, k).used = c.used
<1>. DEFINE s == c.order[t]
            r == RemoveFirst(s, k)
            d == Drop(c, t, k)
<1>1. k \in Expert /\ s \in Seq(Expert) /\ IsInjective(s) /\ k \in ToSet(s)
  BY CacheFields DEF Resident
<1>2. Contains(s, k)
  BY <1>1, ContainsIsToSet
<1>3. r \in Seq(Expert) /\ Len(r) = Len(s) - 1 /\ IsInjective(r) /\ ToSet(r) = ToSet(s) \ {k}
  BY <1>1, <1>2, RemoveFirstFacts
<1>4. d.order = [c.order EXCEPT ![t] = r]
  BY DEF Drop
<1>. HIDE DEF r, s
<1>5. /\ d.order \in [Tier -> Seq(Expert)]
      /\ d.order[t] = r
      /\ \A u \in Tier \ {t} : d.order[u] = c.order[u]
  BY <1>3, <1>4, CacheFields
<1>6. d.count \in [Tier -> [Expert -> Nat]] /\ d.used = c.used
  BY <1>1, CacheFields DEF Drop
<1>7. d.arc \in [Tier -> Arc]
  <2>1. ArcRemove(c.arc[t], k) \in Arc
    BY <1>1, CacheFields, ArcRemoveType
  <2>. QED  BY <2>1, CacheFields DEF Drop
<1>8. IsCache(d)
  <2>1. d \in [order : [Tier -> Seq(Expert)],
              count : [Tier -> [Expert -> Nat]],
              arc   : [Tier -> Arc],
              used  : [Tier -> Nat]]
    BY <1>5, <1>6, <1>7, CacheFields DEF Drop
  <2>2. \A u \in Tier : IsInjective(d.order[u])
    BY <1>3, <1>5, CacheFields
  <2>. QED  BY <2>1, <2>2 DEF IsCache
<1>. QED  BY <1>3, <1>5, <1>6, <1>8 DEF Resident, s

\* An insertion adds a key that was not there to one tier.
LEMMA InsertFacts ==
    ASSUME NEW c, IsCache(c), NEW t \in Tier, NEW k \in Expert, k \notin Resident(c, t)
    PROVE  /\ IsCache(Insert(c, t, k))
           /\ Len(Insert(c, t, k).order[t]) = Len(c.order[t]) + 1
           /\ Resident(Insert(c, t, k), t) = Resident(c, t) \cup {k}
           /\ \A u \in Tier \ {t} : Insert(c, t, k).order[u] = c.order[u]
           /\ Insert(c, t, k).used = c.used
<1>. DEFINE s == c.order[t]
            r == Append(s, k)
            d == Insert(c, t, k)
<1>1. s \in Seq(Expert) /\ IsInjective(s) /\ k \notin ToSet(s)
  BY CacheFields DEF Resident
<1>2. r \in Seq(Expert) /\ Len(r) = Len(s) + 1 /\ IsInjective(r) /\ ToSet(r) = ToSet(s) \cup {k}
  BY <1>1, AppendFacts
<1>3. d.order = [c.order EXCEPT ![t] = r]
  BY DEF Insert
<1>. HIDE DEF r, s
<1>4. /\ d.order \in [Tier -> Seq(Expert)]
      /\ d.order[t] = r
      /\ \A u \in Tier \ {t} : d.order[u] = c.order[u]
  BY <1>2, <1>3, CacheFields
<1>5. d.count \in [Tier -> [Expert -> Nat]] /\ d.used = c.used /\ d.arc = c.arc
  BY CacheFields DEF Insert
<1>6. IsCache(d)
  <2>1. d \in [order : [Tier -> Seq(Expert)],
              count : [Tier -> [Expert -> Nat]],
              arc   : [Tier -> Arc],
              used  : [Tier -> Nat]]
    BY <1>4, <1>5, CacheFields DEF Insert
  <2>2. \A u \in Tier : IsInjective(d.order[u])
    BY <1>2, <1>4, CacheFields
  <2>. QED  BY <2>1, <2>2 DEF IsCache
<1>. QED  BY <1>2, <1>4, <1>5, <1>6 DEF Resident, s

\* Refreshing a counter leaves the tiers alone.
LEMMA RecountFacts ==
    ASSUME NEW c, IsCache(c), NEW device \in Device
    PROVE  /\ IsCache(Recount(c, device))
           /\ Recount(c, device).order = c.order
           /\ \A t \in Tier : Resident(Recount(c, device), t) = Resident(c, t)
           /\ Recount(c, device).used =
                 [c.used EXCEPT ![CounterOf(device)] = Len(c.order[CounterOf(device)])]
<1>1. CounterOf(device) \in Tier
  BY DEF CounterOf, Tier
<1>2. Len(c.order[CounterOf(device)]) \in Nat
  BY <1>1, CacheFields
<1>3. Recount(c, device).used \in [Tier -> Nat]
  BY <1>1, <1>2, CacheFields DEF Recount
<1>. QED  BY <1>1, <1>3, CacheFields DEF Recount, IsCache, Resident

\* Replacing the ARC state of a tier touches no entry and no counter.
LEMMA WithArcFacts ==
    ASSUME NEW c, IsCache(c), NEW t \in Tier, NEW a \in Arc
    PROVE  /\ IsCache(WithArc(c, t, a))
           /\ WithArc(c, t, a).order = c.order
           /\ WithArc(c, t, a).used = c.used
           /\ \A u \in Tier : Resident(WithArc(c, t, a), u) = Resident(c, u)
  BY CacheFields DEF WithArc, IsCache, Resident

-----------------------------------------------------------------------------
(***************************************************************************)
(* Eviction, insertion and demotion.                                       *)
(***************************************************************************)

\* _lru_victim is a resident key of a tier that is not empty.
LEMMA LruVictimFacts ==
    ASSUME NEW c, IsCache(c), NEW t \in Tier, c.order[t] # << >>
    PROVE  LruVictim(c, t) \in Resident(c, t)
<1>1. c.order[t] \in Seq(Expert) /\ c.order[t] # << >>
  BY CacheFields
<1>2. 1 \in DOMAIN c.order[t] /\ Head(c.order[t]) = c.order[t][1]
  BY <1>1
<1>. QED  BY <1>2 DEF LruVictim, Resident, ToSet

\* _lfu_victim is the first, in order of use, of the resident keys with the
\* lowest access_count.
LEMMA LfuVictimFacts ==
    ASSUME NEW c, IsCache(c), NEW t \in Tier, c.order[t] # << >>
    PROVE  /\ LfuVictim(c, t) \in Resident(c, t)
           /\ \E v \in DOMAIN c.order[t] :
                 /\ LfuVictim(c, t) = c.order[t][v]
                 /\ \A j \in DOMAIN c.order[t] \ {v} :
                       \/ c.count[t][c.order[t][v]] < c.count[t][c.order[t][j]]
                       \/ /\ c.count[t][c.order[t][v]] = c.count[t][c.order[t][j]]
                          /\ v < j
<1>. DEFINE s == c.order[t]
            n == c.count[t]
            counts == {n[s[i]] : i \in DOMAIN s}
            least == {i \in DOMAIN s : \A j \in DOMAIN s : n[s[i]] <= n[s[j]]}
<1>1. /\ s \in Seq(Expert) /\ s # << >>
      /\ n \in [Expert -> Nat]
      /\ DOMAIN s = 1 .. Len(s) /\ Len(s) \in Nat
  BY CacheFields
<1>2. 1 \in DOMAIN s /\ \A i \in DOMAIN s : n[s[i]] \in Nat
  BY <1>1
<1>3. counts \in SUBSET Nat /\ counts # {}
  BY <1>2
<1>4. Min(counts) \in counts /\ \A m \in counts : Min(counts) <= m
  BY <1>3, MinIsLeast
<1>5. least # {}
  <2>1. PICK i \in DOMAIN s : n[s[i]] = Min(counts)
    BY <1>4
  <2>2. i \in least
    BY <2>1, <1>4
  <2>. QED  BY <2>2
<1>6. least \in SUBSET Nat
  BY <1>1
<1>7. Min(least) \in least /\ \A j \in least : Min(least) <= j
  BY <1>5, <1>6, MinIsLeast
<1>8. LfuVictim(c, t) = s[CHOOSE i \in least : \A j \in least : i <= j]
  BY DEF LfuVictim
<1>. DEFINE v == CHOOSE i \in least : \A j \in least : i <= j
<1>9. v \in least /\ \A j \in least : v <= j
  BY <1>7
<1>10. ASSUME NEW j \in DOMAIN s \ {v}
       PROVE  n[s[v]] < n[s[j]] \/ (n[s[v]] = n[s[j]] /\ v < j)
  <2>1. v \in DOMAIN s /\ v \in Nat /\ j \in Nat /\ v # j
    <3>1. v \in DOMAIN s
      BY <1>9
    <3>. HIDE DEF v, least
    <3>. QED  BY <1>1, <3>1
  <2>2. /\ n[s[v]] \in Nat /\ n[s[j]] \in Nat
        /\ n[s[v]] <= n[s[j]]
    BY <1>2, <1>9, <2>1
  <2>3. CASE n[s[v]] = n[s[j]]
    <3>1. j \in least
      BY <1>9, <2>3
    <3>. HIDE DEF v, least
    <3>. QED  BY <1>9, <2>1, <2>3, <3>1
  <2>. HIDE DEF v, least
  <2>. QED  BY <2>2, <2>3
<1>. HIDE DEF v
<1>11. v \in DOMAIN s /\ LfuVictim(c, t) = s[v]
  BY <1>8, <1>9 DEF v
<1>. QED  BY <1>10, <1>11 DEF Resident, ToSet

\* Whatever the policy, the victim of an eviction is resident.
LEMMA VictimFacts ==
    ASSUME NEW c, IsCache(c), NEW t \in Tier, CanEvict(c, t)
    PROVE  Victim(c, t) \in Resident(c, t)
<1>1. c.order[t] # << >>
  BY DEF CanEvict
<1>2. LruVictim(c, t) \in Resident(c, t) /\ LfuVictim(c, t) \in Resident(c, t)
  BY <1>1, LruVictimFacts, LfuVictimFacts
<1>3. ArcEvictee(c, t) \in Resident(c, t)
  BY <1>2 DEF ArcEvictee
<1>. QED  BY <1>2, <1>3, CacheAssumption DEF Victim

\* A device string selects a tier, and "cuda" and "cpu" refresh the counter
\* of the tier they select.
LEMMA DeviceFacts ==
    ASSUME NEW device \in Device
    PROVE  /\ TierOf(device) \in Tier
           /\ CounterOf(device) \in Tier
           /\ device # "gpu" => CounterOf(device) = TierOf(device)
  BY DEF Device, Tier, TierOf, CounterOf

\* evict takes one resident key out of the tier of its device, or nothing.
LEMMA EvictFacts ==
    ASSUME NEW c, IsCache(c), NEW device \in Device, CanEvict(c, TierOf(device))
    PROVE  LET t == TierOf(device)
               d == CacheEvict(c, device)
           IN /\ IsCache(d)
              /\ Len(d.order[t]) = Len(c.order[t]) - 1
              /\ Victim(c, t) \in Resident(c, t)
              /\ Resident(d, t) = Resident(c, t) \ {Victim(c, t)}
              /\ \A u \in Tier \ {t} : d.order[u] = c.order[u]
              /\ d.used = [c.used EXCEPT ![CounterOf(device)] =
                              Len(d.order[CounterOf(device)])]
<1>. DEFINE t == TierOf(device)
            v == Victim(c, t)
            chosen == IF Policy = "arc" THEN WithArc(c, t, ArcChosen(c.arc[t])) ELSE c
            e == Drop(chosen, t, v)
            d == Recount(e, device)
<1>1. t \in Tier
  BY DeviceFacts
<1>2. v \in Resident(c, t)
  BY <1>1, VictimFacts
<1>3. /\ IsCache(chosen)
      /\ chosen.order = c.order
      /\ chosen.used = c.used
      /\ \A u \in Tier : Resident(chosen, u) = Resident(c, u)
  <2>1. CASE Policy = "arc"
    <3>1. v \in Expert
      BY <1>1, <1>2, CacheFields
    <3>2. ~ ArcIsEmpty(c.arc[t])
      BY <2>1 DEF CanEvict
    <3>3. c.arc[t] \in Arc
      BY <1>1, CacheFields
    <3>4. ArcChosen(c.arc[t]) \in Arc
      BY <3>1, <3>2, <3>3, ArcChosenType
    <3>. QED  BY <2>1, <3>4, <1>1, WithArcFacts
  <2>2. CASE Policy # "arc"
    BY <2>2
  <2>. QED  BY <2>1, <2>2
<1>4. CacheEvict(c, device) = d
  BY DEF CacheEvict
<1>. HIDE DEF chosen, v, t
<1>5. v \in Resident(chosen, t)
  BY <1>1, <1>2, <1>3
<1>6. /\ IsCache(e)
      /\ Len(e.order[t]) = Len(chosen.order[t]) - 1
      /\ Resident(e, t) = Resident(chosen, t) \ {v}
      /\ \A u \in Tier \ {t} : e.order[u] = chosen.order[u]
      /\ e.used = chosen.used
  BY <1>1, <1>3, <1>5, DropFacts
<1>. HIDE DEF e
<1>7. /\ IsCache(d)
      /\ d.order = e.order
      /\ \A u \in Tier : Resident(d, u) = Resident(e, u)
      /\ d.used = [e.used EXCEPT ![CounterOf(device)] = Len(e.order[CounterOf(device)])]
  BY <1>6, RecountFacts
<1>. HIDE DEF d
<1>8. /\ IsCache(d)
      /\ Len(d.order[t]) = Len(c.order[t]) - 1
      /\ Resident(d, t) = Resident(c, t) \ {v}
      /\ \A u \in Tier \ {t} : d.order[u] = c.order[u]
      /\ d.used = [c.used EXCEPT ![CounterOf(device)] = Len(d.order[CounterOf(device)])]
  BY <1>1, <1>3, <1>6, <1>7
<1>. QED  BY <1>2, <1>4, <1>8 DEF t, v

\* demote_to_cpu takes a resident GPU key out of the GPU tier.
LEMMA DemoteFacts ==
    ASSUME NEW c, IsCache(c), NEW k \in Resident(c, "gpu")
    PROVE  LET d == CacheDemote(c, k)
           IN /\ IsCache(d)
              /\ Len(d.order["gpu"]) = Len(c.order["gpu"]) - 1
              /\ Resident(d, "gpu") = Resident(c, "gpu") \ {k}
              /\ d.order["cpu"] = c.order["cpu"]
              /\ d.used = [c.used EXCEPT !["gpu"] = Len(d.order["gpu"])]
<1>. DEFINE e == Drop(c, "gpu", k)
            d == Recount(e, "cuda")
<1>1. "gpu" \in Tier /\ "cpu" \in Tier \ {"gpu"} /\ "cuda" \in Device /\ CounterOf("cuda") = "gpu"
  BY DEF Tier, Device, CounterOf
<1>2. /\ IsCache(e)
      /\ Len(e.order["gpu"]) = Len(c.order["gpu"]) - 1
      /\ Resident(e, "gpu") = Resident(c, "gpu") \ {k}
      /\ e.order["cpu"] = c.order["cpu"]
      /\ e.used = c.used
  BY <1>1, DropFacts
<1>3. CacheDemote(c, k) = d
  BY DEF CacheDemote
<1>. HIDE DEF e
<1>4. /\ IsCache(d)
      /\ d.order = e.order
      /\ Resident(d, "gpu") = Resident(e, "gpu")
      /\ d.used = [e.used EXCEPT !["gpu"] = Len(e.order["gpu"])]
  <2>1. /\ IsCache(d)
        /\ d.order = e.order
        /\ \A u \in Tier : Resident(d, u) = Resident(e, u)
        /\ d.used = [e.used EXCEPT ![CounterOf("cuda")] = Len(e.order[CounterOf("cuda")])]
    BY <1>1, <1>2, RecountFacts
  <2>. HIDE DEF d
  <2>. QED  BY <1>1, <2>1
<1>. HIDE DEF d
<1>. QED  BY <1>2, <1>3, <1>4

\* put of a resident key changes nothing but its recency; put of another key
\* makes room when the tier is full, unless ARC has nothing to choose.
LEMMA PutFacts ==
    ASSUME NEW c, IsCache(c), NEW k \in Expert, NEW device \in Device
    PROVE  LET t == TierOf(device)
               d == CachePut(c, k, device)
               full == Len(c.order[t]) >= SlotsOf(t)
           IN /\ IsCache(d)
              /\ k \in Resident(c, t) =>
                    \A u \in Tier : /\ Resident(d, u) = Resident(c, u)
                                    /\ Len(d.order[u]) = Len(c.order[u])
                                    /\ d.used[u] = c.used[u]
              /\ k \notin Resident(c, t) =>
                    /\ \A u \in Tier \ {t} : d.order[u] = c.order[u]
                    /\ d.used[CounterOf(device)] = Len(d.order[CounterOf(device)])
                    /\ \A u \in Tier \ {CounterOf(device)} : d.used[u] = c.used[u]
              /\ k \notin Resident(c, t) /\ full /\ CanEvict(c, t) =>
                    /\ Len(d.order[t]) = Len(c.order[t])
                    /\ Victim(c, t) \in Resident(c, t)
                    /\ Resident(d, t) = (Resident(c, t) \ {Victim(c, t)}) \cup {k}
              /\ k \notin Resident(c, t) /\ ~ (full /\ CanEvict(c, t)) =>
                    /\ Len(d.order[t]) = Len(c.order[t]) + 1
                    /\ Resident(d, t) = Resident(c, t) \cup {k}
<1>. DEFINE t == TierOf(device)
            d == CachePut(c, k, device)
            full == Len(c.order[t]) >= SlotsOf(t)
            room == IF full THEN CacheEvict(c, device) ELSE c
<1>1. t \in Tier /\ CounterOf(device) \in Tier
  BY DeviceFacts
<1>2. CASE k \in Resident(c, t)
  <2>1. d = Touch(c, t, k)
    BY <1>2 DEF CachePut
  <2>. HIDE DEF d, t
  <2>2. /\ IsCache(d)
        /\ \A u \in Tier : /\ Resident(d, u) = Resident(c, u)
                           /\ Len(d.order[u]) = Len(c.order[u])
        /\ d.used = c.used
    BY <1>1, <1>2, <2>1, TouchFacts
  <2>. QED  BY <1>2, <2>2 DEF d, t
<1>3. CASE k \notin Resident(c, t)
  <2>. DEFINE i == Insert(room, t, k)
  <2>1. d = Recount(i, device)
    BY <1>3 DEF CachePut
  <2>2. /\ IsCache(room)
        /\ k \notin Resident(room, t)
        /\ \A u \in Tier \ {t} : room.order[u] = c.order[u]
        /\ \A u \in Tier \ {CounterOf(device)} : room.used[u] = c.used[u]
        /\ room.used \in [Tier -> Nat]
    <3>1. CASE full /\ CanEvict(c, t)
      <4>1. room = CacheEvict(c, device)
        BY <3>1
      <4>2. /\ IsCache(room)
            /\ Resident(room, t) = Resident(c, t) \ {Victim(c, t)}
            /\ \A u \in Tier \ {t} : room.order[u] = c.order[u]
            /\ room.used = [c.used EXCEPT ![CounterOf(device)] =
                               Len(room.order[CounterOf(device)])]
        BY <3>1, <4>1, EvictFacts
      <4>3. c.used \in [Tier -> Nat] /\ room.used \in [Tier -> Nat]
        BY <1>1, <4>2, CacheFields
      <4>. HIDE DEF room, t
      <4>. QED  BY <1>1, <1>3, <4>2, <4>3
    <3>2. CASE ~ (full /\ CanEvict(c, t))
      <4>1. room = c
        BY <3>2 DEF CacheEvict
      <4>. QED  BY <1>1, <1>3, <4>1, CacheFields
    <3>. QED  BY <3>1, <3>2
  <2>3. full /\ CanEvict(c, t) =>
           /\ Len(room.order[t]) = Len(c.order[t]) - 1
           /\ Victim(c, t) \in Resident(c, t)
           /\ Resident(room, t) = Resident(c, t) \ {Victim(c, t)}
    <3>1. SUFFICES ASSUME full, CanEvict(c, t)
                   PROVE  /\ Len(room.order[t]) = Len(c.order[t]) - 1
                          /\ Victim(c, t) \in Resident(c, t)
                          /\ Resident(room, t) = Resident(c, t) \ {Victim(c, t)}
      OBVIOUS
    <3>2. room = CacheEvict(c, device)
      BY <3>1
    <3>. QED  BY <3>1, <3>2, EvictFacts
  <2>4. ~ (full /\ CanEvict(c, t)) => room = c
    BY DEF CacheEvict
  <2>5. Len(c.order[t]) \in Nat /\ Len(room.order[t]) \in Nat
    BY <1>1, <2>2, CacheFields
  <2>. HIDE DEF room, full, d, t
  <2>6. /\ IsCache(i)
        /\ Len(i.order[t]) = Len(room.order[t]) + 1
        /\ Resident(i, t) = Resident(room, t) \cup {k}
        /\ \A u \in Tier \ {t} : i.order[u] = room.order[u]
        /\ i.used = room.used
    BY <1>1, <2>2, InsertFacts
  <2>. HIDE DEF i
  <2>7. /\ IsCache(d)
        /\ d.order = i.order
        /\ \A u \in Tier : Resident(d, u) = Resident(i, u)
        /\ d.used = [i.used EXCEPT ![CounterOf(device)] = Len(i.order[CounterOf(device)])]
    BY <2>1, <2>6, RecountFacts
  <2>8. /\ \A u \in Tier \ {t} : d.order[u] = c.order[u]
        /\ d.used[CounterOf(device)] = Len(d.order[CounterOf(device)])
        /\ \A u \in Tier \ {CounterOf(device)} : d.used[u] = c.used[u]
    BY <1>1, <2>2, <2>6, <2>7
  <2>9. /\ Len(d.order[t]) = Len(room.order[t]) + 1
        /\ Resident(d, t) = Resident(room, t) \cup {k}
    BY <1>1, <2>6, <2>7
  <2>10. full /\ CanEvict(c, t) =>
            /\ Len(d.order[t]) = Len(c.order[t])
            /\ Victim(c, t) \in Resident(c, t)
            /\ Resident(d, t) = (Resident(c, t) \ {Victim(c, t)}) \cup {k}
    BY <2>3, <2>5, <2>9
  <2>11. ~ (full /\ CanEvict(c, t)) =>
            /\ Len(d.order[t]) = Len(c.order[t]) + 1
            /\ Resident(d, t) = Resident(c, t) \cup {k}
    BY <2>4, <2>9
  <2>. QED  BY <1>3, <2>7, <2>8, <2>10, <2>11 DEF d, full, t
<1>. QED  BY <1>2, <1>3

\* get never changes which experts are resident, nor a counter.
LEMMA GetFacts ==
    ASSUME NEW c, IsCache(c), NEW k \in Expert
    PROVE  /\ IsCache(CacheGet(c, k))
           /\ CacheGet(c, k).used = c.used
           /\ \A u \in Tier :
                 /\ Resident(CacheGet(c, k), u) = Resident(c, u)
                 /\ Len(CacheGet(c, k).order[u]) = Len(c.order[u])
<1>1. "gpu" \in Tier /\ "cpu" \in Tier /\ CpuSlots \in Nat
  BY CacheAssumption DEF Tier
<1>2. CASE k \in Resident(c, "gpu")
  <2>1. CacheGet(c, k) = Touch(c, "gpu", k)
    BY <1>2 DEF CacheGet
  <2>. QED  BY <1>1, <1>2, <2>1, TouchFacts
<1>3. CASE k \notin Resident(c, "gpu") /\ k \in Resident(c, "cpu")
  <2>1. CacheGet(c, k) = Touch(c, "cpu", k)
    BY <1>3 DEF CacheGet
  <2>. QED  BY <1>1, <1>3, <2>1, TouchFacts
<1>4. CASE k \notin Resident(c, "gpu") /\ k \notin Resident(c, "cpu") /\ Policy = "arc"
  <2>1. CacheGet(c, k) = WithArc(c, "cpu", ArcMiss(c.arc["cpu"], k, CpuSlots))
    BY <1>4 DEF CacheGet
  <2>2. ArcMiss(c.arc["cpu"], k, CpuSlots) \in Arc
    BY <1>1, CacheFields, ArcMissType
  <2>. QED  BY <1>1, <2>1, <2>2, WithArcFacts
<1>5. CASE k \notin Resident(c, "gpu") /\ k \notin Resident(c, "cpu") /\ Policy # "arc"
  BY <1>5 DEF CacheGet
<1>. QED  BY <1>2, <1>3, <1>4, <1>5

\* A new CacheManager is well formed, its tiers and counters empty.
LEMMA EmptyFacts ==
    /\ IsCache(EmptyCache)
    /\ \A t \in Tier : /\ EmptyCache.order[t] = << >>
                       /\ EmptyCache.used[t] = 0
                       /\ Resident(EmptyCache, t) = {}
<1>1. EmptyArc \in Arc
  BY DEF EmptyArc, Arc
<1>2. /\ EmptyCache.order = [t \in Tier |-> << >>]
      /\ EmptyCache.used = [t \in Tier |-> 0]
      /\ EmptyCache \in [order : [Tier -> Seq(Expert)],
                         count : [Tier -> [Expert -> Nat]],
                         arc   : [Tier -> Arc],
                         used  : [Tier -> Nat]]
  BY <1>1 DEF EmptyCache
<1>3. IsInjective(<< >>) /\ ToSet(<< >>) = {}
  BY DEF IsInjective, ToSet
<1>. QED  BY <1>2, <1>3 DEF IsCache, Resident

\* put keeps its tier within its slots: a tier that is full and not empty
\* has a victim under LRU and under LFU.
LEMMA PutWithin ==
    ASSUME Policy # "arc", NEW c, IsCache(c), Bounded(c),
           NEW k \in Expert, NEW device \in Device
    PROVE  Bounded(CachePut(c, k, device))
<1>. DEFINE t == TierOf(device)
            d == CachePut(c, k, device)
            n == Len(c.order[t])
<1>1. t \in Tier /\ n \in Nat /\ SlotsOf(t) \in Nat /\ c.order[t] \in Seq(Expert)
  BY DeviceFacts, CacheFields, CacheAssumption DEF SlotsOf
<1>2. n <= AtLeast1(SlotsOf(t))
  BY <1>1 DEF Bounded
<1>3. CanEvict(c, t) <=> n # 0
  BY <1>1 DEF CanEvict
<1>4. CASE k \in Resident(c, t)
  <2>1. \A u \in Tier : Len(d.order[u]) = Len(c.order[u])
    BY <1>4, PutFacts
  <2>. QED  BY <2>1 DEF Bounded
<1>5. CASE k \notin Resident(c, t)
  <2>1. \A u \in Tier \ {t} : d.order[u] = c.order[u]
    BY <1>5, PutFacts
  <2>2. Len(d.order[t]) <= AtLeast1(SlotsOf(t))
    <3>1. CASE n >= SlotsOf(t) /\ n # 0
      <4>1. Len(d.order[t]) = n
        BY <1>3, <1>5, <3>1, PutFacts
      <4>. QED  BY <4>1, <1>2
    <3>2. CASE ~ (n >= SlotsOf(t) /\ n # 0)
      <4>1. Len(d.order[t]) = n + 1
        BY <1>3, <1>5, <3>2, PutFacts
      <4>. QED  BY <4>1, <3>2, <1>1 DEF AtLeast1
    <3>. QED  BY <3>1, <3>2
  <2>. HIDE DEF d, t
  <2>3. \A u \in Tier : Len(d.order[u]) <= AtLeast1(SlotsOf(u))
    BY <2>1, <2>2 DEF Bounded
  <2>. QED  BY <2>3 DEF Bounded, d
<1>. QED  BY <1>4, <1>5

\* Nor does a demotion.
LEMMA DemoteWithin ==
    ASSUME NEW c, IsCache(c), Bounded(c), NEW k \in Expert
    PROVE  Bounded(CacheDemote(c, k))
<1>1. \A u \in Tier : Len(c.order[u]) \in Nat /\ AtLeast1(SlotsOf(u)) \in Nat
  BY CacheFields, CacheAssumption, AtLeast1Type DEF SlotsOf
<1>. DEFINE d == CacheDemote(c, k)
<1>2. CASE k \in Resident(c, "gpu")
  <2>1. /\ d.order["cpu"] = c.order["cpu"]
        /\ Len(d.order["gpu"]) = Len(c.order["gpu"]) - 1
    BY <1>2, DemoteFacts
  <2>. HIDE DEF d
  <2>2. \A u \in Tier : Len(d.order[u]) <= AtLeast1(SlotsOf(u))
    BY <1>1, <2>1 DEF Tier, Bounded
  <2>. QED  BY <2>2 DEF Bounded, d
<1>3. CASE k \notin Resident(c, "gpu")
  BY <1>3 DEF CacheDemote
<1>. QED  BY <1>2, <1>3

-----------------------------------------------------------------------------
(***************************************************************************)
(* ARC when every put into the CPU tier follows a miss on the same key, as *)
(* it does in the layers.                                                  *)
(***************************************************************************)

\* The ARC lists of a cache whose every put into the CPU tier follows a miss:
\* they are apart, p is within the slots, and what is live is resident.  The
\* GPU tier is told neither of misses nor of loads, so its lists stay empty.
ArcOwned(c) ==
    /\ c.arc["gpu"] = EmptyArc
    /\ Apart(c.arc["cpu"])
    /\ c.arc["cpu"].p <= CpuSlots
    /\ Live(c.arc["cpu"]) \subseteq Resident(c, "cpu")

LEMMA EmptyIsApart ==
    /\ EmptyArc \in Arc /\ Apart(EmptyArc) /\ Live(EmptyArc) = {}
    /\ ArcIsEmpty(EmptyArc)
    /\ \A k : ArcHit(EmptyArc, k) = EmptyArc /\ ArcRemove(EmptyArc, k) = EmptyArc
<1>1. /\ EmptyArc.t1 = << >> /\ EmptyArc.t2 = << >> /\ EmptyArc.b1 = << >>
      /\ EmptyArc.b2 = << >> /\ EmptyArc.p = 0
  BY DEF EmptyArc
<1>2. ToSet(<< >>) = {} /\ IsInjective(<< >>) /\ \A k : ~ Contains(<< >>, k)
  BY DEF ToSet, IsInjective, Contains
<1>3. \A k : RemoveFirst(<< >>, k) = << >>
  BY <1>2, RemoveFirstAbsent
<1>4. EmptyArc \in Arc
  BY DEF EmptyArc, Arc
<1>5. Apart(EmptyArc) /\ Live(EmptyArc) = {}
  BY <1>1, <1>2 DEF Apart, Live
<1>6. \A k : ArcHit(EmptyArc, k) = EmptyArc
  BY <1>1, <1>2 DEF ArcHit
<1>7. \A k : ArcRemove(EmptyArc, k) = EmptyArc
  BY <1>1, <1>3 DEF ArcRemove, EmptyArc
<1>. QED  BY <1>1, <1>4, <1>5, <1>6, <1>7 DEF ArcIsEmpty

LEMMA EmptyIsOwned == ArcOwned(EmptyCache)
<1>1. EmptyCache.arc["gpu"] = EmptyArc /\ EmptyCache.arc["cpu"] = EmptyArc
  BY DEF EmptyCache, Tier
<1>2. EmptyArc.p = 0
  BY DEF EmptyArc
<1>. QED  BY <1>1, <1>2, EmptyIsApart, CacheAssumption DEF ArcOwned

\* get of a resident key.
LEMMA OwnedAfterHit ==
    ASSUME Policy = "arc", NEW c, IsCache(c), ArcOwned(c),
           NEW k \in Resident(c, "gpu") \cup Resident(c, "cpu")
    PROVE  ArcOwned(CacheGet(c, k))
<1>1. "gpu" \in Tier /\ "cpu" \in Tier
  BY DEF Tier
<1>2. k \in Expert /\ c.arc \in [Tier -> Arc] /\ c.arc["cpu"] \in Arc
  BY <1>1, CacheFields
<1>3. CASE k \in Resident(c, "gpu")
  <2>1. CacheGet(c, k) = Touch(c, "gpu", k)
    BY <1>3 DEF CacheGet
  <2>2. Touch(c, "gpu", k).arc = [c.arc EXCEPT !["gpu"] = ArcHit(@, k)]
    BY DEF Touch
  <2>3. Touch(c, "gpu", k).arc = c.arc
    BY <1>2, <2>2, EmptyIsApart DEF ArcOwned
  <2>4. Resident(Touch(c, "gpu", k), "cpu") = Resident(c, "cpu")
    BY <1>1, <1>3, TouchFacts
  <2>. QED  BY <2>1, <2>3, <2>4 DEF ArcOwned
<1>4. CASE k \notin Resident(c, "gpu")
  <2>1. CacheGet(c, k) = Touch(c, "cpu", k) /\ k \in Resident(c, "cpu")
    BY <1>4 DEF CacheGet
  <2>2. Touch(c, "cpu", k).arc = [c.arc EXCEPT !["cpu"] = ArcHit(@, k)]
    BY DEF Touch
  <2>3. /\ Touch(c, "cpu", k).arc["gpu"] = EmptyArc
        /\ Touch(c, "cpu", k).arc["cpu"] = ArcHit(c.arc["cpu"], k)
    BY <1>1, <1>2, <2>2 DEF ArcOwned
  <2>4. Resident(Touch(c, "cpu", k), "cpu") = Resident(c, "cpu")
    BY <1>1, <2>1, TouchFacts
  <2>. QED  BY <1>2, <2>1, <2>3, <2>4, ApartHit DEF ArcOwned
<1>. QED  BY <1>3, <1>4

\* put into the GPU tier: it finds nothing to evict.
LEMMA OwnedAfterGpuPut ==
    ASSUME Policy = "arc", NEW c, IsCache(c), ArcOwned(c), NEW k \in Expert
    PROVE  ArcOwned(CachePut(c, k, "cuda"))
<1>1. "gpu" \in Tier /\ "cpu" \in Tier /\ "cuda" \in Device /\ TierOf("cuda") = "gpu"
  BY DEF Tier, Device, TierOf
<1>2. c.arc \in [Tier -> Arc]
  BY <1>1, CacheFields
<1>3. CASE k \in Resident(c, "gpu")
  <2>1. CachePut(c, k, "cuda") = Touch(c, "gpu", k) /\ CacheGet(c, k) = Touch(c, "gpu", k)
    BY <1>1, <1>3 DEF CachePut, CacheGet
  <2>. QED  BY <1>3, <2>1, OwnedAfterHit
<1>4. CASE k \notin Resident(c, "gpu")
  <2>1. ~ CanEvict(c, "gpu")
    BY EmptyIsApart DEF CanEvict, ArcOwned
  <2>2. CacheEvict(c, "cuda") = c
    BY <1>1, <2>1 DEF CacheEvict
  <2>3. CachePut(c, k, "cuda") = Recount(Insert(c, "gpu", k), "cuda")
    BY <1>1, <1>4, <2>2 DEF CachePut
  <2>4. CachePut(c, k, "cuda").arc = c.arc
    BY <2>3 DEF Recount, Insert
  <2>5. CachePut(c, k, "cuda").order["cpu"] = c.order["cpu"]
    BY <1>1, <1>4, PutFacts
  <2>. QED  BY <2>4, <2>5 DEF ArcOwned, Resident
<1>. QED  BY <1>3, <1>4

\* demote_to_cpu.
LEMMA OwnedAfterDemote ==
    ASSUME Policy = "arc", NEW c, IsCache(c), ArcOwned(c), NEW k \in Expert
    PROVE  ArcOwned(CacheDemote(c, k))
<1>1. "gpu" \in Tier /\ "cpu" \in Tier
  BY DEF Tier
<1>2. c.arc \in [Tier -> Arc]
  BY <1>1, CacheFields
<1>3. CASE k \in Resident(c, "gpu")
  <2>1. CacheDemote(c, k).arc = [c.arc EXCEPT !["gpu"] = ArcRemove(@, k)]
    BY <1>3 DEF CacheDemote, Recount, Drop
  <2>2. CacheDemote(c, k).arc = c.arc
    BY <1>2, <2>1, EmptyIsApart DEF ArcOwned
  <2>3. CacheDemote(c, k).order["cpu"] = c.order["cpu"]
    BY <1>3, DemoteFacts
  <2>. QED  BY <2>2, <2>3 DEF ArcOwned, Resident
<1>. QED  BY <1>3 DEF CacheDemote

\* A miss followed by the put of the key that was missed: whatever ARC
\* chooses, and whatever is evicted in its place, what stays live is resident.
LEMMA OwnedAfterLoad ==
    ASSUME Policy = "arc", NEW c, IsCache(c), ArcOwned(c),
           NEW k \in Expert, k \notin Resident(c, "gpu"), k \notin Resident(c, "cpu")
    PROVE  ArcOwned(CachePut(CacheGet(c, k), k, "cpu"))
<1>1. "gpu" \in Tier /\ "cpu" \in Tier /\ "cpu" \in Device /\ TierOf("cpu") = "cpu"
  BY DEF Tier, Device, TierOf
<1>2. c.arc \in [Tier -> Arc] /\ c.arc["cpu"] \in Arc
  BY <1>1, CacheFields
<1>. DEFINE a == ArcMiss(c.arc["cpu"], k, CpuSlots)
            g == WithArc(c, "cpu", a)
            full == Len(g.order["cpu"]) >= SlotsOf("cpu")
            room == IF full THEN CacheEvict(g, "cpu") ELSE g
            d == CachePut(g, k, "cpu")
<1>3. CacheGet(c, k) = g
  BY DEF CacheGet
<1>4. a \in Arc /\ Apart(a) /\ Live(a) = Live(c.arc["cpu"]) \cup {k} /\ a.p <= CpuSlots
  <2>1. k \notin Live(c.arc["cpu"]) /\ Apart(c.arc["cpu"]) /\ c.arc["cpu"].p <= CpuSlots
    BY DEF ArcOwned
  <2>. QED  BY <1>2, <2>1, ApartMiss, ArcMissType, CacheAssumption
<1>. HIDE DEF a
<1>5. /\ IsCache(g) /\ g.order = c.order
      /\ Resident(g, "cpu") = Resident(c, "cpu")
  BY <1>1, <1>4, WithArcFacts
<1>6. g.arc["gpu"] = EmptyArc /\ g.arc["cpu"] = a /\ g.arc \in [Tier -> Arc]
  BY <1>1, <1>2, <1>4 DEF WithArc, ArcOwned
<1>. HIDE DEF g
<1>7. d = Recount(Insert(room, "cpu", k), "cpu")
  BY <1>1, <1>5 DEF CachePut
<1>8. d.arc = room.arc
  BY <1>7 DEF Recount, Insert
<1>9. CASE full /\ CanEvict(g, "cpu")
  <2>. DEFINE v == Victim(g, "cpu")
              e == CacheEvict(g, "cpu")
              chosen == WithArc(g, "cpu", ArcChosen(a))
  <2>0. ~ ArcIsEmpty(a)
    BY <1>6, <1>9 DEF CanEvict
  <2>1. v \in Resident(g, "cpu") /\ v \in Expert
    BY <1>1, <1>5, <1>9, VictimFacts, CacheFields
  <2>2. /\ ArcChosen(a) \in Arc /\ Apart(ArcChosen(a)) /\ ArcChosen(a).p = a.p
        /\ Live(ArcChosen(a)) \subseteq Live(a)
    BY <1>4, <2>0, <2>1, ApartChosen, ArcChosenType
  <2>3. e = Recount(Drop(chosen, "cpu", v), "cpu")
    BY <1>1, <1>6, <1>9 DEF CacheEvict
  <2>4. e.arc = [chosen.arc EXCEPT !["cpu"] = ArcRemove(@, v)]
    BY <2>3 DEF Recount, Drop
  <2>5. chosen.arc = [g.arc EXCEPT !["cpu"] = ArcChosen(a)]
    BY DEF WithArc
  <2>6. e.arc["gpu"] = EmptyArc /\ e.arc["cpu"] = ArcRemove(ArcChosen(a), v)
    BY <1>1, <1>6, <2>4, <2>5
  <2>7. Resident(e, "cpu") = Resident(c, "cpu") \ {v} /\ IsCache(e)
    <3>1. CanEvict(g, TierOf("cpu"))
      BY <1>1, <1>9
    <3>2. /\ IsCache(e)
          /\ Resident(e, TierOf("cpu")) =
                Resident(g, TierOf("cpu")) \ {Victim(g, TierOf("cpu"))}
      BY <1>1, <1>5, <3>1, EvictFacts
    <3>. QED  BY <1>1, <1>5, <3>2
  <2>8. /\ Apart(e.arc["cpu"]) /\ e.arc["cpu"].p = a.p
        /\ Live(e.arc["cpu"]) \subseteq (Live(c.arc["cpu"]) \cup {k}) \ {v}
    BY <1>4, <2>1, <2>2, <2>6, ApartRemove
  <2>9. room = e
    BY <1>9
  <2>. HIDE DEF e, v, chosen, room
  <2>10. Resident(d, "cpu") = Resident(e, "cpu") \cup {k}
    <3>1. k \notin Resident(e, "cpu")
      BY <2>7
    <3>. DEFINE i == Insert(e, "cpu", k)
    <3>2. IsCache(i) /\ Resident(i, "cpu") = Resident(e, "cpu") \cup {k}
      BY <1>1, <2>7, <3>1, InsertFacts
    <3>3. d = Recount(i, "cpu")
      BY <1>7, <2>9
    <3>. HIDE DEF i, d
    <3>4. Resident(Recount(i, "cpu"), "cpu") = Resident(i, "cpu")
      BY <1>1, <3>2, RecountFacts
    <3>. QED  BY <3>2, <3>3, <3>4
  <2>11. Live(e.arc["cpu"]) \subseteq Resident(d, "cpu")
    BY <2>7, <2>8, <2>10 DEF ArcOwned
  <2>12. ArcOwned(d)
    BY <1>4, <1>8, <2>6, <2>8, <2>9, <2>11 DEF ArcOwned
  <2>. QED  BY <1>3, <2>12
<1>10. CASE ~ (full /\ CanEvict(g, "cpu"))
  <2>1. room = g
    BY <1>1, <1>10 DEF CacheEvict
  <2>. HIDE DEF room, full
  <2>2. Resident(d, "cpu") = Resident(c, "cpu") \cup {k}
    <3>1. k \notin Resident(g, "cpu")
      BY <1>5
    <3>. DEFINE i == Insert(g, "cpu", k)
    <3>2. IsCache(i) /\ Resident(i, "cpu") = Resident(g, "cpu") \cup {k}
      BY <1>1, <1>5, <3>1, InsertFacts
    <3>3. d = Recount(i, "cpu")
      BY <1>7, <2>1
    <3>. HIDE DEF i, d
    <3>4. Resident(Recount(i, "cpu"), "cpu") = Resident(i, "cpu")
      BY <1>1, <3>2, RecountFacts
    <3>. QED  BY <1>5, <3>2, <3>3, <3>4
  <2>3. ArcOwned(d)
    BY <1>4, <1>6, <1>8, <2>1, <2>2 DEF ArcOwned
  <2>. QED  BY <1>3, <2>3
<1>. QED  BY <1>9, <1>10

\* The same call never takes the CPU tier beyond its slots, whatever the
\* policy: the miss has given choose_evict something to choose.
LEMMA LoadWithin ==
    ASSUME NEW c, IsCache(c), Len(c.order["cpu"]) <= AtLeast1(CpuSlots),
           NEW k \in Expert, k \notin Resident(c, "gpu"), k \notin Resident(c, "cpu")
    PROVE  Len(CachePut(CacheGet(c, k), k, "cpu").order["cpu"]) <= AtLeast1(CpuSlots)
<1>1. "cpu" \in Tier /\ "cpu" \in Device /\ TierOf("cpu") = "cpu" /\ SlotsOf("cpu") = CpuSlots
  BY DEF Tier, Device, TierOf, SlotsOf
<1>. DEFINE g == CacheGet(c, k)
            n == Len(c.order["cpu"])
<1>2. /\ IsCache(g) /\ k \notin Resident(g, "cpu")
      /\ Len(g.order["cpu"]) = n /\ n \in Nat /\ g.order["cpu"] \in Seq(Expert)
  BY <1>1, GetFacts, CacheFields
<1>3. Policy = "arc" => ~ ArcIsEmpty(g.arc["cpu"])
  <2>. SUFFICES ASSUME Policy = "arc" PROVE ~ ArcIsEmpty(g.arc["cpu"])
    OBVIOUS
  <2>1. g = WithArc(c, "cpu", ArcMiss(c.arc["cpu"], k, CpuSlots))
    BY DEF CacheGet
  <2>2. c.arc \in [Tier -> Arc] /\ c.arc["cpu"].t1 \in Seq(Expert)
    BY <1>1, CacheFields DEF Arc
  <2>3. g.arc["cpu"].t1 = Append(c.arc["cpu"].t1, k)
    BY <1>1, <2>1, <2>2 DEF WithArc, ArcMiss
  <2>. QED  BY <2>2, <2>3 DEF ArcIsEmpty
<1>. HIDE DEF g, n
<1>4. CASE n >= CpuSlots /\ CanEvict(g, "cpu")
  BY <1>1, <1>2, <1>4, PutFacts DEF g, n
<1>5. CASE n >= CpuSlots /\ ~ CanEvict(g, "cpu")
  <2>1. g.order["cpu"] = << >>
    BY <1>3, <1>5 DEF CanEvict
  <2>2. n = 0
    BY <1>2, <2>1
  <2>3. Len(CachePut(g, k, "cpu").order["cpu"]) = n + 1
    <3>1. k \notin Resident(g, TierOf("cpu")) /\ ~ CanEvict(g, TierOf("cpu"))
      BY <1>1, <1>2, <1>5
    <3>2. Len(CachePut(g, k, "cpu").order[TierOf("cpu")]) = Len(g.order[TierOf("cpu")]) + 1
      BY <1>1, <1>2, <3>1, PutFacts
    <3>. QED  BY <1>1, <1>2, <3>2
  <2>4. AtLeast1(CpuSlots) \in Nat \ {0}
    BY AtLeast1Type, CacheAssumption
  <2>5. 0 + 1 <= AtLeast1(CpuSlots)
    BY <2>4
  <2>. QED  BY <2>2, <2>3, <2>5 DEF g
<1>6. CASE ~ (n >= CpuSlots)
  <2>1. Len(CachePut(g, k, "cpu").order["cpu"]) = n + 1
    BY <1>1, <1>2, <1>6, PutFacts
  <2>2. n \in Nat /\ CpuSlots \in Nat /\ n < CpuSlots
    BY <1>2, <1>6, CacheAssumption
  <2>3. AtLeast1(CpuSlots) = CpuSlots
    BY <2>2 DEF AtLeast1
  <2>4. n + 1 <= CpuSlots
    BY <2>2
  <2>. QED  BY <2>1, <2>3, <2>4 DEF g
<1>. QED  BY <1>4, <1>5, <1>6

-----------------------------------------------------------------------------
(***************************************************************************)
(* The ghost lists                                                         *)
(***************************************************************************)

\* The GPU tier has no ghosts; those of the CPU tier exceed the cap by one at
\* most.
GhostsCapped(c) ==
    /\ c.arc["gpu"] = EmptyArc
    /\ Len(c.arc["cpu"].b1) <= CpuSlots + 1
    /\ Len(c.arc["cpu"].b2) <= CpuSlots + 1

\* on_hit and remove leave the ghosts alone, on_miss cuts them back, and
\* choose_evict adds one.
LEMMA GhostFacts ==
    ASSUME NEW a \in Arc, NEW k \in Expert, NEW max \in Nat
    PROVE  /\ ArcHit(a, k).b1 = a.b1 /\ ArcHit(a, k).b2 = a.b2
           /\ ArcRemove(a, k).b1 = a.b1 /\ ArcRemove(a, k).b2 = a.b2
           /\ Len(ArcMiss(a, k, max).b1) <= max /\ Len(ArcMiss(a, k, max).b2) <= max
           /\ (~ ArcIsEmpty(a) /\ Len(a.b1) <= max /\ Len(a.b2) <= max) =>
                 /\ Len(ArcChosen(a).b1) <= max + 1
                 /\ Len(ArcChosen(a).b2) <= max + 1
<1>1. /\ ArcHit(a, k).b1 = a.b1 /\ ArcHit(a, k).b2 = a.b2
      /\ ArcRemove(a, k).b1 = a.b1 /\ ArcRemove(a, k).b2 = a.b2
  BY DEF ArcHit, ArcRemove
<1>2. Len(ArcMiss(a, k, max).b1) <= max /\ Len(ArcMiss(a, k, max).b2) <= max
  <2>1. (IF Contains(a.b1, k) THEN a.b2 ELSE RemoveFirst(a.b2, k)) \in Seq(Expert)
    BY ArcFields
  <2>2. \A s \in Seq(Expert) : Len(Newest(s, max)) <= max
    BY NewestFacts
  <2>. QED  BY <2>1, <2>2, ArcFields DEF ArcMiss
<1>3. ASSUME ~ ArcIsEmpty(a), Len(a.b1) <= max, Len(a.b2) <= max
      PROVE  Len(ArcChosen(a).b1) <= max + 1 /\ Len(ArcChosen(a).b2) <= max + 1
  <2>1. /\ a.b1 \in Seq(Expert) /\ a.b2 \in Seq(Expert)
        /\ Len(a.b1) \in Nat /\ Len(a.b2) \in Nat
    BY ArcFields
  <2>2. CASE ArcTakesT1(a)
    <3>1. Head(a.t1) \in Expert
      BY <2>2, ArcFields, HeadTailProperties DEF ArcTakesT1
    <3>2. Len(Append(a.b1, Head(a.t1))) = Len(a.b1) + 1
      BY <2>1, <3>1
    <3>. QED  BY <1>3, <2>1, <2>2, <3>2 DEF ArcChosen
  <2>3. CASE ~ ArcTakesT1(a)
    <3>1. Head(a.t2) \in Expert
      BY <1>3, <2>3, ArcFields, HeadTailProperties DEF ArcTakesT1, ArcIsEmpty
    <3>2. Len(Append(a.b2, Head(a.t2))) = Len(a.b2) + 1
      BY <2>1, <3>1
    <3>. QED  BY <1>3, <2>1, <2>3, <3>2 DEF ArcChosen
  <2>. QED  BY <2>2, <2>3
<1>. QED  BY <1>1, <1>2, <1>3

\* Under LRU and LFU the lists are not kept.
LEMMA ArcUntouched ==
    ASSUME Policy # "arc", NEW c, NEW k, NEW device
    PROVE  /\ CacheGet(c, k).arc = c.arc
           /\ CacheDemote(c, k).arc = c.arc
           /\ CachePut(c, k, device).arc = c.arc
<1>1. CacheEvict(c, device).arc = c.arc
  BY DEF CacheEvict, Recount, Drop
<1>. QED  BY <1>1 DEF CacheGet, CacheDemote, CachePut, Touch, Recount, Drop, Insert

\* A get leaves no ghosts beyond the cap when it misses, and does not add any
\* when it hits.
LEMMA CappedAfterGet ==
    ASSUME Policy = "arc", NEW c, IsCache(c), GhostsCapped(c), NEW k \in Expert
    PROVE  /\ GhostsCapped(CacheGet(c, k))
           /\ k \notin Resident(c, "gpu") \cup Resident(c, "cpu") =>
                 /\ Len(CacheGet(c, k).arc["cpu"].b1) <= CpuSlots
                 /\ Len(CacheGet(c, k).arc["cpu"].b2) <= CpuSlots
<1>1. /\ "gpu" \in Tier /\ "cpu" \in Tier /\ CpuSlots \in Nat
      /\ c.arc \in [Tier -> Arc] /\ c.arc["cpu"] \in Arc
  BY CacheFields, CacheAssumption DEF Tier
<1>2. CASE k \in Resident(c, "gpu")
  <2>1. CacheGet(c, k).arc = [c.arc EXCEPT !["gpu"] = ArcHit(@, k)]
    BY <1>2 DEF CacheGet, Touch
  <2>. QED  BY <1>1, <1>2, <2>1, EmptyIsApart DEF GhostsCapped
<1>3. CASE k \notin Resident(c, "gpu") /\ k \in Resident(c, "cpu")
  <2>1. CacheGet(c, k).arc = [c.arc EXCEPT !["cpu"] = ArcHit(@, k)]
    BY <1>3 DEF CacheGet, Touch
  <2>2. /\ CacheGet(c, k).arc["gpu"] = c.arc["gpu"]
        /\ CacheGet(c, k).arc["cpu"] = ArcHit(c.arc["cpu"], k)
    BY <1>1, <2>1
  <2>3. /\ ArcHit(c.arc["cpu"], k).b1 = c.arc["cpu"].b1
        /\ ArcHit(c.arc["cpu"], k).b2 = c.arc["cpu"].b2
    BY <1>1, GhostFacts
  <2>4. GhostsCapped(CacheGet(c, k))
    BY <2>2, <2>3 DEF GhostsCapped
  <2>. QED  BY <1>3, <2>4
<1>4. CASE k \notin Resident(c, "gpu") /\ k \notin Resident(c, "cpu")
  <2>. DEFINE a == ArcMiss(c.arc["cpu"], k, CpuSlots)
  <2>1. CacheGet(c, k).arc = [c.arc EXCEPT !["cpu"] = a]
    BY <1>4 DEF CacheGet, WithArc
  <2>2. CacheGet(c, k).arc["gpu"] = c.arc["gpu"] /\ CacheGet(c, k).arc["cpu"] = a
    BY <1>1, <2>1
  <2>3. a \in Arc /\ Len(a.b1) <= CpuSlots /\ Len(a.b2) <= CpuSlots
    BY <1>1, GhostFacts, ArcMissType
  <2>4. Len(a.b1) \in Nat /\ Len(a.b2) \in Nat
    BY <2>3, ArcFields, LenProperties
  <2>. HIDE DEF a
  <2>5. Len(a.b1) <= CpuSlots + 1 /\ Len(a.b2) <= CpuSlots + 1
    BY <1>1, <2>3, <2>4
  <2>. QED  BY <2>2, <2>3, <2>5 DEF GhostsCapped
<1>. QED  BY <1>2, <1>3, <1>4

\* Neither a put into the GPU tier, which has nothing to evict, nor a demotion
\* makes a ghost.
LEMMA CappedOnGpu ==
    ASSUME Policy = "arc", NEW c, IsCache(c), GhostsCapped(c), NEW k \in Expert
    PROVE  GhostsCapped(CachePut(c, k, "cuda")) /\ GhostsCapped(CacheDemote(c, k))
<1>1. /\ "gpu" \in Tier /\ TierOf("cuda") = "gpu" /\ c.arc \in [Tier -> Arc]
  BY CacheFields DEF Tier, TierOf
<1>2. CacheEvict(c, "cuda") = c
  <2>1. ~ CanEvict(c, "gpu")
    BY EmptyIsApart DEF CanEvict, GhostsCapped
  <2>. QED  BY <1>1, <2>1 DEF CacheEvict
<1>3. [c.arc EXCEPT !["gpu"] = ArcHit(@, k)] = c.arc
  BY <1>1, EmptyIsApart DEF GhostsCapped
<1>4. [c.arc EXCEPT !["gpu"] = ArcRemove(@, k)] = c.arc
  BY <1>1, EmptyIsApart DEF GhostsCapped
<1>5. CachePut(c, k, "cuda").arc = c.arc
  BY <1>1, <1>2, <1>3 DEF CachePut, Touch, Recount, Insert
<1>6. CacheDemote(c, k).arc = c.arc
  BY <1>4 DEF CacheDemote, Recount, Drop
<1>. QED  BY <1>5, <1>6 DEF GhostsCapped

\* A miss and the put that follows it: the put evicts once, after the miss has
\* cut the lists back.
LEMMA CappedAfterLoad ==
    ASSUME Policy = "arc", NEW c, IsCache(c), GhostsCapped(c),
           NEW k \in Expert, k \notin Resident(c, "gpu"), k \notin Resident(c, "cpu")
    PROVE  GhostsCapped(CachePut(CacheGet(c, k), k, "cpu"))
<1>. DEFINE g == CacheGet(c, k)
            a == g.arc["cpu"]
            d == CachePut(g, k, "cpu")
<1>1. "gpu" \in Tier /\ "cpu" \in Tier /\ TierOf("cpu") = "cpu" /\ CpuSlots \in Nat
  BY CacheAssumption DEF Tier, TierOf
<1>2. IsCache(g) /\ k \notin Resident(g, "cpu")
  BY <1>1, GetFacts
<1>3. /\ g.arc \in [Tier -> Arc] /\ a \in Arc /\ g.arc["gpu"] = EmptyArc
      /\ Len(a.b1) <= CpuSlots /\ Len(a.b2) <= CpuSlots
      /\ GhostsCapped(g)
  BY <1>1, <1>2, CappedAfterGet, CacheFields DEF GhostsCapped
<1>. HIDE DEF g
<1>4. d.arc = g.arc \/ (CanEvict(g, "cpu") /\ d.arc = CacheEvict(g, "cpu").arc)
  BY <1>1, <1>2 DEF CachePut, CacheEvict, Recount, Insert
<1>5. ASSUME CanEvict(g, "cpu"), d.arc = CacheEvict(g, "cpu").arc PROVE GhostsCapped(d)
  <2>. DEFINE v == Victim(g, "cpu")
              e == ArcRemove(ArcChosen(a), v)
  <2>1. ~ ArcIsEmpty(a) /\ v \in Expert
    BY <1>1, <1>2, <1>5, VictimFacts, CacheFields DEF CanEvict
  <2>2. ArcChosen(a) \in Arc
    BY <1>3, <2>1, ArcChosenType
  <2>3. Len(ArcChosen(a).b1) <= CpuSlots + 1 /\ Len(ArcChosen(a).b2) <= CpuSlots + 1
    BY <1>1, <1>3, <2>1, GhostFacts
  <2>. HIDE DEF v
  <2>4. e.b1 = ArcChosen(a).b1 /\ e.b2 = ArcChosen(a).b2
    BY <1>1, <2>1, <2>2, GhostFacts
  <2>5. CacheEvict(g, "cpu").arc =
           [[g.arc EXCEPT !["cpu"] = ArcChosen(@)] EXCEPT !["cpu"] = ArcRemove(@, v)]
    BY <1>1, <1>5 DEF CacheEvict, Recount, Drop, WithArc, v
  <2>6. d.arc["gpu"] = EmptyArc /\ d.arc["cpu"] = e
    BY <1>1, <1>3, <1>5, <2>5
  <2>. HIDE DEF d, e
  <2>. QED  BY <2>3, <2>4, <2>6 DEF GhostsCapped
<1>. HIDE DEF d
<1>6. ASSUME d.arc = g.arc PROVE GhostsCapped(d)
  BY <1>3, <1>6 DEF GhostsCapped
<1>. QED  BY <1>4, <1>5, <1>6 DEF d, g

\* The length of a tier is the number of its resident experts.
LEMMA ResidentFacts ==
    ASSUME NEW c, IsCache(c), NEW t \in Tier
    PROVE  /\ IsFiniteSet(Resident(c, t))
           /\ Cardinality(Resident(c, t)) = Len(c.order[t])
<1>. DEFINE s == c.order[t]
<1>1. /\ s \in [1 .. Len(s) -> Expert] /\ Len(s) \in Nat /\ DOMAIN s = 1 .. Len(s)
      /\ IsInjective(s)
  BY CacheFields
<1>. HIDE DEF s
<1>2. /\ s \in [1 .. Len(s) -> ToSet(s)]
      /\ \A i, j \in 1 .. Len(s) : s[i] = s[j] => i = j
      /\ \A k \in ToSet(s) : \E i \in 1 .. Len(s) : s[i] = k
  BY <1>1 DEF ToSet, IsInjective
<1>3. s \in Bijection(1 .. Len(s), ToSet(s))
  BY <1>2, Fun_IsBij
<1>4. ExistsBijection(1 .. Len(s), ToSet(s))
  BY <1>3, Fun_ExistsBij
<1>5. IsFiniteSet(ToSet(s)) /\ Cardinality(ToSet(s)) = Len(s)
  BY <1>1, <1>4, FS_NatBijection, FS_CountingElements
<1>. QED  BY <1>5 DEF Resident, s
=============================================================================
