---------------------------- MODULE IQRScorerProofs ----------------------------
(***************************************************************************)
(* Proofs about IQRScorer, for any set of samples, any width of the sum    *)
(* and any number of samples.                                              *)
(***************************************************************************)
EXTENDS IQRScorer, SequenceLemmas, FiniteSetTheorems, TLAPS

--------------------------------------------------------------------------------
(* Multisets as sorted sequences *)

InOrder(s) == \A i, j \in 1 .. Len(s) : i <= j => s[i] <= s[j]

(* t is s with x put in as element number p.                               *)
GrownAt(s, p, x, t) ==
    /\ p \in 1 .. Len(t)
    /\ Len(t) = Len(s) + 1
    /\ t[p] = x
    /\ \A k \in 1 .. Len(s) : t[IF k < p THEN k ELSE k + 1] = s[k]

(* t has the elements of s, and x once more.                               *)
Grown(s, x, t) == \E p \in 1 .. Len(t) : GrownAt(s, p, x, t)

(* How often x is in s. *)
Times(s, x) == Cardinality({i \in DOMAIN s : s[i] = x})

(* The values of a sequence of samples are natural numbers.                *)
LEMMA SampleSeq ==
  ASSUME NEW s \in Seq(Values)
  PROVE  /\ Len(s) \in Nat /\ DOMAIN s = 1 .. Len(s)
         /\ \A i \in 1 .. Len(s) : s[i] \in Values /\ s[i] \in Nat
  BY LenProperties, ValuesAssumption

(* Each element of the grown sequence is the new one or an old one, and    *)
(* each old one is in it.                                                  *)
LEMMA GrownElements ==
  ASSUME NEW s \in Seq(Values), NEW t \in Seq(Values), NEW x, Grown(s, x, t)
  PROVE  /\ Len(t) = Len(s) + 1
         /\ \A i \in 1 .. Len(s) : \E j \in 1 .. Len(t) : t[j] = s[i]
         /\ \E j \in 1 .. Len(t) : t[j] = x
         /\ \A j \in 1 .. Len(t) : t[j] = x \/ \E i \in 1 .. Len(s) : s[i] = t[j]
<1>1. PICK p \in 1 .. Len(t) : GrownAt(s, p, x, t)
  BY DEF Grown
<1>2. Len(s) \in Nat /\ Len(t) \in Nat
  BY SampleSeq
<1>3. ASSUME NEW i \in 1 .. Len(s) PROVE \E j \in 1 .. Len(t) : t[j] = s[i]
  <2>1. (IF i < p THEN i ELSE i + 1) \in 1 .. Len(t)
    BY <1>1, <1>2 DEF GrownAt
  <2>2. QED
    BY <1>1, <2>1 DEF GrownAt
<1>4. ASSUME NEW j \in 1 .. Len(t), j # p PROVE \E i \in 1 .. Len(s) : s[i] = t[j]
  <2>1. CASE j < p
    BY <1>1, <1>2, <2>1 DEF GrownAt
  <2>2. CASE j > p
    <3>1. j - 1 \in 1 .. Len(s) /\ ~(j - 1 < p) /\ (j - 1) + 1 = j
      BY <1>1, <1>2, <2>2 DEF GrownAt
    <3>2. QED
      BY <1>1, <3>1 DEF GrownAt
  <2>3. QED
    BY <1>4, <2>1, <2>2
<1>5. QED
  BY <1>1, <1>3, <1>4 DEF GrownAt

(* Occurrences are counted by natural numbers.                             *)
LEMMA TimesFacts ==
  ASSUME NEW s \in Seq(Values), NEW x
  PROVE  /\ IsFiniteSet({i \in DOMAIN s : s[i] = x})
         /\ Times(s, x) \in Nat
         /\ Times(s, x) = 0 <=> \A i \in 1 .. Len(s) : s[i] # x
<1> DEFINE D == {i \in DOMAIN s : s[i] = x}
<1>1. DOMAIN s = 1 .. Len(s) /\ Len(s) \in Nat
  BY SampleSeq
<1>2. IsFiniteSet(1 .. Len(s))
  BY <1>1, FS_Interval
<1>3. IsFiniteSet(D)
  BY <1>1, <1>2, FS_Subset
<1>4. Cardinality(D) \in Nat /\ (Cardinality(D) = 0 <=> D = {})
  BY <1>3, FS_CardinalityType, FS_EmptySet
<1>5. D = {} <=> \A i \in 1 .. Len(s) : s[i] # x
  BY <1>1
<1>6. QED
  BY <1>3, <1>4, <1>5 DEF Times

(* The new element occurs once more, all others as often as before: the    *)
(* places of the old sequence are shifted around the new one.              *)
LEMMA TimesGrown ==
  ASSUME NEW s \in Seq(Values), NEW t \in Seq(Values), NEW x, Grown(s, x, t), NEW y
  PROVE  Times(t, y) = Times(s, y) + (IF x = y THEN 1 ELSE 0)
<1>1. PICK p \in 1 .. Len(t) : GrownAt(s, p, x, t)
  BY DEF Grown
<1>2. /\ Len(s) \in Nat /\ Len(t) \in Nat /\ Len(t) = Len(s) + 1 /\ t[p] = x
      /\ DOMAIN s = 1 .. Len(s) /\ DOMAIN t = 1 .. Len(t)
      /\ \A k \in 1 .. Len(s) : t[IF k < p THEN k ELSE k + 1] = s[k]
  BY <1>1, SampleSeq DEF GrownAt
<1> DEFINE D == {i \in DOMAIN s : s[i] = y}
           E == {i \in DOMAIN t : t[i] = y}
           shift == [k \in D |-> IF k < p THEN k ELSE k + 1]
<1>3. IsFiniteSet(D) /\ IsFiniteSet(E)
  BY TimesFacts
<1>4. shift \in Bijection(D, E \ {p})
  <2>1. ASSUME NEW k \in D PROVE shift[k] \in E \ {p}
    BY <1>2
  <2>2. ASSUME NEW j \in D, NEW k \in D, shift[j] = shift[k] PROVE j = k
    BY <1>2, <2>2
  <2>3. ASSUME NEW j \in E \ {p} PROVE \E k \in D : shift[k] = j
    <3>1. CASE j < p
      <4>1. j \in 1 .. Len(s)
        BY <1>2, <3>1
      <4>2. j \in D /\ shift[j] = j
        BY <1>2, <3>1, <4>1
      <4>3. QED
        BY <4>2
    <3>2. CASE j > p
      <4>1. j - 1 \in 1 .. Len(s) /\ ~(j - 1 < p) /\ (j - 1) + 1 = j
        BY <1>2, <3>2
      <4>2. s[j - 1] = t[j]
        BY <1>2, <4>1
      <4>3. j - 1 \in D /\ shift[j - 1] = j
        BY <1>2, <4>1, <4>2
      <4>4. QED
        BY <4>3
    <3>3. j \in 1 .. Len(t) /\ j # p
      BY <1>2
    <3> HIDE DEF D, E, shift
    <3>4. QED
      BY <1>2, <3>1, <3>2, <3>3
  <2>4. shift \in [D -> E \ {p}]
    BY <2>1
  <2> HIDE DEF D, E, shift
  <2>5. QED
    BY <2>2, <2>3, <2>4 DEF Bijection, Injection, Surjection, IsInjective
<1>5. Cardinality(E \ {p}) = Cardinality(D)
  BY <1>3, <1>4, FS_Bijection DEF ExistsBijection
<1>6. Cardinality(E \ {p}) = IF p \in E THEN Cardinality(E) - 1 ELSE Cardinality(E)
  BY <1>3, FS_RemoveElement
<1>7. p \in E <=> x = y
  BY <1>2
<1>8. Cardinality(D) \in Nat /\ Cardinality(E) \in Nat
  BY <1>3, FS_CardinalityType
<1> HIDE DEF D, E
<1>9. Times(s, y) = Cardinality(D) /\ Times(t, y) = Cardinality(E)
  BY DEF Times, D, E
<1>10. QED
  BY <1>5, <1>6, <1>7, <1>8, <1>9

(* upper_bound: the elements before the place of insertion are at most x,  *)
(* the ones from there on greater.                                         *)
LEMMA InsertPositionFacts ==
  ASSUME NEW s \in Seq(Values), InOrder(s), NEW x \in Values
  PROVE  /\ InsertPosition(s, x) \in 1 .. Len(s) + 1
         /\ \A i \in 1 .. Len(s) : s[i] <= x <=> i < InsertPosition(s, x)
<1>1. Len(s) \in Nat /\ DOMAIN s = 1 .. Len(s) /\ x \in Nat /\ \A i \in 1 .. Len(s) : s[i] \in Nat
  BY SampleSeq, ValuesAssumption
<1> DEFINE Above == {i \in 1 .. Len(s) : ~(s[i] <= x)} \cup {Len(s) + 1}
<1>2. Above \in SUBSET Nat /\ Above # {}
  BY <1>1
<1>3. PICK c \in Above : \A i \in Above : c <= i
  <2> HIDE DEF Above
  <2>1. QED
    BY <1>2, Least
<1>4. c \in 1 .. Len(s) + 1
  BY <1>1
<1>5. ASSUME NEW i \in 1 .. Len(s) PROVE s[i] <= x <=> i < c
  <2>1. CASE i < c
    <3>1. i \notin Above
      BY <1>1, <1>3, <1>4, <2>1
    <3>2. QED
      BY <2>1, <3>1
  <2>2. CASE ~(i < c)
    <3>1. c \in 1 .. Len(s) /\ ~(s[c] <= x) /\ c <= i
      BY <1>1, <1>3, <1>4, <2>2
    <3>2. s[c] <= s[i]
      BY <3>1 DEF InOrder
    <3>3. QED
      BY <1>1, <2>2, <3>1, <3>2
  <2>3. QED
    BY <2>1, <2>2
<1>6. {i \in DOMAIN s : s[i] <= x} = 1 .. c - 1
  BY <1>1, <1>4, <1>5
<1>7. Cardinality(1 .. c - 1) = c - 1
  BY <1>4, FS_Interval
<1>8. InsertPosition(s, x) = c
  <2>1. InsertPosition(s, x) = 1 + Cardinality(1 .. c - 1)
    BY <1>6 DEF InsertPosition
  <2>2. QED
    BY <1>1, <1>4, <1>7, <2>1
<1>9. QED
  BY <1>4, <1>5, <1>8

(* insert keeps a multiset in order.                                       *)
LEMMA InsertKeepsOrder ==
  ASSUME NEW s \in Seq(Values), InOrder(s), NEW x \in Values
  PROVE  /\ InsertAt(s, InsertPosition(s, x), x) \in Seq(Values)
         /\ InOrder(InsertAt(s, InsertPosition(s, x), x))
         /\ GrownAt(s, InsertPosition(s, x), x, InsertAt(s, InsertPosition(s, x), x))
<1> DEFINE p == InsertPosition(s, x)
           t == PutIn(s, p, x)
<1>1. p \in 1 .. Len(s) + 1 /\ \A i \in 1 .. Len(s) : s[i] <= x <=> i < p
  BY InsertPositionFacts
<1>2. InsertAt(s, InsertPosition(s, x), x) = t
  BY DEF InsertAt, PutIn
<1> HIDE DEF p
<1>3. /\ t \in Seq(Values) /\ Len(t) = Len(s) + 1 /\ t[p] = x
      /\ \A k \in 1 .. Len(s) : t[IF k < p THEN k ELSE k + 1] = s[k]
  BY <1>1, PutInOne
<1> HIDE DEF t
<1>4. GrownAt(s, p, x, t)
  BY <1>1, <1>3 DEF GrownAt
<1>5. Len(s) \in Nat /\ x \in Nat /\ \A i \in 1 .. Len(s) : s[i] \in Nat
  BY SampleSeq, ValuesAssumption
<1>6. ASSUME NEW i \in 1 .. Len(t), i # p
      PROVE  \E k \in 1 .. Len(s) : t[i] = s[k] /\ i = (IF k < p THEN k ELSE k + 1)
  <2>1. CASE i < p
    <3>1. i \in 1 .. Len(s)
      BY <1>1, <1>3, <1>5, <2>1
    <3>2. QED
      BY <1>3, <2>1, <3>1
  <2>2. CASE i > p
    <3>1. i - 1 \in 1 .. Len(s) /\ ~(i - 1 < p) /\ (i - 1) + 1 = i
      BY <1>1, <1>3, <1>5, <2>2
    <3>2. QED
      BY <1>3, <3>1
  <2>3. QED
    BY <1>1, <1>3, <1>6, <2>1, <2>2
<1>7. ASSUME NEW i \in 1 .. Len(t), NEW j \in 1 .. Len(t), i <= j PROVE t[i] <= t[j]
  <2>1. CASE i = p /\ j = p
    BY <1>3, <1>5, <2>1
  <2>2. CASE i = p /\ j # p
    <3>1. PICK k \in 1 .. Len(s) : t[j] = s[k] /\ j = (IF k < p THEN k ELSE k + 1)
      BY <1>6, <2>2
    <3>2. ~(k < p)
      BY <1>1, <1>5, <1>7, <2>2, <3>1
    <3>3. ~(s[k] <= x)
      BY <1>1, <3>2
    <3>4. QED
      BY <1>3, <1>5, <2>2, <3>1, <3>3
  <2>3. CASE i # p /\ j = p
    <3>1. PICK k \in 1 .. Len(s) : t[i] = s[k] /\ i = (IF k < p THEN k ELSE k + 1)
      BY <1>6, <2>3
    <3>2. k < p
      BY <1>1, <1>5, <1>7, <2>3, <3>1
    <3>3. QED
      BY <1>1, <1>3, <2>3, <3>1, <3>2
  <2>4. CASE i # p /\ j # p
    <3>1. PICK k \in 1 .. Len(s) : t[i] = s[k] /\ i = (IF k < p THEN k ELSE k + 1)
      BY <1>6, <2>4
    <3>2. PICK l \in 1 .. Len(s) : t[j] = s[l] /\ j = (IF l < p THEN l ELSE l + 1)
      BY <1>6, <2>4
    <3>3. k <= l
      BY <1>1, <1>5, <1>7, <3>1, <3>2
    <3>4. s[k] <= s[l]
      BY <3>3 DEF InOrder
    <3>5. QED
      BY <3>1, <3>2, <3>4
  <2>5. QED
    BY <2>1, <2>2, <2>3, <2>4
<1>8. InOrder(t)
  BY <1>7 DEF InOrder
<1>9. QED
  BY <1>2, <1>3, <1>4, <1>8 DEF p

(* find: the first place of a sample that is in the multiset.              *)
LEMMA FindPositionFacts ==
  ASSUME NEW s \in Seq(Values), NEW x, Times(s, x) > 0
  PROVE  /\ FindPosition(s, x) \in 1 .. Len(s)
         /\ s[FindPosition(s, x)] = x
         /\ \A i \in 1 .. Len(s) : s[i] = x => FindPosition(s, x) <= i
<1> DEFINE D == {i \in DOMAIN s : s[i] = x}
<1>1. DOMAIN s = 1 .. Len(s) /\ Len(s) \in Nat
  BY SampleSeq
<1>2. D # {}
  <2>1. Times(s, x) # 0
    OBVIOUS
  <2>2. PICK i \in 1 .. Len(s) : s[i] = x
    BY <2>1, TimesFacts
  <2>3. QED
    BY <1>1, <2>2
<1>3. D \in SUBSET Nat
  BY <1>1
<1>4. FindPosition(s, x) \in D /\ \A i \in D : FindPosition(s, x) <= i
  <2>1. FindPosition(s, x) = CHOOSE i \in D : \A j \in D : i =< j
    BY DEF FindPosition, Min
  <2> HIDE DEF D
  <2>2. \E i \in D : \A j \in D : i <= j
    BY <1>2, <1>3, Least
  <2>3. QED
    BY <2>1, <2>2
<1>5. QED
  BY <1>1, <1>4

(* erase keeps a multiset in order.                                        *)
LEMMA EraseKeepsOrder ==
  ASSUME NEW s \in Seq(Values), InOrder(s), NEW x, Times(s, x) > 0
  PROVE  /\ RemoveAt(s, FindPosition(s, x)) \in Seq(Values)
         /\ InOrder(RemoveAt(s, FindPosition(s, x)))
         /\ GrownAt(RemoveAt(s, FindPosition(s, x)), FindPosition(s, x), x, s)
<1> DEFINE p == FindPosition(s, x)
           t == TakenOut(s, p)
<1>1. p \in 1 .. Len(s) /\ s[p] = x
  BY FindPositionFacts
<1>2. RemoveAt(s, FindPosition(s, x)) = t
  BY DEF RemoveAt, TakenOut
<1> HIDE DEF p
<1>3. /\ t \in Seq(Values) /\ Len(t) = Len(s) - 1
      /\ \A k \in 1 .. Len(s) - 1 : t[k] = IF k < p THEN s[k] ELSE s[k + 1]
  BY <1>1, TakeOut
<1> HIDE DEF t
<1>4. Len(s) \in Nat /\ \A i \in 1 .. Len(s) : s[i] \in Nat
  BY SampleSeq
<1>5. GrownAt(t, p, x, s)
  BY <1>1, <1>3, <1>4 DEF GrownAt
<1>6. ASSUME NEW i \in 1 .. Len(t), NEW j \in 1 .. Len(t), i <= j PROVE t[i] <= t[j]
  <2>1. /\ t[i] = s[IF i < p THEN i ELSE i + 1] /\ t[j] = s[IF j < p THEN j ELSE j + 1]
        /\ (IF i < p THEN i ELSE i + 1) \in 1 .. Len(s) /\ (IF j < p THEN j ELSE j + 1) \in 1 .. Len(s)
        /\ (IF i < p THEN i ELSE i + 1) <= (IF j < p THEN j ELSE j + 1)
    <3>1. i \in 1 .. Len(s) - 1 /\ j \in 1 .. Len(s) - 1
      BY <1>3
    <3>2. t[i] = s[IF i < p THEN i ELSE i + 1] /\ t[j] = s[IF j < p THEN j ELSE j + 1]
      BY <1>3, <3>1
    <3>3. QED
      BY <1>1, <1>4, <1>6, <3>1, <3>2
  <2>2. s[IF i < p THEN i ELSE i + 1] <= s[IF j < p THEN j ELSE j + 1]
    BY <2>1 DEF InOrder
  <2>3. QED
    BY <2>1, <2>2
<1>7. InOrder(t)
  BY <1>6 DEF InOrder
<1>8. QED
  BY <1>2, <1>3, <1>5, <1>7 DEF p

--------------------------------------------------------------------------------
(* A multiset with its quartile *)

QuartileType(s) == [value2 : Int, it_f : Dangling .. Len(s), it_s : Dangling .. Len(s)]

IsHalf(h) == h.set \in Seq(Values) /\ InOrder(h.set) /\ h.q \in QuartileType(h.set)

(* What the constructors of quartiles return has the type of a quartile.   *)
LEMMA QuartileTypes ==
  ASSUME NEW s \in Seq(Values), NEW i, NEW j, NEW v \in Nat
  PROVE  /\ On(s, i) \in QuartileType(s)
         /\ Between(s, i, j) \in QuartileType(s)
         /\ Garbage \in QuartileType(s)
         /\ NoQuartile(v) \in QuartileType(s)
<1>1. Len(s) \in Nat /\ DOMAIN s = 1 .. Len(s) /\ \A k \in 1 .. Len(s) : s[k] \in Nat
  BY SampleSeq
<1>2. Garbage \in QuartileType(s)
  BY <1>1 DEF Garbage, QuartileType, Dangling
<1>3. NoQuartile(v) \in QuartileType(s)
  BY <1>1 DEF NoQuartile, QuartileType, Dangling, End
<1>4. On(s, i) \in QuartileType(s)
  <2>1. CASE i \in DOMAIN s
    <3>1. 2 * s[i] \in Int /\ i \in Dangling .. Len(s) /\ End \in Dangling .. Len(s)
      BY <1>1, <2>1 DEF Dangling, End
    <3>2. QED
      BY <2>1, <3>1 DEF On, QuartileType
  <2>2. CASE i \notin DOMAIN s
    BY <1>2, <2>2 DEF On
  <2>3. QED
    BY <2>1, <2>2
<1>5. Between(s, i, j) \in QuartileType(s)
  <2>1. CASE {i, j} \subseteq DOMAIN s
    <3>1. s[i] + s[j] \in Int /\ i \in Dangling .. Len(s) /\ j \in Dangling .. Len(s)
      BY <1>1, <2>1 DEF Dangling
    <3>2. QED
      BY <2>1, <3>1 DEF Between, QuartileType
  <2>2. CASE ~({i, j} \subseteq DOMAIN s)
    BY <1>2, <2>2 DEF Between
  <2>3. QED
    BY <2>1, <2>2
<1>6. QED
  BY <1>2, <1>3, <1>4, <1>5

(* Taking a half apart. *)
LEMMA HalfFields ==
  ASSUME NEW s, NEW q
  PROVE  Half(s, q).set = s /\ Half(s, q).q = q
  BY DEF Half

(* add_to_quartile_set adds its sample to the multiset.                    *)
LEMMA AddHalf ==
  ASSUME NEW h, h.set \in Seq(Values), InOrder(h.set), NEW x \in Values
  PROVE  /\ IsHalf(AddQuartile(h, x))
         /\ GrownAt(h.set, InsertPosition(h.set, x), x, AddQuartile(h, x).set)
         /\ Grown(h.set, x, AddQuartile(h, x).set)
<1> DEFINE p == InsertPosition(h.set, x)
           t == InsertAt(h.set, p, x)
           f == AfterInsert(h.q, p).it_f
           q == IF f \notin DOMAIN t THEN Garbage
                ELSE IF Len(t) % 2 = 1
                     THEN On(t, IF x < t[f] THEN f ELSE f + 1)
                     ELSE IF x < t[f] THEN Between(t, f - 1, f) ELSE Between(t, f, f + 1)
<1>1. AddQuartile(h, x) = Half(t, q)
  BY DEF AddQuartile
<1>2. t \in Seq(Values) /\ InOrder(t) /\ GrownAt(h.set, p, x, t)
  BY InsertKeepsOrder
<1> HIDE DEF t, f
<1>3. q \in QuartileType(t)
  BY <1>2, QuartileTypes, ValuesAssumption
<1> HIDE DEF q, p
<1>4. AddQuartile(h, x).set = t /\ AddQuartile(h, x).q = q
  BY <1>1, HalfFields
<1>5. p \in 1 .. Len(t)
  BY <1>2 DEF GrownAt
<1>6. Grown(h.set, x, t)
  BY <1>2, <1>5 DEF Grown
<1>7. QED
  BY <1>2, <1>3, <1>4, <1>6 DEF IsHalf, p

(* remove_from_quartile_set takes one such sample out of the multiset.     *)
LEMMA RemoveHalf ==
  ASSUME NEW h, IsHalf(h), NEW x, Times(h.set, x) > 0
  PROVE  /\ IsHalf(RemoveQuartile(h, x))
         /\ GrownAt(RemoveQuartile(h, x).set, FindPosition(h.set, x), x, h.set)
         /\ Grown(RemoveQuartile(h, x).set, x, h.set)
<1> DEFINE s == h.set
           p == FindPosition(s, x)
           f == h.q.it_f
           t == RemoveAt(s, p)
           q == IF f \notin DOMAIN s THEN Garbage
                ELSE IF Len(s) % 2 = 0
                     THEN On(s, IF p = f \/ x < s[f] THEN h.q.it_s ELSE f)
                     ELSE CASE p = f             -> Between(s, f - 1, f + 1)
                            [] p # f /\ x < s[f] -> Between(s, f, f + 1)
                            [] OTHER             -> Between(s, f - 1, f)
<1>1. RemoveQuartile(h, x) = Half(t, AfterErase(q, p))
  BY DEF RemoveQuartile
<1>2. s \in Seq(Values) /\ InOrder(s)
  BY DEF IsHalf
<1>3. t \in Seq(Values) /\ InOrder(t) /\ GrownAt(t, p, x, s) /\ p \in 1 .. Len(s)
  BY <1>2, EraseKeepsOrder, FindPositionFacts
<1>4. q \in QuartileType(s)
  <2> HIDE DEF s, p, f
  <2>1. QED
    BY <1>2, QuartileTypes, ValuesAssumption
<1> HIDE DEF t, q, p, f
<1>5. AfterErase(q, p) \in QuartileType(t)
  <2> DEFINE move(it) == CASE it = p -> Dangling [] it > p -> it - 1 [] OTHER -> it
  <2>1. Len(s) \in Nat /\ Len(t) \in Nat /\ Len(s) = Len(t) + 1
    BY <1>2, <1>3, SampleSeq DEF GrownAt
  <2>2. q.value2 \in Int /\ q.it_f \in Dangling .. Len(s) /\ q.it_s \in Dangling .. Len(s)
    BY <1>4 DEF QuartileType
  <2>3. \A it \in Dangling .. Len(s) : move(it) \in Dangling .. Len(t)
    BY <1>3, <2>1 DEF Dangling
  <2>4. AfterErase(q, p) = [q EXCEPT !.it_f = move(@), !.it_s = move(@)]
    BY DEF AfterErase, AtBothEnds
  <2> HIDE DEF move
  <2>5. AfterErase(q, p) = [value2 |-> q.value2, it_f |-> move(q.it_f), it_s |-> move(q.it_s)]
    BY <1>4, <2>4 DEF QuartileType
  <2>6. QED
    BY <2>2, <2>3, <2>5 DEF QuartileType
<1>6. RemoveQuartile(h, x).set = t /\ RemoveQuartile(h, x).q = AfterErase(q, p)
  BY <1>1, HalfFields
<1>7. Grown(t, x, s)
  BY <1>3 DEF Grown
<1>8. QED
  BY <1>3, <1>5, <1>6, <1>7 DEF IsHalf, p

--------------------------------------------------------------------------------
(* The two multisets and the median *)

MedianType == [value2 : Nat, is_composite_quartile : BOOLEAN,
               value_f : Values \cup {0}, value_s : Values \cup {0}]

AtMost(s, b)  == \A i \in 1 .. Len(s) : s[i] <= b
AtLeast(s, b) == \A i \in 1 .. Len(s) : s[i] >= b

NoMedian(lo, hi, m, n) ==
    n = 0 /\ Len(lo) = 0 /\ ~m.is_composite_quartile

OneMedian(lo, hi, m, n) ==
    /\ n = 2 * Len(lo) + 1
    /\ ~m.is_composite_quartile
    /\ m.value_f \in Values
    /\ m.value2 = 2 * m.value_f
    /\ AtMost(lo, m.value_f)
    /\ AtLeast(hi, m.value_f)

TwoMedians(lo, hi, m, n) ==
    /\ n = 2 * Len(lo)
    /\ Len(lo) >= 1
    /\ m.is_composite_quartile
    /\ m.value_f = lo[Len(lo)]
    /\ m.value_s = hi[1]
    /\ m.value_f <= m.value_s
    /\ m.value2 = m.value_f + m.value_s

(* How lo, hi and m hold n samples.                                        *)
Arranged(lo, hi, m, n) ==
    /\ lo \in Seq(Values) /\ InOrder(lo)
    /\ hi \in Seq(Values) /\ InOrder(hi)
    /\ Len(lo) = Len(hi)
    /\ m \in MedianType
    /\ NoMedian(lo, hi, m, n) \/ OneMedian(lo, hi, m, n) \/ TwoMedians(lo, hi, m, n)

(* How often they hold y. *)
Held(lo, hi, m, n, y) ==
    Times(lo, y) + Times(hi, y)
    + (IF n > 0 /\ ~m.is_composite_quartile /\ m.value_f = y THEN 1 ELSE 0)

(* A bound on the elements of the grown sequence bounds the new one and    *)
(* the old ones.                                                           *)
LEMMA GrownBounds ==
  ASSUME NEW s \in Seq(Values), NEW t \in Seq(Values), NEW x, Grown(s, x, t), NEW b
  PROVE  /\ AtMost(t, b) <=> x <= b /\ AtMost(s, b)
         /\ AtLeast(t, b) <=> x >= b /\ AtLeast(s, b)
<1>1. /\ \A i \in 1 .. Len(s) : \E j \in 1 .. Len(t) : t[j] = s[i]
      /\ \E j \in 1 .. Len(t) : t[j] = x
      /\ \A j \in 1 .. Len(t) : t[j] = x \/ \E i \in 1 .. Len(s) : s[i] = t[j]
  BY GrownElements
<1>2. AtMost(t, b) => x <= b /\ AtMost(s, b)
  BY <1>1 DEF AtMost
<1>3. x <= b /\ AtMost(s, b) => AtMost(t, b)
  BY <1>1 DEF AtMost
<1>4. AtLeast(t, b) => x >= b /\ AtLeast(s, b)
  BY <1>1 DEF AtLeast
<1>5. x >= b /\ AtLeast(s, b) => AtLeast(t, b)
  BY <1>1 DEF AtLeast
<1>6. QED
  BY <1>2, <1>3, <1>4, <1>5

(* The ends of a multiset are its bounds. *)
LEMMA OrderEnds ==
  ASSUME NEW s \in Seq(Values), InOrder(s), Len(s) >= 1
  PROVE  /\ s[1] \in Values /\ s[Len(s)] \in Values
         /\ AtLeast(s, s[1]) /\ AtMost(s, s[Len(s)])
         /\ \A b : AtMost(s, b) => s[Len(s)] <= b
         /\ \A b : AtLeast(s, b) => s[1] >= b
         /\ Head(s) = s[1] /\ Last(s) = s[Len(s)]
<1>1. Len(s) \in Nat /\ 1 \in 1 .. Len(s) /\ Len(s) \in 1 .. Len(s)
  BY SampleSeq
<1>2. s[1] \in Values /\ s[Len(s)] \in Values
  BY <1>1, SampleSeq
<1>3. \A i \in 1 .. Len(s) : s[1] <= s[i] /\ s[i] <= s[Len(s)] /\ s[i] \in Nat
  BY <1>1, SampleSeq DEF InOrder
<1>4. AtLeast(s, s[1]) /\ AtMost(s, s[Len(s)])
  BY <1>1, <1>3 DEF AtLeast, AtMost
<1>5. (\A b : AtMost(s, b) => s[Len(s)] <= b) /\ (\A b : AtLeast(s, b) => s[1] >= b)
  BY <1>1 DEF AtLeast, AtMost
<1>6. Head(s) = s[1] /\ Last(s) = s[Len(s)]
  BY DEF Last
<1>7. QED
  BY <1>2, <1>4, <1>5, <1>6

(* The medians that the code makes. *)
LEMMA SingleIsOne ==
  ASSUME NEW lo \in Seq(Values), InOrder(lo), NEW hi \in Seq(Values), InOrder(hi),
         Len(lo) = Len(hi), NEW v \in Values,
         AtMost(lo, v),
         AtLeast(hi, v)
  PROVE  /\ Arranged(lo, hi, SingleMedian(v), 2 * Len(lo) + 1)
         /\ \A y : Held(lo, hi, SingleMedian(v), 2 * Len(lo) + 1, y)
                   = Times(lo, y) + Times(hi, y) + (IF v = y THEN 1 ELSE 0)
<1>1. v \in Nat /\ Len(lo) \in Nat
  BY ValuesAssumption, SampleSeq
<1>2. /\ SingleMedian(v).value2 = 2 * v /\ ~SingleMedian(v).is_composite_quartile
      /\ SingleMedian(v).value_f = v
  BY DEF SingleMedian
<1>3. SingleMedian(v) \in MedianType
  BY <1>1 DEF SingleMedian, MedianType
<1>4. OneMedian(lo, hi, SingleMedian(v), 2 * Len(lo) + 1)
  BY <1>2 DEF OneMedian
<1>5. 2 * Len(lo) + 1 > 0
  BY <1>1
<1>6. QED
  BY <1>2, <1>3, <1>4, <1>5 DEF Arranged, Held

(* ... and the median of two values. *)
LEMMA CompositeIsTwo ==
  ASSUME NEW lo \in Seq(Values), InOrder(lo), NEW hi \in Seq(Values), InOrder(hi),
         Len(lo) = Len(hi), Len(lo) >= 1, lo[Len(lo)] <= hi[1],
         NEW v, v = lo[Len(lo)], NEW w, w = hi[1]
  PROVE  /\ Arranged(lo, hi, CompositeMedian(v, w), 2 * Len(lo))
         /\ \A y : Held(lo, hi, CompositeMedian(v, w), 2 * Len(lo), y) = Times(lo, y) + Times(hi, y)
<1>1. v \in Values /\ w \in Values /\ v \in Nat /\ w \in Nat
  BY ValuesAssumption, OrderEnds
<1>2. /\ CompositeMedian(v, w).value2 = v + w /\ CompositeMedian(v, w).is_composite_quartile
      /\ CompositeMedian(v, w).value_f = v /\ CompositeMedian(v, w).value_s = w
  BY DEF CompositeMedian
<1>3. CompositeMedian(v, w) \in MedianType
  BY <1>1 DEF CompositeMedian, MedianType
<1>4. TwoMedians(lo, hi, CompositeMedian(v, w), 2 * Len(lo))
  BY <1>2 DEF TwoMedians
<1>5. \A y : Times(lo, y) \in Nat /\ Times(hi, y) \in Nat
  BY TimesFacts
<1>6. QED
  BY <1>2, <1>3, <1>4, <1>5 DEF Arranged, Held

(* What is known of an arrangement, by the kind of its median.             *)
LEMMA ArrangedFacts ==
  ASSUME NEW lo, NEW hi, NEW m, NEW n, Arranged(lo, hi, m, n)
  PROVE  /\ Len(lo) \in Nat /\ n \in Nat /\ Len(lo) = Len(hi)
         /\ n = 0 <=> NoMedian(lo, hi, m, n)
         /\ n > 0 /\ ~m.is_composite_quartile =>
               /\ OneMedian(lo, hi, m, n)
               /\ m.value_f \in Nat
         /\ m.is_composite_quartile =>
               /\ n > 0 /\ TwoMedians(lo, hi, m, n)
               /\ m.value_f \in Values /\ m.value_s \in Values
               /\ m.value_f \in Nat /\ m.value_s \in Nat
               /\ AtMost(lo, m.value_f)
               /\ AtLeast(hi, m.value_s)
         /\ \A y : Times(lo, y) \in Nat /\ Times(hi, y) \in Nat
<1>1. /\ lo \in Seq(Values) /\ InOrder(lo) /\ hi \in Seq(Values) /\ InOrder(hi)
      /\ Len(lo) = Len(hi) /\ Len(lo) \in Nat
  BY SampleSeq DEF Arranged
<1>2. \A y : Times(lo, y) \in Nat /\ Times(hi, y) \in Nat
  BY <1>1, TimesFacts
<1>3. CASE NoMedian(lo, hi, m, n)
  BY <1>1, <1>2, <1>3 DEF NoMedian
<1>4. CASE OneMedian(lo, hi, m, n)
  <2>1. n = 2 * Len(lo) + 1 /\ ~m.is_composite_quartile /\ m.value_f \in Nat
    BY <1>4, ValuesAssumption DEF OneMedian
  <2>2. n \in Nat /\ n > 0 /\ n # 0
    BY <1>1, <2>1
  <2>3. ~NoMedian(lo, hi, m, n)
    BY <2>2 DEF NoMedian
  <2>4. QED
    BY <1>1, <1>2, <1>4, <2>1, <2>2, <2>3
<1>5. CASE TwoMedians(lo, hi, m, n)
  <2>1. /\ n > 0 /\ n \in Nat /\ n # 0 /\ m.is_composite_quartile /\ Len(lo) >= 1
        /\ m.value_f = lo[Len(lo)] /\ m.value_s = hi[1]
    BY <1>1, <1>5 DEF TwoMedians
  <2>2. /\ lo[Len(lo)] \in Values /\ hi[1] \in Values
        /\ AtMost(lo, lo[Len(lo)])
        /\ AtLeast(hi, hi[1])
    <3>1. Len(hi) >= 1
      BY <1>1, <2>1
    <3>2. QED
      BY <1>1, <2>1, <3>1, OrderEnds
  <2>3. m.value_f \in Nat /\ m.value_s \in Nat
    BY <2>1, <2>2, ValuesAssumption
  <2>4. QED
    BY <1>1, <1>2, <1>5, <2>1, <2>2, <2>3 DEF NoMedian
<1>6. QED
  BY <1>3, <1>4, <1>5 DEF Arranged

--------------------------------------------------------------------------------
(* Samples that move between a multiset and the median *)

(* t holds what s holds, and x. *)
HoldsAlso(s, x, t) ==
    /\ Len(t) = Len(s) + 1
    /\ \A y : Times(t, y) = Times(s, y) + (IF x = y THEN 1 ELSE 0)
    /\ \A b : AtMost(t, b) <=> x <= b /\ AtMost(s, b)
    /\ \A b : AtLeast(t, b) <=> x >= b /\ AtLeast(s, b)

(* A grown sequence holds what it held, and its new element.              *)
LEMMA GrownHoldsAlso ==
  ASSUME NEW s \in Seq(Values), NEW t \in Seq(Values), NEW x, Grown(s, x, t)
  PROVE  HoldsAlso(s, x, t)
  BY GrownElements, GrownBounds, TimesGrown DEF HoldsAlso

(* A multiset gets one more sample. *)
LEMMA Added ==
  ASSUME NEW h, IsHalf(h), NEW x \in Values
  PROVE  /\ IsHalf(AddQuartile(h, x))
         /\ HoldsAlso(h.set, x, AddQuartile(h, x).set)
  BY AddHalf, GrownHoldsAlso DEF IsHalf

(* A multiset loses one of its samples. *)
LEMMA Removed ==
  ASSUME NEW h, IsHalf(h), NEW x, Times(h.set, x) # 0
  PROVE  /\ IsHalf(RemoveQuartile(h, x))
         /\ HoldsAlso(RemoveQuartile(h, x).set, x, h.set)
<1>1. Times(h.set, x) \in Nat
  BY TimesFacts DEF IsHalf
<1>2. Times(h.set, x) > 0
  BY <1>1
<1>3. QED
  BY <1>2, RemoveHalf, GrownHoldsAlso DEF IsHalf

(* The ends of a multiset that is not empty. *)
LEMMA Ends ==
  ASSUME NEW h, IsHalf(h), Len(h.set) >= 1
  PROVE  /\ Largest(h) = h.set[Len(h.set)] /\ Largest(h) \in Values
         /\ Times(h.set, Largest(h)) # 0
         /\ AtMost(h.set, Largest(h))
         /\ \A b : AtMost(h.set, b) => Largest(h) <= b
         /\ Smallest(h) = h.set[1] /\ Smallest(h) \in Values
         /\ Times(h.set, Smallest(h)) # 0
         /\ AtLeast(h.set, Smallest(h))
         /\ \A b : AtLeast(h.set, b) => Smallest(h) >= b
<1> DEFINE s == h.set
<1>1. s \in Seq(Values) /\ InOrder(s)
  BY DEF IsHalf
<1>2. Largest(h) = Last(s) /\ Smallest(h) = Head(s)
  BY DEF Largest, Smallest
<1>3. Len(s) >= 1
  OBVIOUS
<1> HIDE DEF s
<1>4. Len(s) \in Nat /\ 1 \in 1 .. Len(s) /\ Len(s) \in 1 .. Len(s)
  BY <1>1, <1>3, SampleSeq
<1>5. Times(s, s[1]) # 0 /\ Times(s, s[Len(s)]) # 0
  BY <1>1, <1>4, TimesFacts
<1>6. QED
  BY <1>1, <1>2, <1>3, <1>5, OrderEnds DEF s

(* The sample that bounds the others and comes in last is at the end.      *)
LEMMA EndReached ==
  ASSUME NEW h, IsHalf(h), Len(h.set) >= 1, NEW s, NEW v \in Values, HoldsAlso(s, v, h.set)
  PROVE  /\ AtMost(s, v) => v = h.set[Len(h.set)]
         /\ AtLeast(s, v) => v = h.set[1]
<1>1. v \in Nat /\ v <= v /\ v >= v
  BY ValuesAssumption
<1>2. /\ Largest(h) = h.set[Len(h.set)] /\ Largest(h) \in Values /\ AtMost(h.set, Largest(h))
      /\ Smallest(h) = h.set[1] /\ Smallest(h) \in Values /\ AtLeast(h.set, Smallest(h))
      /\ \A b : AtMost(h.set, b) => Largest(h) <= b
      /\ \A b : AtLeast(h.set, b) => Smallest(h) >= b
  BY Ends
<1>3. Largest(h) \in Nat /\ Smallest(h) \in Nat
  BY <1>2, ValuesAssumption
<1>4. ASSUME AtMost(s, v) PROVE v = Largest(h)
  <2>1. AtMost(h.set, v)
    BY <1>1, <1>4 DEF HoldsAlso
  <2>2. Largest(h) <= v /\ v <= Largest(h)
    BY <1>2, <2>1 DEF HoldsAlso
  <2>3. QED
    BY <1>1, <1>3, <2>2
<1>5. ASSUME AtLeast(s, v) PROVE v = Smallest(h)
  <2>1. AtLeast(h.set, v)
    BY <1>1, <1>5 DEF HoldsAlso
  <2>2. Smallest(h) >= v /\ v >= Smallest(h)
    BY <1>2, <2>1 DEF HoldsAlso
  <2>3. QED
    BY <1>1, <1>3, <2>2
<1>6. QED
  BY <1>2, <1>4, <1>5

--------------------------------------------------------------------------------
(* What the calls do to the arrangement *)

BagInv ==
    /\ IsHalf(First)
    /\ IsHalf(Third)
    /\ Arranged(first_quartile_set, third_quartile_set, median, sample_count)

InBag(y) == Held(first_quartile_set, third_quartile_set, median, sample_count, y)

(* A call leaves what it computed.                                         *)
LEMMA BecomeFacts ==
  ASSUME NEW f, NEW m, NEW t, Become(f, m, t)
  PROVE  /\ first_quartile_set' = f.set /\ third_quartile_set' = t.set /\ median' = m
         /\ q1' = f.q /\ q3' = t.q
         /\ IsHalf(f) => IsHalf(First)'
         /\ IsHalf(t) => IsHalf(Third)'
         /\ crashed' \in BOOLEAN
<1>1. /\ first_quartile_set' = f.set /\ third_quartile_set' = t.set /\ median' = m
      /\ q1' = f.q /\ q3' = t.q
  BY DEF Become
<1>2. crashed' \in BOOLEAN
  BY DEF Become
<1>3. First'.set = f.set /\ First'.q = f.q /\ Third'.set = t.set /\ Third'.q = t.q
  BY <1>1, HalfFields DEF First, Third
<1>4. QED
  BY <1>1, <1>2, <1>3 DEF IsHalf

(* What it computed holds the samples, if it is an arrangement.            *)
LEMMA BecomeArranged ==
  ASSUME NEW f, NEW m, NEW t, Become(f, m, t), IsHalf(f), IsHalf(t),
         Arranged(f.set, t.set, m, sample_count')
  PROVE  /\ BagInv'
         /\ \A y : InBag(y)' = Held(f.set, t.set, m, sample_count', y)
  BY BecomeFacts DEF BagInv, InBag

(* One median, from the two halves that a call computes.                   *)
LEMMA BecomeSingle ==
  ASSUME NEW f, NEW t, NEW v \in Values, Become(f, SingleMedian(v), t), IsHalf(f), IsHalf(t),
         Len(f.set) = Len(t.set), sample_count' = 2 * Len(f.set) + 1,
         AtMost(f.set, v),
         AtLeast(t.set, v)
  PROVE  /\ BagInv'
         /\ \A y : InBag(y)' = Times(f.set, y) + Times(t.set, y) + (IF v = y THEN 1 ELSE 0)
<1>1. /\ Arranged(f.set, t.set, SingleMedian(v), 2 * Len(f.set) + 1)
      /\ \A y : Held(f.set, t.set, SingleMedian(v), 2 * Len(f.set) + 1, y)
                = Times(f.set, y) + Times(t.set, y) + (IF v = y THEN 1 ELSE 0)
  BY SingleIsOne DEF IsHalf
<1>2. QED
  BY <1>1, BecomeArranged

(* Two medians, likewise. *)
LEMMA BecomeComposite ==
  ASSUME NEW f, NEW t, NEW v, NEW w, Become(f, CompositeMedian(v, w), t), IsHalf(f), IsHalf(t),
         Len(f.set) = Len(t.set), Len(f.set) >= 1, sample_count' = 2 * Len(f.set),
         v = f.set[Len(f.set)], w = t.set[1], v <= w
  PROVE  /\ BagInv'
         /\ \A y : InBag(y)' = Times(f.set, y) + Times(t.set, y)
<1>1. f.set[Len(f.set)] <= t.set[1]
  OBVIOUS
<1>2. /\ Arranged(f.set, t.set, CompositeMedian(v, w), 2 * Len(f.set))
      /\ \A y : Held(f.set, t.set, CompositeMedian(v, w), 2 * Len(f.set), y)
                = Times(f.set, y) + Times(t.set, y)
  BY <1>1, CompositeIsTwo DEF IsHalf
<1>3. QED
  BY <1>2, BecomeArranged

(* The two halves before a call. *)
LEMMA BagFacts ==
  ASSUME BagInv
  PROVE  /\ IsHalf(First) /\ IsHalf(Third)
         /\ First.set = first_quartile_set /\ Third.set = third_quartile_set
         /\ Len(First.set) \in Nat /\ Len(Third.set) = Len(First.set)
         /\ sample_count \in Nat
         /\ \A y : /\ Times(First.set, y) \in Nat /\ Times(Third.set, y) \in Nat
                   /\ InBag(y) = Times(First.set, y) + Times(Third.set, y)
                        + (IF sample_count > 0 /\ ~median.is_composite_quartile /\ median.value_f = y
                           THEN 1 ELSE 0)
<1>1. First.set = first_quartile_set /\ Third.set = third_quartile_set
  BY HalfFields DEF First, Third
<1>2. QED
  BY <1>1, ArrangedFacts DEF BagInv, InBag, Held

(* The medians before a call. *)
LEMMA PairFacts ==
  ASSUME BagInv, median.is_composite_quartile
  PROVE  /\ sample_count = 2 * Len(First.set) /\ Len(First.set) >= 1
         /\ median.value_f = First.set[Len(First.set)] /\ median.value_s = Third.set[1]
         /\ median.value_f \in Values /\ median.value_s \in Values
         /\ median.value_f \in Nat /\ median.value_s \in Nat /\ median.value_f <= median.value_s
         /\ AtMost(First.set, median.value_f)
         /\ AtLeast(Third.set, median.value_s)
         /\ \A y : InBag(y) = Times(First.set, y) + Times(Third.set, y)
  BY BagFacts, ArrangedFacts DEF BagInv, TwoMedians

(* ... if it is one of them. *)
LEMMA SingleFacts ==
  ASSUME BagInv, sample_count > 0, ~median.is_composite_quartile
  PROVE  /\ sample_count = 2 * Len(First.set) + 1
         /\ median.value_f \in Values /\ median.value_f \in Nat
         /\ AtMost(First.set, median.value_f)
         /\ AtLeast(Third.set, median.value_f)
         /\ \A y : InBag(y) = Times(First.set, y) + Times(Third.set, y)
                              + (IF median.value_f = y THEN 1 ELSE 0)
  BY BagFacts, ArrangedFacts DEF BagInv, OneMedian

(* Bounds carry over. *)
LEMMA BoundsTransitive ==
  ASSUME NEW s \in Seq(Values), NEW a \in Nat, NEW b \in Nat
  PROVE  /\ a <= b /\ AtMost(s, a) => AtMost(s, b)
         /\ a <= b /\ AtLeast(s, b) => AtLeast(s, a)
<1>1. \A i \in 1 .. Len(s) : s[i] \in Nat
  BY SampleSeq
<1>2. QED
  BY <1>1 DEF AtMost, AtLeast

(* An addition to an even number of samples makes the middle one the       *)
(* median.                                                                 *)
LEMMA AddToPairArranges ==
  ASSUME BagInv, median.is_composite_quartile, NEW x \in Values, AddToPair(x),
         sample_count' = sample_count + 1
  PROVE  BagInv' /\ \A y : InBag(y)' = InBag(y) + (IF x = y THEN 1 ELSE 0)
<1> DEFINE low  == AddQuartile(First, x)
           high == AddQuartile(Third, x)
           a == median.value_f
           b == median.value_s
<1>1. /\ IsHalf(First) /\ IsHalf(Third) /\ Len(Third.set) = Len(First.set) /\ Len(First.set) \in Nat
      /\ \A y : Times(First.set, y) \in Nat /\ Times(Third.set, y) \in Nat
  BY BagFacts
<1>2. /\ sample_count = 2 * Len(First.set) /\ Len(First.set) >= 1
      /\ a \in Nat /\ b \in Nat /\ a <= b
      /\ AtMost(First.set, a)
      /\ AtLeast(Third.set, b)
      /\ \A y : InBag(y) = Times(First.set, y) + Times(Third.set, y)
  BY PairFacts
<1>3. /\ IsHalf(low) /\ HoldsAlso(First.set, x, low.set)
      /\ IsHalf(high) /\ HoldsAlso(Third.set, x, high.set)
  BY <1>1, Added
<1>4. x \in Nat
  BY ValuesAssumption
<1>5. CASE x < a
  <2> DEFINE v == Largest(low)
             f == RemoveQuartile(low, v)
  <2>1. Become(f, SingleMedian(v), Third)
    BY <1>5 DEF AddToPair
  <2> HIDE DEF low, a, b
  <2>2. Len(low.set) = Len(First.set) + 1 /\ Len(low.set) >= 1
    BY <1>1, <1>3 DEF HoldsAlso
  <2>3. /\ v \in Values /\ Times(low.set, v) # 0
        /\ AtMost(low.set, v)
    BY <1>3, <2>2, Ends
  <2>4. IsHalf(f) /\ HoldsAlso(f.set, v, low.set)
    BY <1>3, <2>3, Removed
  <2>5. v <= a
    <3>1. x <= a
      BY <1>2, <1>4, <1>5
    <3>2. AtMost(low.set, a)
      BY <1>2, <1>3, <3>1 DEF HoldsAlso
    <3>3. QED
      BY <1>3, <2>2, <3>2, Ends
  <2> HIDE DEF f, v
  <2>6. v \in Nat
    BY <2>3, ValuesAssumption
  <2>7. AtMost(f.set, v)
    BY <2>3, <2>4 DEF HoldsAlso
  <2>8. AtLeast(Third.set, v)
    BY <1>1, <1>2, <2>5, <2>6, BoundsTransitive DEF IsHalf
  <2>9. Len(f.set) = Len(First.set)
    BY <1>1, <2>2, <2>4, SampleSeq DEF HoldsAlso, IsHalf
  <2>10. sample_count' = 2 * Len(f.set) + 1 /\ Len(f.set) = Len(Third.set)
    BY <1>1, <1>2, <2>9
  <2>11. /\ BagInv'
         /\ \A y : InBag(y)' = Times(f.set, y) + Times(Third.set, y) + (IF v = y THEN 1 ELSE 0)
    BY <1>1, <2>1, <2>3, <2>4, <2>7, <2>8, <2>10, BecomeSingle
  <2>12. ASSUME NEW y PROVE InBag(y)' = InBag(y) + (IF x = y THEN 1 ELSE 0)
    <3>1. /\ Times(low.set, y) = Times(First.set, y) + (IF x = y THEN 1 ELSE 0)
          /\ Times(low.set, y) = Times(f.set, y) + (IF v = y THEN 1 ELSE 0)
      BY <1>3, <2>4 DEF HoldsAlso
    <3>2. Times(f.set, y) \in Nat
      BY <2>4, TimesFacts DEF IsHalf
    <3>3. QED
      BY <1>1, <1>2, <2>11, <3>1, <3>2
  <2>13. QED
    BY <2>11, <2>12
<1>6. CASE ~(x < a) /\ x >= b
  <2> DEFINE v == Smallest(high)
             t == RemoveQuartile(high, v)
  <2>1. Become(First, SingleMedian(v), t)
    BY <1>6 DEF AddToPair
  <2> HIDE DEF high, a, b
  <2>2. Len(high.set) = Len(Third.set) + 1 /\ Len(high.set) >= 1
    BY <1>1, <1>3 DEF HoldsAlso
  <2>3. /\ v \in Values /\ Times(high.set, v) # 0
        /\ AtLeast(high.set, v)
    BY <1>3, <2>2, Ends
  <2>4. IsHalf(t) /\ HoldsAlso(t.set, v, high.set)
    BY <1>3, <2>3, Removed
  <2>5. v >= b
    <3>1. AtLeast(high.set, b)
      BY <1>2, <1>3, <1>6 DEF HoldsAlso
    <3>2. QED
      BY <1>3, <2>2, <3>1, Ends
  <2> HIDE DEF t, v
  <2>6. v \in Nat /\ a <= v
    BY <1>2, <2>3, <2>5, ValuesAssumption
  <2>7. AtLeast(t.set, v)
    BY <2>3, <2>4 DEF HoldsAlso
  <2>8. AtMost(First.set, v)
    BY <1>1, <1>2, <2>6, BoundsTransitive DEF IsHalf
  <2>9. Len(t.set) = Len(Third.set)
    BY <1>1, <2>2, <2>4, SampleSeq DEF HoldsAlso, IsHalf
  <2>10. sample_count' = 2 * Len(First.set) + 1 /\ Len(First.set) = Len(t.set)
    BY <1>1, <1>2, <2>9
  <2>11. /\ BagInv'
         /\ \A y : InBag(y)' = Times(First.set, y) + Times(t.set, y) + (IF v = y THEN 1 ELSE 0)
    BY <1>1, <2>1, <2>3, <2>4, <2>7, <2>8, <2>10, BecomeSingle
  <2>12. ASSUME NEW y PROVE InBag(y)' = InBag(y) + (IF x = y THEN 1 ELSE 0)
    <3>1. /\ Times(high.set, y) = Times(Third.set, y) + (IF x = y THEN 1 ELSE 0)
          /\ Times(high.set, y) = Times(t.set, y) + (IF v = y THEN 1 ELSE 0)
      BY <1>3, <2>4 DEF HoldsAlso
    <3>2. Times(t.set, y) \in Nat /\ Times(First.set, y) \in Nat /\ Times(Third.set, y) \in Nat
      BY <1>1, <2>4, TimesFacts DEF IsHalf
    <3>3. /\ InBag(y)' = Times(First.set, y) + Times(t.set, y) + (IF v = y THEN 1 ELSE 0)
          /\ InBag(y) = Times(First.set, y) + Times(Third.set, y)
      BY <1>2, <2>11
    <3>4. QED
      BY <3>1, <3>2, <3>3
  <2>13. QED
    BY <2>11, <2>12
<1>7. CASE ~(x < a) /\ ~(x >= b)
  <2>1. Become(First, SingleMedian(x), Third)
    BY <1>7 DEF AddToPair
  <2> HIDE DEF a, b
  <2>2. a <= x /\ x <= b
    BY <1>2, <1>4, <1>7
  <2>3. AtMost(First.set, x)
    BY <1>1, <1>2, <1>4, <2>2, BoundsTransitive DEF IsHalf
  <2>4. AtLeast(Third.set, x)
    BY <1>1, <1>2, <1>4, <2>2, BoundsTransitive DEF IsHalf
  <2>5. /\ BagInv'
        /\ \A y : InBag(y)' = Times(First.set, y) + Times(Third.set, y) + (IF x = y THEN 1 ELSE 0)
    BY <1>1, <1>2, <2>1, <2>3, <2>4, BecomeSingle
  <2>6. QED
    BY <1>2, <2>5
<1>8. QED
  BY <1>5, <1>6, <1>7

(* An addition to an odd number of samples makes two medians of the old    *)
(* one and of its new neighbour.                                           *)
LEMMA AddToSingleArranges ==
  ASSUME BagInv, sample_count > 0, ~median.is_composite_quartile, NEW x \in Values, AddToSingle(x),
         sample_count' = sample_count + 1
  PROVE  BagInv' /\ \A y : InBag(y)' = InBag(y) + (IF x = y THEN 1 ELSE 0)
<1> DEFINE m == median.value_f
<1>1. /\ IsHalf(First) /\ IsHalf(Third) /\ Len(Third.set) = Len(First.set) /\ Len(First.set) \in Nat
      /\ \A y : Times(First.set, y) \in Nat /\ Times(Third.set, y) \in Nat
  BY BagFacts
<1>2. /\ sample_count = 2 * Len(First.set) + 1
      /\ m \in Values /\ m \in Nat
      /\ AtMost(First.set, m) /\ AtLeast(Third.set, m)
      /\ \A y : InBag(y) = Times(First.set, y) + Times(Third.set, y) + (IF m = y THEN 1 ELSE 0)
  BY SingleFacts
<1>3. x \in Nat
  BY ValuesAssumption
<1>4. CASE x >= m
  <2> DEFINE f == AddQuartile(First, m)
             t == AddQuartile(Third, x)
  <2>1. Become(f, CompositeMedian(m, Smallest(t)), t)
    BY <1>4 DEF AddToSingle
  <2>2. IsHalf(f) /\ HoldsAlso(First.set, m, f.set) /\ IsHalf(t) /\ HoldsAlso(Third.set, x, t.set)
    BY <1>1, <1>2, Added
  <2> HIDE DEF f, t, m
  <2>3. Len(f.set) = Len(First.set) + 1 /\ Len(t.set) = Len(f.set) /\ Len(f.set) >= 1
    BY <1>1, <2>2 DEF HoldsAlso
  <2>4. m = f.set[Len(f.set)]
    BY <1>2, <2>2, <2>3, EndReached
  <2>5. Smallest(t) = t.set[1] /\ m <= Smallest(t)
    <3>1. AtLeast(t.set, m)
      BY <1>2, <1>4, <2>2 DEF HoldsAlso
    <3>2. Smallest(t) >= m /\ Smallest(t) \in Values /\ Smallest(t) = t.set[1]
      BY <2>2, <2>3, <3>1, Ends
    <3>3. Smallest(t) \in Nat
      BY <3>2, ValuesAssumption
    <3>4. QED
      BY <1>2, <3>2, <3>3
  <2>6. sample_count' = 2 * Len(f.set)
    BY <1>1, <1>2, <2>3
  <2>7. BagInv' /\ \A y : InBag(y)' = Times(f.set, y) + Times(t.set, y)
    BY <2>1, <2>2, <2>3, <2>4, <2>5, <2>6, BecomeComposite
  <2>8. ASSUME NEW y PROVE InBag(y)' = InBag(y) + (IF x = y THEN 1 ELSE 0)
    <3>1. /\ Times(f.set, y) = Times(First.set, y) + (IF m = y THEN 1 ELSE 0)
          /\ Times(t.set, y) = Times(Third.set, y) + (IF x = y THEN 1 ELSE 0)
      BY <2>2 DEF HoldsAlso
    <3>2. QED
      BY <1>1, <1>2, <2>7, <3>1
  <2>9. QED
    BY <2>7, <2>8
<1>5. CASE ~(x >= m)
  <2> DEFINE f == AddQuartile(First, x)
             t == AddQuartile(Third, m)
  <2>1. Become(f, CompositeMedian(Largest(f), m), t)
    BY <1>5 DEF AddToSingle
  <2>2. IsHalf(f) /\ HoldsAlso(First.set, x, f.set) /\ IsHalf(t) /\ HoldsAlso(Third.set, m, t.set)
    BY <1>1, <1>2, Added
  <2> HIDE DEF f, t, m
  <2>3. Len(f.set) = Len(First.set) + 1 /\ Len(t.set) = Len(f.set) /\ Len(f.set) >= 1
    BY <1>1, <2>2 DEF HoldsAlso
  <2>4. m = t.set[1]
    <3>1. Len(t.set) >= 1
      BY <2>3
    <3>2. QED
      BY <1>2, <2>2, <3>1, EndReached
  <2>5. Largest(f) = f.set[Len(f.set)] /\ Largest(f) <= m
    <3>1. x <= m
      BY <1>2, <1>3, <1>5
    <3>2. AtMost(f.set, m)
      BY <1>2, <2>2, <3>1 DEF HoldsAlso
    <3>3. QED
      BY <2>2, <2>3, <3>2, Ends
  <2>6. sample_count' = 2 * Len(f.set)
    BY <1>1, <1>2, <2>3
  <2>7. BagInv' /\ \A y : InBag(y)' = Times(f.set, y) + Times(t.set, y)
    BY <2>1, <2>2, <2>3, <2>4, <2>5, <2>6, BecomeComposite
  <2>8. ASSUME NEW y PROVE InBag(y)' = InBag(y) + (IF x = y THEN 1 ELSE 0)
    <3>1. /\ Times(f.set, y) = Times(First.set, y) + (IF x = y THEN 1 ELSE 0)
          /\ Times(t.set, y) = Times(Third.set, y) + (IF m = y THEN 1 ELSE 0)
      BY <2>2 DEF HoldsAlso
    <3>2. QED
      BY <1>1, <1>2, <2>7, <3>1
  <2>9. QED
    BY <2>7, <2>8
<1>6. QED
  BY <1>4, <1>5

(* A multiset of none and of one. *)
LEMMA SmallSets ==
  ASSUME NEW s \in Seq(Values)
  PROVE  /\ Len(s) = 0 => /\ \A y : Times(s, y) = 0
                          /\ \A b : AtMost(s, b) /\ AtLeast(s, b)
         /\ Len(s) = 1 => \A y : Times(s, y) = IF s[1] = y THEN 1 ELSE 0
<1>1. DOMAIN s = 1 .. Len(s) /\ Len(s) \in Nat
  BY SampleSeq
<1>2. ASSUME Len(s) = 0, NEW y PROVE Times(s, y) = 0
  <2>1. \A i \in 1 .. Len(s) : s[i] # y
    BY <1>2
  <2>2. QED
    BY <2>1, TimesFacts
<1>3. ASSUME Len(s) = 0 PROVE \A b : AtMost(s, b) /\ AtLeast(s, b)
  BY <1>3 DEF AtMost, AtLeast
<1>4. ASSUME Len(s) = 1, NEW y PROVE Times(s, y) = IF s[1] = y THEN 1 ELSE 0
  <2>1. {i \in DOMAIN s : s[i] = y} = IF s[1] = y THEN {1} ELSE {}
    BY <1>1, <1>4
  <2>2. QED
    BY <2>1, FS_Singleton, FS_EmptySet DEF Times
<1>5. QED
  BY <1>2, <1>3, <1>4

(* ... and with their quartiles. *)
LEMMA SmallHalves ==
  ASSUME NEW v \in Values
  PROVE  /\ IsHalf(Only(v)) /\ Len(Only(v).set) = 1 /\ Only(v).set[1] = v
         /\ IsHalf(Empty(v)) /\ Len(Empty(v).set) = 0
<1>1. v \in Nat
  BY ValuesAssumption
<1>2. Only(v).set = <<v>> /\ Only(v).q = On(<<v>>, 1) /\ Empty(v).set = <<>> /\ Empty(v).q = NoQuartile(v)
  BY HalfFields DEF Only, Empty
<1>3. <<v>> \in Seq(Values) /\ Len(<<v>>) = 1 /\ <<v>>[1] = v /\ <<>> \in Seq(Values) /\ Len(<<>>) = 0
  OBVIOUS
<1>4. InOrder(<<v>>) /\ InOrder(<<>>)
  BY <1>1, <1>3 DEF InOrder
<1>5. On(<<v>>, 1) \in QuartileType(<<v>>) /\ NoQuartile(v) \in QuartileType(<<>>)
  BY <1>1, <1>3, QuartileTypes
<1>6. QED
  BY <1>2, <1>3, <1>4, <1>5 DEF IsHalf

(* add_sample puts one more of its sample into the bag.                    *)
LEMMA AddArranges ==
  ASSUME BagInv, NEW x \in Values, AddSample(x)
  PROVE  BagInv' /\ \A y : InBag(y)' = InBag(y) + (IF x = y THEN 1 ELSE 0)
<1>1. /\ IsHalf(First) /\ IsHalf(Third) /\ Len(Third.set) = Len(First.set) /\ Len(First.set) \in Nat
      /\ First.set = first_quartile_set /\ Third.set = third_quartile_set
      /\ sample_count \in Nat
      /\ \A y : Times(First.set, y) \in Nat /\ Times(Third.set, y) \in Nat
  BY BagFacts
<1>2. sample_count' = sample_count + 1 /\ x \in Nat
  BY ValuesAssumption DEF AddSample
<1>3. sample_count = 0 => NoMedian(first_quartile_set, third_quartile_set, median, sample_count)
  BY ArrangedFacts DEF BagInv
<1>4. CASE sample_count = 0
  <2> DEFINE f == Half(first_quartile_set, NoQuartile(x))
             t == Half(third_quartile_set, NoQuartile(x))
  <2>1. Become(f, SingleMedian(x), t)
    BY <1>4 DEF AddSample
  <2>2. /\ f.set = First.set /\ t.set = Third.set /\ f.q = NoQuartile(x) /\ t.q = NoQuartile(x)
        /\ First.set \in Seq(Values) /\ InOrder(First.set)
        /\ Third.set \in Seq(Values) /\ InOrder(Third.set)
    BY <1>1, HalfFields DEF IsHalf
  <2> HIDE DEF f, t
  <2>3. IsHalf(f) /\ IsHalf(t)
    BY <1>2, <2>2, QuartileTypes DEF IsHalf
  <2>4. Len(First.set) = 0 /\ Len(Third.set) = 0 /\ ~(sample_count > 0)
    BY <1>1, <1>3, <1>4 DEF NoMedian
  <2>5. /\ \A y : Times(First.set, y) = 0 /\ Times(Third.set, y) = 0
        /\ AtMost(First.set, x) /\ AtLeast(Third.set, x)
    BY <2>2, <2>4, SmallSets
  <2>6. sample_count' = 2 * Len(f.set) + 1 /\ Len(f.set) = Len(t.set)
    BY <1>2, <1>4, <2>2, <2>4
  <2>7. BagInv' /\ \A y : InBag(y)' = Times(f.set, y) + Times(t.set, y) + (IF x = y THEN 1 ELSE 0)
    BY <2>1, <2>2, <2>3, <2>5, <2>6, BecomeSingle
  <2>8. \A y : InBag(y) = 0
    BY <2>4, <2>5, BagFacts
  <2>9. QED
    BY <2>2, <2>5, <2>7, <2>8
<1>5. CASE sample_count = 1
  <2>1. ~median.is_composite_quartile /\ sample_count > 0
    <3>1. sample_count # 2 * Len(First.set)
      BY <1>1, <1>5
    <3>2. QED
      BY <1>5, <3>1, PairFacts
  <2> DEFINE m == median.value_f
             lo == IF x < m THEN x ELSE m
             hi == IF x < m THEN m ELSE x
  <2>2. /\ sample_count = 2 * Len(First.set) + 1 /\ m \in Values /\ m \in Nat
        /\ \A y : InBag(y) = Times(First.set, y) + Times(Third.set, y) + (IF m = y THEN 1 ELSE 0)
    BY <2>1, SingleFacts
  <2>3. Become(Only(lo), CompositeMedian(lo, hi), Only(hi))
    BY <1>5 DEF AddSample
  <2> HIDE DEF m
  <2>4. /\ lo \in Values /\ hi \in Values /\ lo <= hi
        /\ \A y : (IF lo = y THEN 1 ELSE 0) + (IF hi = y THEN 1 ELSE 0)
                  = (IF m = y THEN 1 ELSE 0) + (IF x = y THEN 1 ELSE 0)
    BY <1>2, <2>2
  <2> HIDE DEF lo, hi
  <2>5. /\ IsHalf(Only(lo)) /\ Len(Only(lo).set) = 1 /\ Only(lo).set[1] = lo
        /\ IsHalf(Only(hi)) /\ Len(Only(hi).set) = 1 /\ Only(hi).set[1] = hi
    BY <2>4, SmallHalves
  <2>6. Len(First.set) = 0 /\ Len(Third.set) = 0
    BY <1>1, <1>5, <2>2
  <2>7. /\ \A y : Times(First.set, y) = 0 /\ Times(Third.set, y) = 0
        /\ \A y : Times(Only(lo).set, y) = IF lo = y THEN 1 ELSE 0
        /\ \A y : Times(Only(hi).set, y) = IF hi = y THEN 1 ELSE 0
    BY <1>1, <2>5, <2>6, SmallSets DEF IsHalf
  <2>8. sample_count' = 2 * Len(Only(lo).set)
    BY <1>2, <1>5, <2>5
  <2>9. BagInv' /\ \A y : InBag(y)' = Times(Only(lo).set, y) + Times(Only(hi).set, y)
    BY <2>3, <2>4, <2>5, <2>8, BecomeComposite
  <2>10. ASSUME NEW y PROVE InBag(y)' = InBag(y) + (IF x = y THEN 1 ELSE 0)
    <3>1. InBag(y)' = (IF lo = y THEN 1 ELSE 0) + (IF hi = y THEN 1 ELSE 0)
      BY <2>7, <2>9
    <3>2. InBag(y) = 0 + 0 + (IF m = y THEN 1 ELSE 0)
      BY <2>2, <2>7 DEF m
    <3>3. QED
      BY <2>4, <3>1, <3>2
  <2>11. QED
    BY <2>9, <2>10
<1>6. CASE sample_count > 1
  <2>1. CASE median.is_composite_quartile
    <3>1. AddToPair(x)
      BY <1>1, <1>6, <2>1 DEF AddSample
    <3>2. QED
      BY <1>2, <2>1, <3>1, AddToPairArranges
  <2>2. CASE ~median.is_composite_quartile
    <3>1. AddToSingle(x) /\ sample_count > 0
      BY <1>1, <1>6, <2>2 DEF AddSample
    <3>2. QED
      BY <1>2, <2>2, <3>1, AddToSingleArranges
  <2>3. QED
    BY <2>1, <2>2
<1>7. QED
  BY <1>1, <1>4, <1>5, <1>6

(* What RemoveThrows lets through is in the multiset that the call looks   *)
(* at.                                                                     *)
LEMMA Admitted ==
  ASSUME NEW x, sample_count \in Nat, sample_count > 2, ~RemoveThrows(x)
  PROVE  /\ median.is_composite_quartile =>
               /\ x <= median.value_f => Times(First.set, x) # 0
               /\ x > median.value_f => x >= median.value_s \/ ~(x < median.value_s)
               /\ x > median.value_f /\ x >= median.value_s => Times(Third.set, x) # 0
         /\ ~median.is_composite_quartile =>
               /\ x > median.value_f => Times(Third.set, x) # 0
               /\ x < median.value_f => Times(First.set, x) # 0
<1>1. sample_count # 0 /\ sample_count # 1 /\ sample_count # 2
  OBVIOUS
<1>2. Times(First.set, x) = Count(First, x) /\ Times(Third.set, x) = Count(Third, x)
  BY DEF Times, Count
<1>3. CASE median.is_composite_quartile
  BY <1>1, <1>2, <1>3 DEF RemoveThrows
<1>4. CASE ~median.is_composite_quartile
  BY <1>1, <1>2, <1>4 DEF RemoveThrows
<1>5. QED
  BY <1>3, <1>4

(* A removal from an even number of samples leaves the median that was on  *)
(* the other side.                                                         *)
LEMMA RemoveFromPairArranges ==
  ASSUME BagInv, median.is_composite_quartile, sample_count > 2, NEW x \in Values,
         ~RemoveThrows(x), RemoveFromPair(x), sample_count' = sample_count - 1
  PROVE  BagInv' /\ \A y : InBag(y) = InBag(y)' + (IF x = y THEN 1 ELSE 0)
<1> DEFINE a == median.value_f
           b == median.value_s
<1>1. /\ IsHalf(First) /\ IsHalf(Third) /\ Len(Third.set) = Len(First.set) /\ Len(First.set) \in Nat
      /\ sample_count \in Nat
  BY BagFacts
<1>2. /\ sample_count = 2 * Len(First.set) /\ Len(First.set) >= 1
      /\ a = First.set[Len(First.set)] /\ b = Third.set[1]
      /\ a \in Values /\ b \in Values /\ a \in Nat /\ b \in Nat /\ a <= b
      /\ AtMost(First.set, a)
      /\ AtLeast(Third.set, b)
      /\ \A y : InBag(y) = Times(First.set, y) + Times(Third.set, y)
  BY PairFacts
<1>3. x \in Nat
  BY ValuesAssumption
<1>4. Times(First.set, a) # 0 /\ Times(Third.set, b) # 0
  BY <1>1, <1>2, Ends
<1>5. /\ x <= a => Times(First.set, x) # 0
      /\ x > a => x >= b \/ ~(x < b)
      /\ x > a /\ x >= b => Times(Third.set, x) # 0
  BY <1>1, Admitted
<1>6. CASE x <= a
  <2> DEFINE f == RemoveQuartile(First, x)
             t == RemoveQuartile(Third, b)
  <2>1. Become(f, SingleMedian(b), t)
    BY <1>6 DEF RemoveFromPair
  <2> HIDE DEF a, b
  <2>2. IsHalf(f) /\ HoldsAlso(f.set, x, First.set) /\ IsHalf(t) /\ HoldsAlso(t.set, b, Third.set)
    BY <1>1, <1>4, <1>5, <1>6, Removed
  <2> HIDE DEF f, t
  <2>3. Len(f.set) \in Nat /\ Len(First.set) = Len(f.set) + 1 /\ Len(t.set) = Len(f.set)
    BY <1>1, <2>2, SampleSeq DEF HoldsAlso, IsHalf
  <2>4. AtMost(f.set, a)
    BY <1>2, <2>2 DEF HoldsAlso
  <2>5. AtMost(f.set, b) /\ AtLeast(t.set, b)
    <3>1. f.set \in Seq(Values)
      BY <2>2 DEF IsHalf
    <3>2. AtMost(f.set, b)
      BY <1>2, <2>4, <3>1, BoundsTransitive
    <3>3. AtLeast(t.set, b)
      BY <1>2, <2>2 DEF HoldsAlso
    <3>4. QED
      BY <3>2, <3>3
  <2>6. sample_count' = 2 * Len(f.set) + 1
    BY <1>1, <1>2, <2>3
  <2>7. BagInv' /\ \A y : InBag(y)' = Times(f.set, y) + Times(t.set, y) + (IF b = y THEN 1 ELSE 0)
    BY <1>2, <2>1, <2>2, <2>3, <2>5, <2>6, BecomeSingle
  <2>8. ASSUME NEW y PROVE InBag(y) = InBag(y)' + (IF x = y THEN 1 ELSE 0)
    <3>1. /\ Times(First.set, y) = Times(f.set, y) + (IF x = y THEN 1 ELSE 0)
          /\ Times(Third.set, y) = Times(t.set, y) + (IF b = y THEN 1 ELSE 0)
      BY <2>2 DEF HoldsAlso
    <3>2. Times(f.set, y) \in Nat /\ Times(t.set, y) \in Nat
      BY <2>2, TimesFacts DEF IsHalf
    <3>3. QED
      BY <1>2, <2>7, <3>1, <3>2
  <2>9. QED
    BY <2>7, <2>8
<1>7. CASE ~(x <= a)
  <2> DEFINE f == RemoveQuartile(First, a)
             t == RemoveQuartile(Third, x)
  <2>1. Become(f, SingleMedian(a), t)
    BY <1>7 DEF RemoveFromPair
  <2>2. Times(Third.set, x) # 0
    <3>1. x > a
      BY <1>2, <1>3, <1>7
    <3>2. x >= b
      BY <1>2, <1>3, <1>5, <3>1
    <3>3. QED
      BY <1>5, <3>1, <3>2
  <2> HIDE DEF a, b
  <2>3. IsHalf(f) /\ HoldsAlso(f.set, a, First.set) /\ IsHalf(t) /\ HoldsAlso(t.set, x, Third.set)
    BY <1>1, <1>4, <2>2, Removed
  <2> HIDE DEF f, t
  <2>4. Len(f.set) \in Nat /\ Len(First.set) = Len(f.set) + 1 /\ Len(t.set) = Len(f.set)
    <3>1. Len(f.set) \in Nat /\ Len(t.set) \in Nat
      BY <2>3, SampleSeq DEF IsHalf
    <3>2. QED
      BY <1>1, <2>3, <3>1 DEF HoldsAlso
  <2>5. AtMost(f.set, a) /\ AtLeast(t.set, a)
    <3>1. t.set \in Seq(Values) /\ AtLeast(t.set, b)
      BY <1>2, <2>3 DEF IsHalf, HoldsAlso
    <3>2. AtLeast(t.set, a)
      BY <1>2, <3>1, BoundsTransitive
    <3>3. AtMost(f.set, a)
      BY <1>2, <2>3 DEF HoldsAlso
    <3>4. QED
      BY <3>2, <3>3
  <2>6. sample_count' = 2 * Len(f.set) + 1
    BY <1>1, <1>2, <2>4
  <2>7. BagInv' /\ \A y : InBag(y)' = Times(f.set, y) + Times(t.set, y) + (IF a = y THEN 1 ELSE 0)
    BY <1>2, <2>1, <2>3, <2>4, <2>5, <2>6, BecomeSingle
  <2>8. ASSUME NEW y PROVE InBag(y) = InBag(y)' + (IF x = y THEN 1 ELSE 0)
    <3>1. /\ Times(First.set, y) = Times(f.set, y) + (IF a = y THEN 1 ELSE 0)
          /\ Times(Third.set, y) = Times(t.set, y) + (IF x = y THEN 1 ELSE 0)
      BY <2>3 DEF HoldsAlso
    <3>2. Times(f.set, y) \in Nat /\ Times(t.set, y) \in Nat
      BY <2>3, TimesFacts DEF IsHalf
    <3>3. QED
      BY <1>2, <2>7, <3>1, <3>2
  <2>9. QED
    BY <2>7, <2>8
<1>8. QED
  BY <1>6, <1>7

(* A removal from an odd number of samples makes two medians again.        *)
LEMMA RemoveFromSingleArranges ==
  ASSUME BagInv, ~median.is_composite_quartile, sample_count > 2, NEW x \in Values,
         ~RemoveThrows(x), RemoveFromSingle(x), sample_count' = sample_count - 1
  PROVE  BagInv' /\ \A y : InBag(y) = InBag(y)' + (IF x = y THEN 1 ELSE 0)
<1> DEFINE m == median.value_f
<1>1. /\ IsHalf(First) /\ IsHalf(Third) /\ Len(Third.set) = Len(First.set) /\ Len(First.set) \in Nat
      /\ sample_count \in Nat /\ sample_count > 0
      /\ \A y : Times(First.set, y) \in Nat /\ Times(Third.set, y) \in Nat
  BY BagFacts
<1>2. /\ sample_count = 2 * Len(First.set) + 1
      /\ m \in Values /\ m \in Nat
      /\ AtMost(First.set, m) /\ AtLeast(Third.set, m)
      /\ \A y : InBag(y) = Times(First.set, y) + Times(Third.set, y) + (IF m = y THEN 1 ELSE 0)
  BY <1>1, SingleFacts
<1>3. x \in Nat /\ Len(First.set) >= 1 /\ Len(Third.set) >= 1
  BY <1>1, <1>2, ValuesAssumption
<1>4. /\ x > m => Times(Third.set, x) # 0
      /\ x < m => Times(First.set, x) # 0
  BY <1>1, Admitted
<1>5. Largest(First) = First.set[Len(First.set)] /\ Largest(First) <= m
  BY <1>1, <1>2, <1>3, Ends
<1>6. Smallest(Third) = Third.set[1] /\ m <= Smallest(Third)
  <2>1. Smallest(Third) >= m /\ Smallest(Third) \in Values /\ Smallest(Third) = Third.set[1]
    BY <1>1, <1>2, <1>3, Ends
  <2>2. Smallest(Third) \in Nat
    BY <2>1, ValuesAssumption
  <2>3. QED
    BY <1>2, <2>1, <2>2
<1>7. CASE x > m
  <2> DEFINE g == RemoveQuartile(Third, x)
             t == AddQuartile(g, m)
  <2>1. Become(First, CompositeMedian(Largest(First), m), t)
    BY <1>7 DEF RemoveFromSingle
  <2>2. IsHalf(g) /\ HoldsAlso(g.set, x, Third.set)
    BY <1>1, <1>4, <1>7, Removed
  <2>3. IsHalf(t) /\ HoldsAlso(g.set, m, t.set)
    BY <1>2, <2>2, Added
  <2> HIDE DEF g, t, m
  <2>4. Len(t.set) = Len(First.set)
    <3>1. Len(g.set) \in Nat
      BY <2>2, SampleSeq DEF IsHalf
    <3>2. QED
      BY <1>1, <2>2, <2>3, <3>1 DEF HoldsAlso
  <2>5. AtLeast(g.set, m)
    BY <1>2, <2>2 DEF HoldsAlso
  <2>6. m = t.set[1]
    BY <1>2, <1>3, <2>3, <2>4, <2>5, EndReached
  <2>7. sample_count' = 2 * Len(First.set)
    BY <1>1, <1>2
  <2>8. BagInv' /\ \A y : InBag(y)' = Times(First.set, y) + Times(t.set, y)
    BY <1>1, <1>3, <1>5, <2>1, <2>3, <2>4, <2>6, <2>7, BecomeComposite
  <2>9. ASSUME NEW y PROVE InBag(y) = InBag(y)' + (IF x = y THEN 1 ELSE 0)
    <3>1. /\ Times(Third.set, y) = Times(g.set, y) + (IF x = y THEN 1 ELSE 0)
          /\ Times(t.set, y) = Times(g.set, y) + (IF m = y THEN 1 ELSE 0)
      BY <2>2, <2>3 DEF HoldsAlso
    <3>2. Times(g.set, y) \in Nat
      BY <2>2, TimesFacts DEF IsHalf
    <3>3. QED
      BY <1>1, <1>2, <2>8, <3>1, <3>2
  <2>10. QED
    BY <2>8, <2>9
<1>8. CASE ~(x > m) /\ x < m
  <2> DEFINE g == RemoveQuartile(First, x)
             f == AddQuartile(g, m)
  <2>1. Become(f, CompositeMedian(m, Smallest(Third)), Third)
    BY <1>8 DEF RemoveFromSingle
  <2>2. IsHalf(g) /\ HoldsAlso(g.set, x, First.set)
    BY <1>1, <1>4, <1>8, Removed
  <2>3. IsHalf(f) /\ HoldsAlso(g.set, m, f.set)
    BY <1>2, <2>2, Added
  <2> HIDE DEF g, f, m
  <2>4. Len(f.set) = Len(First.set)
    <3>1. Len(g.set) \in Nat
      BY <2>2, SampleSeq DEF IsHalf
    <3>2. QED
      BY <1>1, <2>2, <2>3, <3>1 DEF HoldsAlso
  <2>5. AtMost(g.set, m)
    BY <1>2, <2>2 DEF HoldsAlso
  <2>6. m = f.set[Len(f.set)]
    BY <1>2, <1>3, <2>3, <2>4, <2>5, EndReached
  <2>7. sample_count' = 2 * Len(f.set) /\ Len(f.set) = Len(Third.set) /\ Len(f.set) >= 1
    BY <1>1, <1>2, <1>3, <2>4
  <2>8. BagInv' /\ \A y : InBag(y)' = Times(f.set, y) + Times(Third.set, y)
    BY <1>1, <1>6, <2>1, <2>3, <2>6, <2>7, BecomeComposite
  <2>9. ASSUME NEW y PROVE InBag(y) = InBag(y)' + (IF x = y THEN 1 ELSE 0)
    <3>1. /\ Times(First.set, y) = Times(g.set, y) + (IF x = y THEN 1 ELSE 0)
          /\ Times(f.set, y) = Times(g.set, y) + (IF m = y THEN 1 ELSE 0)
      BY <2>2, <2>3 DEF HoldsAlso
    <3>2. Times(g.set, y) \in Nat
      BY <2>2, TimesFacts DEF IsHalf
    <3>3. QED
      BY <1>1, <1>2, <2>8, <3>1, <3>2
  <2>10. QED
    BY <2>8, <2>9
<1>9. CASE ~(x > m) /\ ~(x < m)
  <2>1. Become(First, CompositeMedian(Largest(First), Smallest(Third)), Third)
    BY <1>9 DEF RemoveFromSingle
  <2>2. x = m
    BY <1>2, <1>3, <1>9
  <2>3. sample_count' = 2 * Len(First.set) /\ Largest(First) <= Smallest(Third)
    <3>1. Largest(First) \in Nat /\ Smallest(Third) \in Nat
      BY <1>1, <1>3, Ends, ValuesAssumption
    <3>2. QED
      BY <1>1, <1>2, <1>5, <1>6, <3>1
  <2> HIDE DEF m
  <2>4. BagInv' /\ \A y : InBag(y)' = Times(First.set, y) + Times(Third.set, y)
    BY <1>1, <1>3, <1>5, <1>6, <2>1, <2>3, BecomeComposite
  <2>5. QED
    BY <1>2, <2>2, <2>4
<1>10. QED
  BY <1>7, <1>8, <1>9

(* remove_sample empties a bag of one, and takes its sample out of a       *)
(* greater one, where it is.                                               *)
LEMMA RemoveArranges ==
  ASSUME BagInv, NEW x \in Values, RemoveSample(x)
  PROVE  /\ BagInv' /\ sample_count > 0
         /\ sample_count = 1 => \A y : InBag(y)' = 0
         /\ sample_count > 1 => \A y : InBag(y) = InBag(y)' + (IF x = y THEN 1 ELSE 0)
<1>1. /\ IsHalf(First) /\ IsHalf(Third) /\ Len(Third.set) = Len(First.set) /\ Len(First.set) \in Nat
      /\ First.set = first_quartile_set /\ Third.set = third_quartile_set
      /\ sample_count \in Nat
  BY BagFacts
<1>2. /\ sample_count' = sample_count - 1 /\ ~RemoveThrows(x) /\ sample_count # 0
      /\ x \in Nat
  BY ValuesAssumption DEF RemoveSample, RemoveThrows
<1>3. CASE sample_count = 1
  <2> DEFINE f == Half(first_quartile_set, NoQuartile(0))
             t == Half(third_quartile_set, NoQuartile(0))
             m == SingleMedian(0)
  <2>1. Become(f, m, t)
    BY <1>3 DEF RemoveSample
  <2>2. /\ f.set = First.set /\ t.set = Third.set /\ f.q = NoQuartile(0) /\ t.q = NoQuartile(0)
        /\ First.set \in Seq(Values) /\ InOrder(First.set)
        /\ Third.set \in Seq(Values) /\ InOrder(Third.set)
    BY <1>1, HalfFields DEF IsHalf
  <2>3. m \in MedianType /\ ~m.is_composite_quartile
    BY DEF SingleMedian, MedianType
  <2> HIDE DEF f, t, m
  <2>4. IsHalf(f) /\ IsHalf(t)
    BY <2>2, QuartileTypes DEF IsHalf
  <2>5. Len(First.set) = 0 /\ Len(Third.set) = 0
    <3>1. ~median.is_composite_quartile
      <4>1. sample_count # 2 * Len(First.set)
        BY <1>1, <1>3
      <4>2. QED
        BY <4>1, PairFacts
    <3>2. sample_count = 2 * Len(First.set) + 1
      BY <1>3, <3>1, SingleFacts
    <3>3. QED
      BY <1>1, <1>3, <3>2
  <2>6. sample_count' = 0
    BY <1>2, <1>3
  <2>7. Arranged(f.set, t.set, m, sample_count')
    BY <2>2, <2>3, <2>5, <2>6 DEF Arranged, NoMedian
  <2>8. BagInv' /\ \A y : InBag(y)' = Held(f.set, t.set, m, sample_count', y)
    BY <2>1, <2>4, <2>7, BecomeArranged
  <2>9. \A y : Times(f.set, y) = 0 /\ Times(t.set, y) = 0
    BY <2>2, <2>5, SmallSets
  <2>10. \A y : Held(f.set, t.set, m, sample_count', y) = 0
    BY <2>6, <2>9 DEF Held
  <2>11. QED
    BY <1>3, <2>8, <2>10
<1>4. CASE sample_count = 2
  <2> DEFINE a == median.value_f
             b == median.value_s
             v == IF a = x THEN b ELSE a
  <2>1. median.is_composite_quartile
    <3>1. sample_count # 2 * Len(First.set) + 1
      BY <1>1, <1>4
    <3>2. QED
      BY <1>4, <3>1, SingleFacts
  <2>2. /\ sample_count = 2 * Len(First.set)
        /\ a = First.set[Len(First.set)] /\ b = Third.set[1] /\ a \in Values /\ b \in Values
        /\ \A y : InBag(y) = Times(First.set, y) + Times(Third.set, y)
    BY <2>1, PairFacts
  <2>3. Become(Empty(v), SingleMedian(v), Empty(v))
    BY <1>4 DEF RemoveSample
  <2>4. x = a \/ x = b
    BY <1>2, <1>4 DEF RemoveThrows
  <2> HIDE DEF a, b
  <2>5. v \in Values
    BY <2>2
  <2>6. \A y : (IF a = y THEN 1 ELSE 0) + (IF b = y THEN 1 ELSE 0)
               = (IF v = y THEN 1 ELSE 0) + (IF x = y THEN 1 ELSE 0)
    BY <2>4
  <2> HIDE DEF v
  <2>7. IsHalf(Empty(v)) /\ Len(Empty(v).set) = 0 /\ Empty(v).set \in Seq(Values)
    BY <2>5, SmallHalves DEF IsHalf
  <2>8. /\ \A y : Times(Empty(v).set, y) = 0
        /\ AtMost(Empty(v).set, v) /\ AtLeast(Empty(v).set, v)
    BY <2>7, SmallSets
  <2>9. Len(First.set) = 1 /\ Len(Third.set) = 1
    BY <1>1, <1>4, <2>2
  <2>10. \A y : /\ Times(First.set, y) = (IF a = y THEN 1 ELSE 0)
                /\ Times(Third.set, y) = (IF b = y THEN 1 ELSE 0)
    BY <1>1, <2>2, <2>9, SmallSets DEF IsHalf
  <2>11. sample_count' = 2 * Len(Empty(v).set) + 1
    BY <1>2, <1>4, <2>7
  <2>12. /\ BagInv'
         /\ \A y : InBag(y)' = Times(Empty(v).set, y) + Times(Empty(v).set, y)
                               + (IF v = y THEN 1 ELSE 0)
    BY <2>3, <2>5, <2>7, <2>8, <2>11, BecomeSingle
  <2>13. ASSUME NEW y PROVE InBag(y) = InBag(y)' + (IF x = y THEN 1 ELSE 0)
    <3>1. InBag(y)' = 0 + 0 + (IF v = y THEN 1 ELSE 0)
      BY <2>8, <2>12
    <3>2. InBag(y) = (IF a = y THEN 1 ELSE 0) + (IF b = y THEN 1 ELSE 0)
      BY <2>2, <2>10
    <3>3. QED
      BY <2>6, <3>1, <3>2
  <2>14. QED
    BY <1>4, <2>12, <2>13
<1>5. CASE sample_count > 2
  <2>1. ASSUME median.is_composite_quartile
        PROVE  BagInv' /\ \A y : InBag(y) = InBag(y)' + (IF x = y THEN 1 ELSE 0)
    <3>1. RemoveFromPair(x)
      BY <1>1, <1>5, <2>1 DEF RemoveSample
    <3>2. QED
      BY <1>2, <1>5, <2>1, <3>1, RemoveFromPairArranges
  <2>2. ASSUME ~median.is_composite_quartile
        PROVE  BagInv' /\ \A y : InBag(y) = InBag(y)' + (IF x = y THEN 1 ELSE 0)
    <3>1. RemoveFromSingle(x)
      BY <1>1, <1>5, <2>2 DEF RemoveSample
    <3>2. QED
      BY <1>2, <1>5, <2>2, <3>1, RemoveFromSingleArranges
  <2>3. BagInv' /\ \A y : InBag(y) = InBag(y)' + (IF x = y THEN 1 ELSE 0)
    BY <2>1, <2>2
  <2>4. sample_count > 0 /\ sample_count # 1
    BY <1>1, <1>5
  <2>5. QED
    BY <2>3, <2>4
<1>6. QED
  BY <1>1, <1>2, <1>3, <1>4, <1>5

--------------------------------------------------------------------------------
(* The invariant *)

IInv ==
    /\ BagInv
    /\ sample_count <= MaxSamples
    /\ sample_sum \in 0 .. SumModulus - 1
    /\ crashed \in BOOLEAN

(* The invariant of the scorer is inductive.                               *)
LEMMA InvariantHolds == Spec => []IInv
<1>1. Init => IInv
  <2> SUFFICES ASSUME Init PROVE IInv
    OBVIOUS
  <2>1. /\ First.set = <<>> /\ Third.set = <<>> /\ First.q = NoQuartile(0) /\ Third.q = NoQuartile(0)
        /\ first_quartile_set = <<>> /\ third_quartile_set = <<>>
    BY HalfFields DEF Init, First, Third
  <2>2. <<>> \in Seq(Values) /\ Len(<<>>) = 0 /\ InOrder(<<>>)
    BY DEF InOrder
  <2>3. NoQuartile(0) \in QuartileType(<<>>)
    BY <2>2, QuartileTypes
  <2>4. median = SingleMedian(0) /\ sample_count = 0
    BY DEF Init
  <2>5. median \in MedianType /\ ~median.is_composite_quartile
    BY <2>4 DEF SingleMedian, MedianType
  <2>6. Arranged(first_quartile_set, third_quartile_set, median, sample_count)
    BY <2>1, <2>2, <2>4, <2>5 DEF Arranged, NoMedian
  <2>7. sample_count <= MaxSamples /\ sample_sum \in 0 .. SumModulus - 1 /\ crashed \in BOOLEAN
    <3>1. sample_count = 0 /\ sample_sum = 0 /\ MaxSamples >= 0 /\ SumModulus \in Nat /\ SumModulus > 0
      BY ValuesAssumption DEF Init
    <3>2. crashed \in BOOLEAN
      BY DEF Init
    <3>3. QED
      BY <3>1, <3>2
  <2>8. IsHalf(First) /\ IsHalf(Third)
    BY <2>1, <2>2, <2>3 DEF IsHalf
  <2>9. QED
    BY <2>6, <2>7, <2>8 DEF IInv, BagInv
<1>2. IInv /\ [Next]_vars => IInv'
  <2> SUFFICES ASSUME IInv, [Next]_vars PROVE IInv'
    OBVIOUS
  <2>1. ASSUME NEW x \in Values, AddSample(x) PROVE IInv'
    <3>1. BagInv' /\ sample_count \in Nat
      BY <2>1, AddArranges, BagFacts DEF IInv
    <3>2. sample_count' <= MaxSamples
      BY <2>1, <3>1, ValuesAssumption DEF AddSample
    <3>3. sample_sum' \in 0 .. SumModulus - 1
      <4>1. sample_sum \in Int /\ x \in Int /\ SumModulus \in Nat \ {0}
        BY ValuesAssumption DEF IInv
      <4>2. sample_sum' = (sample_sum + x) % SumModulus
        BY <2>1 DEF AddSample, AddToSum
      <4>3. QED
        BY <4>1, <4>2
    <3>4. crashed' \in BOOLEAN
      BY <2>1 DEF AddSample, AddToPair, AddToSingle, Become
    <3>5. QED
      BY <3>1, <3>2, <3>3, <3>4 DEF IInv
  <2>2. ASSUME NEW x \in Values, RemoveSample(x) PROVE IInv'
    <3>1. BagInv' /\ sample_count \in Nat
      BY <2>2, RemoveArranges, BagFacts DEF IInv
    <3>2. sample_count' <= MaxSamples
      BY <2>2, <3>1, ValuesAssumption DEF RemoveSample, IInv
    <3>3. sample_sum' \in 0 .. SumModulus - 1
      <4>1. sample_sum \in Int /\ x \in Int /\ SumModulus \in Nat \ {0}
        BY ValuesAssumption DEF IInv
      <4>2. sample_sum' = (sample_sum + SumModulus - x) % SumModulus
        BY <2>2 DEF RemoveSample
      <4>3. QED
        BY <4>1, <4>2
    <3>4. crashed' \in BOOLEAN
      BY <2>2 DEF RemoveSample, RemoveFromPair, RemoveFromSingle, Become
    <3>5. QED
      BY <3>1, <3>2, <3>3, <3>4 DEF IInv
  <2>3. CASE UNCHANGED vars
    BY <2>3 DEF vars, IInv, BagInv, First, Third
  <2>4. QED
    BY <2>1, <2>2, <2>3 DEF Next
<1>3. QED
  BY <1>1, <1>2, PTL DEF Spec

(* The types hold, with every iterator end(), dangling or at an element.   *)
THEOREM TypeCorrect == Spec => []TypeOK
<1>1. IInv => TypeOK
  <2> SUFFICES ASSUME IInv PROVE TypeOK
    OBVIOUS
  <2>1. /\ first_quartile_set \in Seq(Values) /\ q1 \in QuartileType(first_quartile_set)
        /\ third_quartile_set \in Seq(Values) /\ q3 \in QuartileType(third_quartile_set)
    BY HalfFields DEF IInv, BagInv, IsHalf, First, Third
  <2>2. ASSUME NEW s \in Seq(Values), NEW q \in QuartileType(s) PROVE IsQuartile(q, s)
    <3>1. DOMAIN s = 1 .. Len(s) /\ Len(s) \in Nat
      BY SampleSeq
    <3>2. q.value2 \in Int /\ q.it_f \in Dangling .. Len(s) /\ q.it_s \in Dangling .. Len(s)
      BY DEF QuartileType
    <3>3. \A i \in Dangling .. Len(s) : i \in {Dangling, End} \cup DOMAIN s
      BY <3>1 DEF Dangling, End
    <3>4. QED
      BY <3>2, <3>3 DEF IsQuartile
  <2>3. IsQuartile(q1, first_quartile_set) /\ IsQuartile(q3, third_quartile_set)
    BY <2>1, <2>2
  <2>4. median \in MedianType
    BY DEF IInv, BagInv, Arranged
  <2>5. sample_count \in 0 .. MaxSamples
    BY BagFacts, ValuesAssumption DEF IInv
  <2>6. sample_sum \in 0 .. SumModulus - 1 /\ crashed \in BOOLEAN
    BY DEF IInv
  <2>7. QED
    BY <2>1, <2>3, <2>4, <2>5, <2>6 DEF TypeOK, MedianType
<1>2. QED
  BY <1>1, InvariantHolds, PTL

--------------------------------------------------------------------------------
(* The samples in order *)

(* Two multisets, and what is between them, in a row. *)
LEMMA Row ==
  ASSUME NEW a \in Seq(Values), NEW b \in Seq(Values), NEW c \in Seq(Values)
  PROVE  /\ Len(a \o b \o c) = Len(a) + Len(b) + Len(c)
         /\ \A i \in 1 .. Len(a) : (a \o b \o c)[i] = a[i]
         /\ \A i \in 1 .. Len(b) : (a \o b \o c)[Len(a) + i] = b[i]
         /\ \A i \in 1 .. Len(c) : (a \o b \o c)[Len(a) + Len(b) + i] = c[i]
<1> DEFINE d == a \o b
           e == d \o c
<1>1. Len(a) \in Nat /\ Len(b) \in Nat /\ Len(c) \in Nat
  BY SampleSeq
<1>2. /\ d \in Seq(Values) /\ Len(d) = Len(a) + Len(b)
      /\ \A i \in 1 .. Len(d) : d[i] = IF i <= Len(a) THEN a[i] ELSE b[i - Len(a)]
  BY ConcatProperties
<1> HIDE DEF d
<1>3. /\ Len(e) = Len(d) + Len(c)
      /\ \A i \in 1 .. Len(e) : e[i] = IF i <= Len(d) THEN d[i] ELSE c[i - Len(d)]
  <2>1. d \in Seq(Values)
    BY <1>2
  <2>2. /\ Len(d \o c) = Len(d) + Len(c)
        /\ \A i \in 1 .. Len(d) + Len(c) : (d \o c)[i] = IF i <= Len(d) THEN d[i] ELSE c[i - Len(d)]
    BY <2>1, ConcatProperties
  <2>3. QED
    BY <2>2
<1> HIDE DEF e
<1>4. ASSUME NEW i \in 1 .. Len(a) PROVE e[i] = a[i]
  BY <1>1, <1>2, <1>3
<1>5. ASSUME NEW i \in 1 .. Len(b) PROVE e[Len(a) + i] = b[i]
  <2>1. Len(a) + i \in 1 .. Len(d) /\ Len(a) + i \in 1 .. Len(e) /\ Len(a) + i - Len(a) = i
        /\ ~(Len(a) + i <= Len(a)) /\ Len(a) + i <= Len(d)
    BY <1>1, <1>2, <1>3
  <2>2. d[Len(a) + i] = b[i]
    BY <1>2, <2>1
  <2>3. QED
    BY <1>3, <2>1, <2>2
<1>6. ASSUME NEW i \in 1 .. Len(c) PROVE e[Len(a) + Len(b) + i] = c[i]
  <2>1. /\ Len(a) + Len(b) + i = Len(d) + i /\ Len(d) + i \in 1 .. Len(e)
        /\ ~(Len(d) + i <= Len(d)) /\ Len(d) + i - Len(d) = i
    BY <1>1, <1>2, <1>3
  <2>2. QED
    BY <1>3, <2>1
<1>7. QED
  BY <1>1, <1>2, <1>3, <1>4, <1>5, <1>6 DEF d, e

(* The samples, when a median of one is between the multisets ...          *)
LEMMA OrderedSingle ==
  ASSUME BagInv, sample_count > 0, ~median.is_composite_quartile
  PROVE  /\ Len(Ordered) = sample_count
         /\ \A i \in 1 .. Len(First.set) : Ordered[i] = First.set[i]
         /\ Ordered[Len(First.set) + 1] = median.value_f
         /\ \A i \in 1 .. Len(First.set) : Ordered[Len(First.set) + 1 + i] = Third.set[i]
<1> DEFINE a == First.set
           b == <<median.value_f>>
           c == Third.set
<1>1. sample_count # 0
  OBVIOUS
<1>2. Ordered = a \o b \o c
  BY <1>1, BagFacts DEF Ordered
<1>3. a \in Seq(Values) /\ c \in Seq(Values) /\ Len(c) = Len(a) /\ Len(a) \in Nat
  BY BagFacts DEF IsHalf
<1>4. sample_count = 2 * Len(a) + 1 /\ median.value_f \in Values
  BY SingleFacts
<1>5. b \in Seq(Values) /\ Len(b) = 1 /\ b[1] = median.value_f
  BY <1>4
<1> HIDE DEF a, b, c
<1>6. /\ Len(a \o b \o c) = Len(a) + Len(b) + Len(c)
      /\ \A i \in 1 .. Len(a) : (a \o b \o c)[i] = a[i]
      /\ \A i \in 1 .. Len(b) : (a \o b \o c)[Len(a) + i] = b[i]
      /\ \A i \in 1 .. Len(c) : (a \o b \o c)[Len(a) + Len(b) + i] = c[i]
  <2>1. a \in Seq(Values) /\ b \in Seq(Values) /\ c \in Seq(Values)
    BY <1>3, <1>5
  <2>2. QED
    BY <2>1, Row
<1>7. /\ Len(Ordered) = sample_count
      /\ \A i \in 1 .. Len(a) : Ordered[i] = a[i]
      /\ Ordered[Len(a) + 1] = median.value_f
      /\ \A i \in 1 .. Len(a) : Ordered[Len(a) + 1 + i] = c[i]
  <2>1. Len(Ordered) = sample_count
    BY <1>2, <1>3, <1>4, <1>5, <1>6
  <2>2. Ordered[Len(a) + 1] = median.value_f
    BY <1>2, <1>5, <1>6
  <2>3. \A i \in 1 .. Len(a) : Ordered[Len(a) + 1 + i] = c[i]
    BY <1>2, <1>3, <1>5, <1>6
  <2>4. QED
    BY <1>2, <1>6, <2>1, <2>2, <2>3
<1>8. QED
  BY <1>7 DEF a, c

(* ... and when there is none. *)
LEMMA OrderedPair ==
  ASSUME BagInv, median.is_composite_quartile
  PROVE  /\ Len(Ordered) = sample_count
         /\ \A i \in 1 .. Len(First.set) : Ordered[i] = First.set[i]
         /\ \A i \in 1 .. Len(First.set) : Ordered[Len(First.set) + i] = Third.set[i]
<1> DEFINE a == First.set
           b == <<>>
           c == Third.set
<1>1. Ordered = a \o b \o c
  BY BagFacts DEF Ordered
<1>2. a \in Seq(Values) /\ c \in Seq(Values) /\ Len(c) = Len(a) /\ Len(a) \in Nat
  BY BagFacts DEF IsHalf
<1>3. sample_count = 2 * Len(a)
  BY PairFacts
<1>4. b \in Seq(Values) /\ Len(b) = 0
  OBVIOUS
<1> HIDE DEF a, b, c
<1>5. /\ Len(a \o b \o c) = Len(a) + Len(b) + Len(c)
      /\ \A i \in 1 .. Len(a) : (a \o b \o c)[i] = a[i]
      /\ \A i \in 1 .. Len(b) : (a \o b \o c)[Len(a) + i] = b[i]
      /\ \A i \in 1 .. Len(c) : (a \o b \o c)[Len(a) + Len(b) + i] = c[i]
  <2>1. a \in Seq(Values) /\ b \in Seq(Values) /\ c \in Seq(Values)
    BY <1>2, <1>4
  <2>2. QED
    BY <2>1, Row
<1>6. /\ Len(Ordered) = sample_count
      /\ \A i \in 1 .. Len(a) : Ordered[i] = a[i]
      /\ \A i \in 1 .. Len(a) : Ordered[Len(a) + i] = c[i]
  <2>1. Len(Ordered) = sample_count
    BY <1>1, <1>2, <1>3, <1>4, <1>5
  <2>2. \A i \in 1 .. Len(a) : Ordered[Len(a) + i] = c[i]
    BY <1>1, <1>2, <1>4, <1>5
  <2>3. QED
    BY <1>1, <1>5, <2>1, <2>2
<1>7. QED
  BY <1>6 DEF a, c

(* Whatever is added and removed, the two multisets are of equal size,     *)
(* nothing below is greater than anything above, and the median is right.  *)
THEOREM PartitionedCorrect == Spec => []Partitioned
<1>1. ASSUME IInv PROVE Partitioned
  <2> DEFINE L == Len(First.set)
  <2>1. /\ BagInv /\ L \in Nat /\ Len(Third.set) = L /\ sample_count \in Nat
        /\ First.set \in Seq(Values) /\ InOrder(First.set)
        /\ Third.set \in Seq(Values) /\ InOrder(Third.set)
        /\ First.set = first_quartile_set /\ Third.set = third_quartile_set
    BY <1>1, BagFacts DEF IInv, IsHalf
  <2>2. CASE sample_count = 0
    <3>1. Len(first_quartile_set) = 0 /\ Len(third_quartile_set) = 0 /\ ~median.is_composite_quartile
      BY <2>1, <2>2, ArrangedFacts DEF BagInv, NoMedian
    <3>2. Ordered = first_quartile_set \o <<>> \o third_quartile_set
      BY <2>2 DEF Ordered
    <3>3. Len(Ordered) = 0
      BY <2>1, <3>1, <3>2, Row
    <3>4. QED
      BY <2>2, <3>1, <3>3 DEF Partitioned
  <2>3. CASE sample_count > 0 /\ ~median.is_composite_quartile
    <3>1. /\ sample_count = 2 * L + 1 /\ median.value_f \in Nat
          /\ AtMost(First.set, median.value_f) /\ AtLeast(Third.set, median.value_f)
          /\ median.value2 = 2 * median.value_f
      BY <2>1, <2>3, SingleFacts, ArrangedFacts DEF BagInv, OneMedian
    <3>2. /\ Len(Ordered) = sample_count
          /\ \A i \in 1 .. L : Ordered[i] = First.set[i]
          /\ Ordered[L + 1] = median.value_f
          /\ \A i \in 1 .. L : Ordered[L + 1 + i] = Third.set[i]
      BY <2>1, <2>3, OrderedSingle
    <3> HIDE DEF L
    <3>3. ASSUME NEW i \in 1 .. sample_count - 1 PROVE Ordered[i] <= Ordered[i + 1]
      <4>1. CASE i < L
        <5>1. i \in 1 .. L /\ i + 1 \in 1 .. L /\ i <= i + 1
          BY <2>1, <4>1
        <5>2. First.set[i] <= First.set[i + 1]
          BY <2>1, <5>1 DEF InOrder, L
        <5>3. QED
          BY <3>2, <5>1, <5>2
      <4>2. CASE i = L
        <5>1. i \in 1 .. L
          BY <2>1, <4>2
        <5>2. First.set[i] <= median.value_f
          BY <3>1, <5>1 DEF AtMost, L
        <5>3. QED
          BY <3>2, <4>2, <5>1, <5>2
      <4>3. CASE i = L + 1
        <5>1. 1 \in 1 .. L /\ i + 1 = L + 1 + 1
          BY <2>1, <3>1, <4>3
        <5>2. Third.set[1] >= median.value_f
          BY <2>1, <3>1, <5>1 DEF AtLeast
        <5>3. Third.set[1] \in Nat
          BY <2>1, <5>1, SampleSeq
        <5>4. Ordered[i + 1] = Third.set[1] /\ Ordered[i] = median.value_f
          BY <3>2, <4>3, <5>1
        <5>5. QED
          BY <3>1, <5>2, <5>3, <5>4
      <4>4. CASE i > L + 1
        <5> DEFINE j == i - (L + 1)
        <5>1. j \in 1 .. L /\ j + 1 \in 1 .. L /\ L + 1 + j = i /\ L + 1 + (j + 1) = i + 1 /\ j <= j + 1
          BY <2>1, <3>1, <4>4
        <5> HIDE DEF j
        <5>2. Third.set[j] <= Third.set[j + 1]
          BY <2>1, <5>1 DEF InOrder
        <5>3. Ordered[i] = Third.set[j] /\ Ordered[i + 1] = Third.set[j + 1]
          BY <3>2, <5>1
        <5>4. QED
          BY <5>2, <5>3
      <4>5. QED
        BY <2>1, <4>1, <4>2, <4>3, <4>4
    <3>4. median.value2 = Middle2(Ordered)
      <4>1. sample_count % 2 = 1 /\ (sample_count + 1) \div 2 = L + 1
        BY <2>1, <3>1
      <4>2. QED
        BY <3>1, <3>2, <4>1 DEF Middle2
    <3>5. QED
      BY <2>1, <3>2, <3>3, <3>4 DEF Partitioned, L
  <2>4. CASE median.is_composite_quartile
    <3>1. /\ sample_count = 2 * L /\ L >= 1
          /\ median.value_f = First.set[L] /\ median.value_s = Third.set[1]
          /\ median.value_f <= median.value_s
          /\ median.value2 = median.value_f + median.value_s
      BY <2>1, <2>4, PairFacts, ArrangedFacts DEF BagInv, TwoMedians
    <3>2. /\ Len(Ordered) = sample_count
          /\ \A i \in 1 .. L : Ordered[i] = First.set[i]
          /\ \A i \in 1 .. L : Ordered[L + i] = Third.set[i]
      BY <2>1, <2>4, OrderedPair
    <3> HIDE DEF L
    <3>3. ASSUME NEW i \in 1 .. sample_count - 1 PROVE Ordered[i] <= Ordered[i + 1]
      <4>1. CASE i < L
        <5>1. i \in 1 .. L /\ i + 1 \in 1 .. L /\ i <= i + 1
          BY <2>1, <4>1
        <5>2. First.set[i] <= First.set[i + 1]
          BY <2>1, <5>1 DEF InOrder, L
        <5>3. QED
          BY <3>2, <5>1, <5>2
      <4>2. CASE i = L
        <5>1. i \in 1 .. L /\ 1 \in 1 .. L
          BY <2>1, <3>1, <4>2
        <5>2. QED
          BY <3>1, <3>2, <4>2, <5>1
      <4>3. CASE i > L
        <5> DEFINE j == i - L
        <5>1. j \in 1 .. L /\ j + 1 \in 1 .. L /\ L + j = i /\ L + (j + 1) = i + 1 /\ j <= j + 1
          BY <2>1, <3>1, <4>3
        <5> HIDE DEF j
        <5>2. Third.set[j] <= Third.set[j + 1]
          BY <2>1, <5>1 DEF InOrder
        <5>3. Ordered[i] = Third.set[j] /\ Ordered[i + 1] = Third.set[j + 1]
          BY <3>2, <5>1
        <5>4. QED
          BY <5>2, <5>3
      <4>4. QED
        BY <2>1, <4>1, <4>2, <4>3
    <3>4. median.value2 = Middle2(Ordered)
      <4>1. sample_count % 2 # 1 /\ sample_count \div 2 = L /\ L \in 1 .. L /\ 1 \in 1 .. L
        BY <2>1, <3>1
      <4>2. QED
        BY <3>1, <3>2, <4>1 DEF Middle2
    <3>5. QED
      BY <2>1, <3>2, <3>3, <3>4 DEF Partitioned, L
  <2>5. QED
    BY <2>1, <2>2, <2>3, <2>4
<1>2. IInv => Partitioned
  BY <1>1
<1>3. QED
  BY <1>2, InvariantHolds, PTL

--------------------------------------------------------------------------------
(* The samples as a bag *)

(* What is at a place of a multiset is in it. *)
LEMMA PlacesHeld ==
  ASSUME NEW s \in Seq(Values), NEW i \in 1 .. Len(s)
  PROVE  Times(s, s[i]) # 0
  BY TimesFacts

(* What is beyond a bound of a multiset is not in it.                      *)
LEMMA OutOfBounds ==
  ASSUME NEW s \in Seq(Values), NEW b \in Nat, NEW x \in Nat
  PROVE  /\ AtMost(s, b) /\ x > b => Times(s, x) = 0
         /\ AtLeast(s, b) /\ x < b => Times(s, x) = 0
<1>1. Len(s) \in Nat /\ \A i \in 1 .. Len(s) : s[i] \in Nat
  BY SampleSeq
<1>2. ASSUME AtMost(s, b), x > b PROVE \A i \in 1 .. Len(s) : s[i] # x
  BY <1>1, <1>2 DEF AtMost
<1>3. ASSUME AtLeast(s, b), x < b PROVE \A i \in 1 .. Len(s) : s[i] # x
  BY <1>1, <1>3 DEF AtLeast
<1>4. QED
  BY <1>2, <1>3, TimesFacts

MultiplicityCounts == \A y : Multiplicity(y) = InBag(y) /\ InBag(y) \in Nat

(* Multiplicity counts what the multisets and the median hold.             *)
LEMMA MultiplicityIsInBag == BagInv => MultiplicityCounts
<1> SUFFICES ASSUME BagInv, NEW y PROVE Multiplicity(y) = InBag(y) /\ InBag(y) \in Nat
  BY DEF MultiplicityCounts
<1>1. /\ First.set = first_quartile_set /\ Third.set = third_quartile_set
      /\ First.set \in Seq(Values) /\ Third.set \in Seq(Values)
      /\ sample_count \in Nat
      /\ Times(First.set, y) \in Nat /\ Times(Third.set, y) \in Nat
      /\ InBag(y) = Times(First.set, y) + Times(Third.set, y)
                    + (IF sample_count > 0 /\ ~median.is_composite_quartile /\ median.value_f = y
                       THEN 1 ELSE 0)
  BY BagFacts DEF IsHalf
<1>2. Times(First.set, y) = Count(First, y) /\ Times(Third.set, y) = Count(Third, y)
  BY DEF Times, Count
<1>3. CASE sample_count = 0
  <2>1. Len(First.set) = 0 /\ Len(Third.set) = 0 /\ ~(sample_count > 0)
    BY <1>1, <1>3, ArrangedFacts DEF BagInv, NoMedian
  <2>2. Times(First.set, y) = 0 /\ Times(Third.set, y) = 0
    BY <1>1, <2>1, SmallSets
  <2>3. InBag(y) = 0
    BY <1>1, <2>1, <2>2
  <2>4. QED
    BY <1>3, <2>3 DEF Multiplicity
<1>4. CASE sample_count > 0 /\ median.is_composite_quartile
  <2>1. sample_count # 0
    BY <1>4
  <2>2. Multiplicity(y) = Count(First, y) + Count(Third, y)
    BY <1>4, <2>1 DEF Multiplicity
  <2>3. QED
    BY <1>1, <1>2, <1>4, <2>2
<1>5. CASE sample_count > 0 /\ ~median.is_composite_quartile
  <2>1. sample_count # 0
    BY <1>5
  <2>2. Multiplicity(y) = Count(First, y) + Count(Third, y) + (IF median.value_f = y THEN 1 ELSE 0)
    BY <1>5, <2>1 DEF Multiplicity
  <2>3. QED
    BY <1>1, <1>2, <1>5, <2>2
<1>6. QED
  BY <1>1, <1>3, <1>4, <1>5

(* None, one or at least two samples. *)
LEMMA BagSizes ==
  ASSUME BagInv
  PROVE  /\ sample_count = 0 => \A y : InBag(y) = 0
         /\ sample_count = 1 => /\ median.value_f \in Values
                                /\ \A y : InBag(y) = IF median.value_f = y THEN 1 ELSE 0
         /\ sample_count > 1 => /\ First.set[1] \in Values /\ Third.set[1] \in Values
                                /\ InBag(First.set[1]) # 0 /\ InBag(Third.set[1]) # 0
                                /\ First.set[1] = Third.set[1] => InBag(First.set[1]) # 1
<1>1. /\ First.set = first_quartile_set /\ Third.set = third_quartile_set
      /\ First.set \in Seq(Values) /\ Third.set \in Seq(Values)
      /\ sample_count \in Nat /\ Len(First.set) \in Nat /\ Len(Third.set) = Len(First.set)
      /\ \A y : /\ Times(First.set, y) \in Nat /\ Times(Third.set, y) \in Nat
                /\ InBag(y) = Times(First.set, y) + Times(Third.set, y)
                     + (IF sample_count > 0 /\ ~median.is_composite_quartile /\ median.value_f = y
                        THEN 1 ELSE 0)
  BY BagFacts DEF IsHalf
<1>2. ASSUME sample_count = 0 PROVE \A y : InBag(y) = 0
  BY <1>2, MultiplicityIsInBag DEF Multiplicity, MultiplicityCounts
<1>3. ASSUME sample_count = 1
      PROVE  /\ median.value_f \in Values
             /\ \A y : InBag(y) = IF median.value_f = y THEN 1 ELSE 0
  <2>1. ~median.is_composite_quartile
    <3>1. sample_count # 2 * Len(First.set)
      BY <1>1, <1>3
    <3>2. QED
      BY <3>1, PairFacts
  <2>2. /\ sample_count = 2 * Len(First.set) + 1 /\ median.value_f \in Values
        /\ \A y : InBag(y) = Times(First.set, y) + Times(Third.set, y)
                             + (IF median.value_f = y THEN 1 ELSE 0)
    BY <1>3, <2>1, SingleFacts
  <2>3. Len(First.set) = 0 /\ Len(Third.set) = 0
    BY <1>1, <1>3, <2>2
  <2>4. \A y : Times(First.set, y) = 0 /\ Times(Third.set, y) = 0
    BY <1>1, <2>3, SmallSets
  <2>5. QED
    BY <2>2, <2>4
<1>4. ASSUME sample_count > 1
      PROVE  /\ First.set[1] \in Values /\ Third.set[1] \in Values
             /\ Times(First.set, First.set[1]) # 0 /\ Times(Third.set, Third.set[1]) # 0
  <2>1. Len(First.set) >= 1
    <3>1. CASE median.is_composite_quartile
      BY <3>1, PairFacts
    <3>2. CASE ~median.is_composite_quartile
      <4>1. sample_count = 2 * Len(First.set) + 1
        BY <1>1, <1>4, <3>2, SingleFacts
      <4>2. QED
        BY <1>1, <1>4, <4>1
    <3>3. QED
      BY <3>1, <3>2
  <2>2. 1 \in 1 .. Len(First.set) /\ 1 \in 1 .. Len(Third.set)
    BY <1>1, <2>1
  <2>3. First.set[1] \in Values /\ Third.set[1] \in Values
    BY <1>1, <2>2, SampleSeq
  <2>4. First.set \in Seq(Values) /\ Third.set \in Seq(Values)
    BY <1>1
  <2>5. Times(First.set, First.set[1]) # 0 /\ Times(Third.set, Third.set[1]) # 0
    BY <2>2, <2>4, PlacesHeld
  <2>6. QED
    BY <2>3, <2>5
<1>5. ASSUME NEW y, Times(First.set, y) # 0 \/ Times(Third.set, y) # 0
      PROVE  /\ InBag(y) # 0
             /\ Times(First.set, y) # 0 /\ Times(Third.set, y) # 0 => InBag(y) # 1
  BY <1>1, <1>5
<1>6. QED
  BY <1>2, <1>3, <1>4, <1>5

(* The bag, as the contribution store sees it.                             *)
LEMMA BagSeen ==
  ASSUME BagInv
  PROVE  /\ Promise!NoSample <=> sample_count = 0
         /\ Promise!OneSample <=> sample_count = 1
<1>1. sample_count \in Nat /\ \A y : Multiplicity(y) = InBag(y) /\ InBag(y) \in Nat
  BY BagFacts, MultiplicityIsInBag DEF MultiplicityCounts
<1>2. Promise!NoSample <=> \A v \in Values : InBag(v) = 0
  BY <1>1 DEF Promise!NoSample
<1>3. Promise!OneSample <=> \E v \in Values : InBag(v) = 1 /\ \A w \in Values \ {v} : InBag(w) = 0
  BY <1>1 DEF Promise!OneSample
<1>4. CASE sample_count = 0
  BY <1>2, <1>3, <1>4, BagSizes
<1>5. CASE sample_count = 1
  <2>1. PICK m \in Values : \A y : InBag(y) = IF m = y THEN 1 ELSE 0
    BY <1>5, BagSizes
  <2>2. InBag(m) = 1 /\ \A w \in Values \ {m} : InBag(w) = 0
    BY <2>1
  <2>3. QED
    BY <1>2, <1>3, <1>5, <2>2
<1>6. CASE sample_count > 1
  <2>1. PICK a \in Values, b \in Values : InBag(a) # 0 /\ InBag(b) # 0 /\ (a = b => InBag(a) # 1)
    BY <1>6, BagSizes
  <2>2. ~ \E v \in Values : InBag(v) = 1 /\ \A w \in Values \ {v} : InBag(w) = 0
    BY <2>1
  <2>3. sample_count # 0 /\ sample_count # 1
    BY <1>6
  <2>4. QED
    BY <1>2, <1>3, <2>1, <2>2, <2>3
<1>7. QED
  BY <1>1, <1>4, <1>5, <1>6

(* remove_sample throws for an empty bag, and for what is not in a bag of  *)
(* two or more.                                                            *)
LEMMA RefusesAbsent ==
  ASSUME BagInv, NEW x \in Values
  PROVE  RemoveThrows(x) <=> sample_count = 0 \/ (sample_count # 1 /\ InBag(x) = 0)
<1>1. /\ First.set \in Seq(Values) /\ Third.set \in Seq(Values)
      /\ sample_count \in Nat /\ Len(First.set) \in Nat /\ Len(Third.set) = Len(First.set)
      /\ Times(First.set, x) \in Nat /\ Times(Third.set, x) \in Nat
  BY BagFacts DEF IsHalf
<1>2. x \in Nat
  BY ValuesAssumption
<1>3. Times(First.set, x) = Count(First, x) /\ Times(Third.set, x) = Count(Third, x)
  BY DEF Times, Count
<1>4. CASE sample_count = 0
  BY <1>4 DEF RemoveThrows
<1>5. CASE sample_count = 1
  BY <1>5 DEF RemoveThrows
<1>6. CASE sample_count = 2
  <2>1. median.is_composite_quartile
    <3>1. sample_count # 2 * Len(First.set) + 1
      BY <1>1, <1>6
    <3>2. QED
      BY <1>6, <3>1, SingleFacts
  <2>2. /\ sample_count = 2 * Len(First.set)
        /\ median.value_f = First.set[Len(First.set)] /\ median.value_s = Third.set[1]
        /\ InBag(x) = Times(First.set, x) + Times(Third.set, x)
    BY <2>1, PairFacts
  <2>3. Len(First.set) = 1 /\ Len(Third.set) = 1
    <3> DEFINE L == Len(First.set)
    <3>1. 2 = 2 * L /\ L \in Nat /\ Len(Third.set) = L
      BY <1>1, <1>6, <2>2
    <3> HIDE DEF L
    <3>2. L = 1
      BY <3>1
    <3>3. QED
      BY <3>1, <3>2 DEF L
  <2>4. /\ Times(First.set, x) = (IF median.value_f = x THEN 1 ELSE 0)
        /\ Times(Third.set, x) = (IF median.value_s = x THEN 1 ELSE 0)
    BY <1>1, <2>2, <2>3, SmallSets
  <2>5. InBag(x) = 0 <=> x # median.value_f /\ x # median.value_s
    BY <2>2, <2>4
  <2>6. RemoveThrows(x) <=> x \notin {median.value_f, median.value_s}
    BY <1>6 DEF RemoveThrows
  <2>7. QED
    BY <1>6, <2>5, <2>6
<1>7. CASE sample_count > 2 /\ median.is_composite_quartile
  <2> DEFINE a == median.value_f
             b == median.value_s
  <2>1. /\ a \in Nat /\ b \in Nat /\ a <= b
        /\ AtMost(First.set, a) /\ AtLeast(Third.set, b)
        /\ a = First.set[Len(First.set)] /\ Len(First.set) >= 1
        /\ InBag(x) = Times(First.set, x) + Times(Third.set, x)
    BY <1>7, PairFacts
  <2>2. sample_count # 0 /\ sample_count # 1 /\ sample_count # 2
    BY <1>7
  <2>3. RemoveThrows(x) <=> \/ x <= a /\ Count(First, x) = 0
                            \/ x > a /\ x >= b /\ Count(Third, x) = 0
                            \/ a < x /\ x < b
    BY <1>7, <2>2 DEF RemoveThrows
  <2> HIDE DEF a, b
  <2>4. /\ x > a => Times(First.set, x) = 0
        /\ x < b => Times(Third.set, x) = 0
    BY <1>1, <1>2, <2>1, OutOfBounds
  <2>5. Times(First.set, a) # 0
    <3>1. Len(First.set) \in 1 .. Len(First.set)
      BY <1>1, <2>1
    <3>2. QED
      BY <1>1, <2>1, <3>1, PlacesHeld
  <2>6. ASSUME x <= a PROVE RemoveThrows(x) <=> InBag(x) = 0
    <3>1. Times(First.set, x) = 0 => x < b
      <4>1. Times(First.set, x) = 0 => x # a
        BY <2>5
      <4>2. QED
        BY <1>2, <2>1, <2>6, <4>1
    <3>2. ~(x > a) /\ ~(a < x)
      BY <1>2, <2>1, <2>6
    <3>3. RemoveThrows(x) <=> Times(First.set, x) = 0
      BY <1>3, <2>3, <2>6, <3>2
    <3>4. QED
      BY <1>1, <2>1, <2>4, <3>1, <3>3
  <2>7. ASSUME ~(x <= a) PROVE RemoveThrows(x) <=> InBag(x) = 0
    <3>1. x > a /\ a < x /\ (x < b <=> ~(x >= b))
      BY <1>2, <2>1, <2>7
    <3>2. RemoveThrows(x) <=> x < b \/ Times(Third.set, x) = 0
      BY <1>3, <2>3, <2>7, <3>1
    <3>3. QED
      BY <1>1, <2>1, <2>4, <3>1, <3>2
  <2>8. QED
    BY <2>2, <2>6, <2>7
<1>8. CASE sample_count > 2 /\ ~median.is_composite_quartile
  <2> DEFINE m == median.value_f
  <2>1. /\ m \in Nat
        /\ AtMost(First.set, m) /\ AtLeast(Third.set, m)
        /\ InBag(x) = Times(First.set, x) + Times(Third.set, x) + (IF m = x THEN 1 ELSE 0)
    BY <1>1, <1>8, SingleFacts
  <2>2. sample_count # 0 /\ sample_count # 1 /\ sample_count # 2
    BY <1>8
  <2>3. RemoveThrows(x) <=> \/ x > m /\ Count(Third, x) = 0
                            \/ x < m /\ Count(First, x) = 0
    BY <1>8, <2>2 DEF RemoveThrows
  <2> HIDE DEF m
  <2>4. /\ x > m => Times(First.set, x) = 0
        /\ x < m => Times(Third.set, x) = 0
    BY <1>1, <1>2, <2>1, OutOfBounds
  <2>5. RemoveThrows(x) <=> InBag(x) = 0
    <3>1. CASE x > m
      <4>1. ~(x < m) /\ m # x
        BY <1>2, <2>1, <3>1
      <4>2. QED
        BY <1>1, <1>3, <2>1, <2>3, <2>4, <3>1, <4>1
    <3>2. CASE x < m
      <4>1. ~(x > m) /\ m # x
        BY <1>2, <2>1, <3>2
      <4>2. QED
        BY <1>1, <1>3, <2>1, <2>3, <2>4, <3>2, <4>1
    <3>3. CASE ~(x > m) /\ ~(x < m)
      <4>1. m = x
        BY <1>2, <2>1, <3>3
      <4>2. InBag(x) # 0
        BY <1>1, <2>1, <4>1
      <4>3. QED
        BY <2>3, <3>3, <4>2
    <3>4. QED
      BY <3>1, <3>2, <3>3
  <2>6. QED
    BY <2>2, <2>5
<1>9. QED
  BY <1>1, <1>4, <1>5, <1>6, <1>7, <1>8

(* A removal is refused when the bag of the contribution store refuses it. *)
THEOREM RefusesAsPromisedCorrect == Spec => []RefusesAsPromised
<1>1. ASSUME BagInv, NEW x \in Values PROVE RemoveThrows(x) = Promise!RemoveThrows(x)
  <2>1. RemoveThrows(x) <=> sample_count = 0 \/ (sample_count # 1 /\ InBag(x) = 0)
    BY <1>1, RefusesAbsent
  <2>2. Multiplicity(x) = InBag(x)
    BY <1>1, MultiplicityIsInBag DEF MultiplicityCounts
  <2>3. Promise!RemoveThrows(x) <=> sample_count = 0 \/ (sample_count # 1 /\ InBag(x) = 0)
    BY <1>1, <2>2, BagSeen DEF Promise!RemoveThrows
  <2>4. RemoveThrows(x) <=> Promise!RemoveThrows(x)
    BY <2>1, <2>3
  <2>5. Promise!RemoveThrows(x) \in BOOLEAN
    BY DEF Promise!RemoveThrows
  <2>6. RemoveThrows(x) \in BOOLEAN
    BY DEF RemoveThrows
  <2>7. QED
    BY <2>4, <2>5, <2>6
<1>2. IInv => RefusesAsPromised
  BY <1>1 DEF IInv, RefusesAsPromised
<1>3. QED
  BY <1>2, InvariantHolds, PTL

(* The n-th draw in order is the n-th sample, never what is beyond the end *)
(* of a multiset, and a random draw is a sample of the bag.                *)
THEOREM DrawsInBoundsCorrect == Spec => []DrawsInBounds
<1>1. ASSUME BagInv, NEW n \in 0 .. sample_count - 1 PROVE LinearDraw(n) = Ordered[n + 1]
  <2> DEFINE L == Len(First.set)
  <2>1. /\ L \in Nat /\ Len(Third.set) = L /\ sample_count \in Nat /\ sample_count > 0
    BY <1>1, BagFacts
  <2>2. CASE median.is_composite_quartile
    <3>1. /\ sample_count = 2 * L
          /\ \A i \in 1 .. L : Ordered[i] = First.set[i]
          /\ \A i \in 1 .. L : Ordered[L + i] = Third.set[i]
      BY <1>1, <2>2, PairFacts, OrderedPair
    <3> HIDE DEF L
    <3>2. sample_count \div 2 = L
      BY <2>1, <3>1
    <3>3. CASE n < L
      <4>1. LinearDraw(n) = First.set[n + 1]
        BY <2>2, <3>2, <3>3 DEF LinearDraw, At, L
      <4>2. n + 1 \in 1 .. L
        BY <1>1, <2>1, <3>3
      <4>3. QED
        BY <3>1, <4>1, <4>2
    <3>4. CASE ~(n < L)
      <4>1. n - L < Len(Third.set) /\ n - L + 1 \in 1 .. L /\ L + (n - L + 1) = n + 1 /\ n - L - 0 = n - L
        BY <1>1, <2>1, <3>1, <3>4
      <4>2. LinearDraw(n) = At(Third, n - L - 0)
        BY <2>2, <3>2, <3>4 DEF LinearDraw
      <4>3. LinearDraw(n) = Third.set[n - L + 1]
        BY <4>1, <4>2 DEF At
      <4>4. Ordered[L + (n - L + 1)] = Third.set[n - L + 1]
        BY <3>1, <4>1
      <4>5. QED
        BY <4>1, <4>3, <4>4
    <3>5. QED
      BY <3>3, <3>4
  <2>3. CASE ~median.is_composite_quartile
    <3>1. /\ sample_count = 2 * L + 1
          /\ \A i \in 1 .. L : Ordered[i] = First.set[i]
          /\ Ordered[L + 1] = median.value_f
          /\ \A i \in 1 .. L : Ordered[L + 1 + i] = Third.set[i]
      BY <1>1, <2>1, <2>3, SingleFacts, OrderedSingle
    <3> HIDE DEF L
    <3>2. sample_count \div 2 = L
      BY <2>1, <3>1
    <3>3. CASE n < L
      <4>1. n # L
        BY <2>1, <3>3
      <4>2. LinearDraw(n) = First.set[n + 1]
        BY <2>3, <3>2, <3>3, <4>1 DEF LinearDraw, At, L
      <4>3. n + 1 \in 1 .. L
        BY <1>1, <2>1, <3>3
      <4>4. QED
        BY <3>1, <4>2, <4>3
    <3>4. CASE n = L
      BY <2>3, <3>1, <3>2, <3>4 DEF LinearDraw
    <3>5. CASE ~(n < L) /\ n # L
      <4>1. n - L - 1 < Len(Third.set) /\ n - L - 1 + 1 \in 1 .. L /\ L + 1 + (n - L - 1 + 1) = n + 1
        BY <1>1, <2>1, <3>1, <3>5
      <4>2. LinearDraw(n) = At(Third, n - L - 1)
        BY <2>3, <3>2, <3>5 DEF LinearDraw
      <4>3. LinearDraw(n) = Third.set[n - L - 1 + 1]
        BY <4>1, <4>2 DEF At
      <4>4. Ordered[L + 1 + (n - L - 1 + 1)] = Third.set[n - L - 1 + 1]
        BY <3>1, <4>1
      <4>5. QED
        BY <4>1, <4>3, <4>4
    <3>6. QED
      BY <3>3, <3>4, <3>5
  <2>4. QED
    BY <2>2, <2>3
<1>2. ASSUME BagInv, sample_count > 0, NEW d \in RandomDraws PROVE d \in Values /\ Present(d)
  <2> DEFINE L == Len(First.set)
  <2>1. /\ L \in Nat /\ Len(Third.set) = L /\ sample_count \in Nat
        /\ First.set \in Seq(Values) /\ Third.set \in Seq(Values)
        /\ \A y : Times(First.set, y) \in Nat /\ Times(Third.set, y) \in Nat
    BY <1>2, BagFacts DEF IsHalf
  <2>2. sample_count \div 2 = L
    <3>1. CASE median.is_composite_quartile
      <4>1. sample_count = 2 * L
        BY <1>2, <3>1, PairFacts
      <4> HIDE DEF L
      <4>2. QED
        BY <2>1, <4>1
    <3>2. CASE ~median.is_composite_quartile
      <4>1. sample_count = 2 * L + 1
        BY <1>2, <3>2, SingleFacts
      <4> HIDE DEF L
      <4>2. QED
        BY <2>1, <4>1
    <3>3. QED
      BY <3>1, <3>2
  <2>3. ASSUME NEW y, InBag(y) # 0 PROVE Present(y)
    <3>1. Multiplicity(y) = InBag(y) /\ InBag(y) \in Nat
      BY <1>2, MultiplicityIsInBag DEF MultiplicityCounts
    <3>2. QED
      BY <2>3, <3>1 DEF Present
  <2>4. ASSUME NEW y, Times(First.set, y) # 0 \/ Times(Third.set, y) # 0 PROVE InBag(y) # 0
    <3>1. InBag(y) = Times(First.set, y) + Times(Third.set, y)
            + (IF sample_count > 0 /\ ~median.is_composite_quartile /\ median.value_f = y THEN 1 ELSE 0)
      BY <1>2, BagFacts
    <3>2. QED
      BY <2>1, <2>4, <3>1
  <2>5. CASE ~median.is_composite_quartile /\ d = median.value_f
    <3>1. /\ median.value_f \in Values
          /\ InBag(d) = Times(First.set, d) + Times(Third.set, d) + (IF median.value_f = d THEN 1 ELSE 0)
      BY <1>2, <2>5, SingleFacts
    <3>2. InBag(d) # 0
      BY <2>1, <2>5, <3>1
    <3>3. QED
      BY <2>3, <2>5, <3>1, <3>2
  <2>6. ASSUME NEW j \in 0 .. sample_count \div 2 - 1, d = At(First, j) PROVE d \in Values /\ Present(d)
    <3>1. j < Len(First.set) /\ j + 1 \in 1 .. Len(First.set)
      BY <2>1, <2>2
    <3>2. d = First.set[j + 1]
      BY <2>6, <3>1 DEF At
    <3>3. d \in Values /\ Times(First.set, d) # 0
      BY <2>1, <3>1, <3>2, SampleSeq, PlacesHeld
    <3>4. QED
      BY <2>3, <2>4, <3>3
  <2>7. ASSUME NEW j \in 0 .. sample_count \div 2 - 1, d = At(Third, j) PROVE d \in Values /\ Present(d)
    <3>1. j < Len(Third.set) /\ j + 1 \in 1 .. Len(Third.set)
      BY <2>1, <2>2
    <3>2. d = Third.set[j + 1]
      BY <2>7, <3>1 DEF At
    <3>3. d \in Values /\ Times(Third.set, d) # 0
      BY <2>1, <3>1, <3>2, SampleSeq, PlacesHeld
    <3>4. QED
      BY <2>3, <2>4, <3>3
  <2>8. QED
    BY <1>2, <2>5, <2>6, <2>7 DEF RandomDraws
<1>3. IInv => DrawsInBounds
  BY <1>1, <1>2 DEF IInv, DrawsInBounds
<1>4. QED
  BY <1>3, InvariantHolds, PTL

--------------------------------------------------------------------------------
(* The quartiles *)

(* The quartile on, or around, the middle of a multiset.                   *)
MiddleOf(s) ==
    IF Len(s) % 2 = 1 THEN On(s, (Len(s) + 1) \div 2)
    ELSE Between(s, Len(s) \div 2, Len(s) \div 2 + 1)

(* A multiset without repetitions, whose quartile is where it belongs.     *)
Proper(h) ==
    /\ Len(h.set) >= 1
    /\ h.q = MiddleOf(h.set)
    /\ \A y : Times(h.set, y) # 0 => Times(h.set, y) = 1

(* The middle of a multiset of an odd and of an even size.                 *)
LEMMA Middles ==
  ASSUME NEW s \in Seq(Values), NEW k \in Nat
  PROVE  /\ Len(s) = 2 * k + 1 =>
               /\ k + 1 \in DOMAIN s
               /\ MiddleOf(s) = [value2 |-> 2 * s[k + 1], it_f |-> k + 1, it_s |-> End]
         /\ Len(s) = 2 * k /\ k > 0 =>
               /\ k \in DOMAIN s /\ k + 1 \in DOMAIN s
               /\ MiddleOf(s) = [value2 |-> s[k] + s[k + 1], it_f |-> k, it_s |-> k + 1]
<1>1. DOMAIN s = 1 .. Len(s)
  BY SampleSeq
<1>2. ASSUME Len(s) = 2 * k + 1
      PROVE  /\ k + 1 \in DOMAIN s
             /\ MiddleOf(s) = [value2 |-> 2 * s[k + 1], it_f |-> k + 1, it_s |-> End]
  <2>1. Len(s) % 2 = 1 /\ (Len(s) + 1) \div 2 = k + 1 /\ k + 1 \in DOMAIN s
    BY <1>1, <1>2
  <2>2. QED
    BY <2>1 DEF MiddleOf, On
<1>3. ASSUME Len(s) = 2 * k, k > 0
      PROVE  /\ k \in DOMAIN s /\ k + 1 \in DOMAIN s
             /\ MiddleOf(s) = [value2 |-> s[k] + s[k + 1], it_f |-> k, it_s |-> k + 1]
  <2>1. Len(s) % 2 # 1 /\ Len(s) \div 2 = k /\ k \in DOMAIN s /\ k + 1 \in DOMAIN s
    BY <1>1, <1>3
  <2>2. QED
    BY <2>1 DEF MiddleOf, Between
<1>4. QED
  BY <1>2, <1>3

(* A size is odd or even. *)
LEMMA OddOrEven ==
  ASSUME NEW n \in Nat, n >= 1
  PROVE  \E k \in Nat : n = 2 * k + 1 \/ (n = 2 * k /\ k > 0)
<1>1. n \div 2 \in Nat
  OBVIOUS
<1>2. n = 2 * (n \div 2) + 1 \/ (n = 2 * (n \div 2) /\ n \div 2 > 0)
  OBVIOUS
<1>3. QED
  BY <1>1, <1>2

(* A size less one. *)
LEMMA OneLess ==
  ASSUME NEW n \in Nat, NEW m \in Nat, n = m + 1, NEW k \in Nat
  PROVE  /\ n = 2 * k + 1 => m = 2 * k
         /\ n = 2 * k => m = 2 * (k - 1) + 1
  OBVIOUS

(* add_to_quartile_set moves the quartile to the new middle, when its      *)
(* sample is not there yet.                                                *)
LEMMA AddKeepsMiddle ==
  ASSUME NEW h, IsHalf(h), Len(h.set) >= 1, h.q = MiddleOf(h.set),
         NEW x \in Values, Times(h.set, x) = 0
  PROVE  AddQuartile(h, x).q = MiddleOf(AddQuartile(h, x).set)
<1> DEFINE s == h.set
           p == InsertPosition(s, x)
           t == InsertAt(s, p, x)
           f == AfterInsert(h.q, p).it_f
           q == IF f \notin DOMAIN t THEN Garbage
                ELSE IF Len(t) % 2 = 1
                     THEN On(t, IF x < t[f] THEN f ELSE f + 1)
                     ELSE IF x < t[f] THEN Between(t, f - 1, f) ELSE Between(t, f, f + 1)
           g == h.q.it_f
<1>1. AddQuartile(h, x) = Half(t, q)
  BY DEF AddQuartile
<1>2. s \in Seq(Values) /\ InOrder(s) /\ Len(s) >= 1 /\ h.q = MiddleOf(s)
  BY DEF IsHalf
<1>3. /\ t \in Seq(Values) /\ GrownAt(s, p, x, t)
      /\ p \in 1 .. Len(s) + 1 /\ \A i \in 1 .. Len(s) : s[i] <= x <=> i < p
  BY <1>2, InsertKeepsOrder, InsertPositionFacts
<1>4. f = IF g >= p THEN g + 1 ELSE g
  <2>1. h.q \in QuartileType(s)
    BY DEF IsHalf
  <2> HIDE DEF p, s
  <2>2. QED
    BY <2>1 DEF AfterInsert, AtBothEnds, QuartileType
<1> HIDE DEF s, p, t, f, g
<1>5. /\ Len(s) \in Nat /\ Len(t) = Len(s) + 1 /\ x \in Nat
      /\ DOMAIN t = 1 .. Len(t)
      /\ \A i \in 1 .. Len(s) : s[i] \in Nat
      /\ \A i \in 1 .. Len(s) : t[IF i < p THEN i ELSE i + 1] = s[i]
  BY <1>2, <1>3, SampleSeq, ValuesAssumption DEF GrownAt
<1>6. \A i \in 1 .. Len(s) : s[i] # x
  BY <1>2, TimesFacts DEF s
<1>7. ASSUME g \in 1 .. Len(s)
      PROVE  /\ f \in DOMAIN t
             /\ x < t[f] <=> f = g + 1
             /\ f = g \/ f = g + 1
  <2>1. f = (IF g < p THEN g ELSE g + 1) /\ f \in 1 .. Len(t)
    BY <1>3, <1>4, <1>5, <1>7
  <2>2. t[f] = s[g]
    BY <1>5, <1>7, <2>1
  <2>3. x < s[g] <=> ~(g < p)
    BY <1>3, <1>5, <1>6, <1>7
  <2>4. QED
    BY <1>5, <1>7, <2>1, <2>2, <2>3
<1>8. PICK k \in Nat : Len(s) = 2 * k + 1 \/ (Len(s) = 2 * k /\ k > 0)
  BY <1>2, <1>5, OddOrEven
<1>9. CASE Len(s) = 2 * k + 1
  <2>1. g = k + 1
    <3>1. MiddleOf(s) = [value2 |-> 2 * s[k + 1], it_f |-> k + 1, it_s |-> End]
      BY <1>2, <1>9, Middles
    <3>2. QED
      BY <1>2, <3>1 DEF g
  <2>2. f \in DOMAIN t /\ (x < t[f] <=> f = k + 2) /\ (f = k + 1 \/ f = k + 2)
    BY <1>5, <1>7, <1>9, <2>1
  <2>3. Len(t) = 2 * (k + 1) /\ k + 1 \in Nat /\ k + 1 > 0 /\ Len(t) % 2 # 1 /\ Len(t) \div 2 = k + 1
    BY <1>5, <1>9
  <2>4. q = Between(t, k + 1, k + 2)
    BY <2>2, <2>3
  <2>5. MiddleOf(t) = Between(t, k + 1, k + 2)
    BY <2>3 DEF MiddleOf
  <2> HIDE DEF q
  <2>6. QED
    BY <1>1, <2>4, <2>5, HalfFields
<1>10. CASE Len(s) = 2 * k /\ k > 0
  <2>1. g = k
    <3>1. MiddleOf(s) = [value2 |-> s[k] + s[k + 1], it_f |-> k, it_s |-> k + 1]
      BY <1>2, <1>10, Middles
    <3>2. QED
      BY <1>2, <3>1 DEF g
  <2>2. f \in DOMAIN t /\ (x < t[f] <=> f = k + 1) /\ (f = k \/ f = k + 1)
    BY <1>5, <1>7, <1>10, <2>1
  <2>3. Len(t) % 2 = 1 /\ (Len(t) + 1) \div 2 = k + 1
    BY <1>5, <1>10
  <2>4. q = On(t, k + 1)
    BY <2>2, <2>3
  <2>5. MiddleOf(t) = On(t, k + 1)
    BY <2>3 DEF MiddleOf
  <2> HIDE DEF q
  <2>6. QED
    BY <1>1, <2>4, <2>5, HalfFields
<1>11. QED
  BY <1>8, <1>9, <1>10

(* remove_from_quartile_set does so too, when it leaves an element.        *)
LEMMA RemoveKeepsMiddle ==
  ASSUME NEW h, IsHalf(h), Len(h.set) >= 2, h.q = MiddleOf(h.set),
         NEW x \in Values, Times(h.set, x) = 1
  PROVE  RemoveQuartile(h, x).q = MiddleOf(RemoveQuartile(h, x).set)
<1> DEFINE s == h.set
           p == FindPosition(s, x)
           t == RemoveAt(s, p)
           f == h.q.it_f
           e == h.q.it_s
           q == IF f \notin DOMAIN s THEN Garbage
                ELSE IF Len(s) % 2 = 0
                     THEN On(s, IF p = f \/ x < s[f] THEN e ELSE f)
                     ELSE CASE p = f             -> Between(s, f - 1, f + 1)
                            [] p # f /\ x < s[f] -> Between(s, f, f + 1)
                            [] OTHER             -> Between(s, f - 1, f)
           move(it) == CASE it = p -> Dangling [] it > p -> it - 1 [] OTHER -> it
<1>1. RemoveQuartile(h, x) = Half(t, AfterErase(q, p))
  BY DEF RemoveQuartile
<1>2. s \in Seq(Values) /\ InOrder(s) /\ Len(s) >= 2 /\ h.q = MiddleOf(s) /\ Times(s, x) = 1
  BY DEF IsHalf
<1>3. t \in Seq(Values) /\ GrownAt(t, p, x, s) /\ p \in 1 .. Len(s) /\ s[p] = x
  BY <1>2, EraseKeepsOrder, FindPositionFacts
<1> HIDE DEF s, p, t, f, e, q
<1>4. ASSUME NEW v, NEW i, NEW j
      PROVE  AfterErase([value2 |-> v, it_f |-> i, it_s |-> j], p)
             = [value2 |-> v, it_f |-> move(i), it_s |-> move(j)]
  <2> DEFINE r == [value2 |-> v, it_f |-> i, it_s |-> j]
  <2>1. AfterErase(r, p) = [r EXCEPT !.it_f = move(@), !.it_s = move(@)]
    BY DEF AfterErase, AtBothEnds
  <2> HIDE DEF move
  <2>2. QED
    BY <2>1
<1> HIDE DEF move
<1> USE DEF q
<1>5. /\ Len(s) \in Nat /\ Len(t) \in Nat /\ Len(s) = Len(t) + 1 /\ x \in Nat
      /\ DOMAIN s = 1 .. Len(s) /\ DOMAIN t = 1 .. Len(t)
      /\ \A i \in 1 .. Len(s) : s[i] \in Nat
      /\ \A i \in 1 .. Len(t) : i < p => t[i] = s[i]
      /\ \A i \in 1 .. Len(t) : ~(i < p) => t[i] = s[i + 1]
  BY <1>2, <1>3, SampleSeq, ValuesAssumption DEF GrownAt
<1>sizes. /\ Len(s) \in Nat /\ Len(t) \in Nat /\ Len(s) = Len(t) + 1 /\ Len(s) >= 2
          /\ DOMAIN s = 1 .. Len(s) /\ DOMAIN t = 1 .. Len(t)
  BY <1>2, <1>5
<1>6. Times(t, x) = 0
  <2>1. Grown(t, x, s)
    BY <1>3 DEF Grown
  <2>2. Times(s, x) = Times(t, x) + (IF x = x THEN 1 ELSE 0)
    BY <1>2, <1>3, <2>1, TimesGrown
  <2>3. Times(t, x) \in Nat
    BY <1>3, TimesFacts
  <2>4. QED
    BY <1>2, <2>2, <2>3
<1>7. ASSUME NEW i \in 1 .. Len(s), i # p PROVE s[i] # x
  <2>1. \A k \in 1 .. Len(t) : t[k] # x
    <3>1. t \in Seq(Values)
      BY <1>3
    <3>2. QED
      BY <1>6, <3>1, TimesFacts
  <2>2. CASE i < p
    BY <1>3, <1>5, <2>1, <2>2
  <2>3. CASE i > p
    <3>1. i - 1 \in 1 .. Len(t) /\ ~(i - 1 < p) /\ (i - 1) + 1 = i
      BY <1>3, <1>5, <2>3
    <3>2. QED
      BY <1>5, <2>1, <3>1
  <2>4. QED
    BY <1>3, <1>7, <2>2, <2>3
<1>8. ASSUME NEW i \in 1 .. Len(s) PROVE x < s[i] <=> p < i
  <2>1. p <= i => x <= s[i]
    BY <1>2, <1>3 DEF InOrder
  <2>2. i <= p => s[i] <= x
    BY <1>2, <1>3 DEF InOrder
  <2>3. QED
    BY <1>3, <1>5, <1>7, <2>1, <2>2
<1>9. PICK k \in Nat : Len(s) = 2 * k + 1 \/ (Len(s) = 2 * k /\ k > 0)
  <2>1. Len(s) >= 1
    BY <1>sizes
  <2>2. QED
    BY <1>sizes, <2>1, OddOrEven
<1>10. CASE Len(s) = 2 * k + 1
  <2>1. f = k + 1 /\ k > 0 /\ k \in Nat
    <3>1. MiddleOf(s) = [value2 |-> 2 * s[k + 1], it_f |-> k + 1, it_s |-> End]
      BY <1>2, <1>10, Middles
    <3>2. k > 0
      BY <1>sizes, <1>10
    <3>3. QED
      BY <1>2, <3>1, <3>2 DEF f
  <2>2. /\ Len(s) % 2 # 0 /\ f \in DOMAIN s /\ k \in DOMAIN s /\ k + 2 \in DOMAIN s
        /\ Len(t) = 2 * k /\ k \in 1 .. Len(t) /\ k + 1 \in 1 .. Len(t)
        /\ k + 1 + 1 = k + 2 /\ k + 1 - 1 = k
    <3>1. Len(s) % 2 # 0
      BY <1>10
    <3>2. Len(t) = 2 * k /\ Len(s) = 2 * k + 1 /\ k + 1 + 1 = k + 2 /\ k + 1 - 1 = k
      <4>1. Len(s) \in Nat /\ Len(t) \in Nat /\ Len(s) = Len(t) + 1
        BY <1>sizes
      <4>2. Len(t) = 2 * k
        BY <1>10, <4>1, OneLess
      <4>3. QED
        BY <1>10, <4>2
    <3>3. /\ k \in 1 .. 2 * k + 1 /\ k + 1 \in 1 .. 2 * k + 1 /\ k + 2 \in 1 .. 2 * k + 1
          /\ k \in 1 .. 2 * k /\ k + 1 \in 1 .. 2 * k
      BY <2>1
    <3>4. QED
      BY <1>sizes, <2>1, <3>1, <3>2, <3>3
  <2>3. MiddleOf(t) = [value2 |-> t[k] + t[k + 1], it_f |-> k, it_s |-> k + 1]
    BY <1>3, <2>1, <2>2, Middles
  <2>4. CASE p = k + 1
    <3>1. q = Between(s, k, k + 2)
      BY <2>1, <2>2, <2>4
    <3>2. q = [value2 |-> s[k] + s[k + 2], it_f |-> k, it_s |-> k + 2]
      BY <2>2, <3>1 DEF Between
    <3> HIDE DEF q
    <3>3. move(k) = k /\ move(k + 2) = k + 1
      BY <2>4 DEF move
    <3>4. t[k] = s[k] /\ t[k + 1] = s[k + 2]
      BY <1>5, <2>2, <2>4
    <3>5. AfterErase(q, p) = MiddleOf(t)
      BY <1>4, <2>3, <3>2, <3>3, <3>4
    <3>6. QED
      BY <1>1, <3>5, HalfFields
  <2>5. CASE p < k + 1
    <3>1. q = Between(s, k + 1, k + 2)
      <4>1. p # f /\ x < s[f]
        BY <1>3, <1>5, <1>8, <2>1, <2>2, <2>5
      <4>2. QED
        BY <2>1, <2>2, <4>1
    <3>2. q = [value2 |-> s[k + 1] + s[k + 2], it_f |-> k + 1, it_s |-> k + 2]
      BY <2>1, <2>2, <3>1 DEF Between
    <3> HIDE DEF q
    <3>3. move(k + 1) = k /\ move(k + 2) = k + 1
      BY <1>3, <2>5 DEF move
    <3>4. t[k] = s[k + 1] /\ t[k + 1] = s[k + 2]
      <4>1. ~(k < p) /\ ~(k + 1 < p)
        BY <1>3, <1>5, <2>5
      <4>2. QED
        BY <1>5, <2>2, <4>1
    <3>5. AfterErase(q, p) = MiddleOf(t)
      BY <1>4, <2>3, <3>2, <3>3, <3>4
    <3>6. QED
      BY <1>1, <3>5, HalfFields
  <2>6. CASE p > k + 1
    <3>1. q = Between(s, k, k + 1)
      <4>1. p # f /\ ~(x < s[f])
        BY <1>3, <1>5, <1>8, <2>1, <2>2, <2>6
      <4>2. QED
        BY <2>1, <2>2, <4>1
    <3>2. q = [value2 |-> s[k] + s[k + 1], it_f |-> k, it_s |-> k + 1]
      BY <2>1, <2>2, <3>1 DEF Between
    <3> HIDE DEF q
    <3>3. move(k) = k /\ move(k + 1) = k + 1
      BY <1>3, <2>6 DEF move
    <3>4. t[k] = s[k] /\ t[k + 1] = s[k + 1]
      <4>1. k < p /\ k + 1 < p
        BY <1>3, <1>5, <2>6
      <4>2. QED
        BY <1>5, <2>2, <4>1
    <3>5. AfterErase(q, p) = MiddleOf(t)
      BY <1>4, <2>3, <3>2, <3>3, <3>4
    <3>6. QED
      BY <1>1, <3>5, HalfFields
  <2>7. QED
    BY <1>3, <2>4, <2>5, <2>6
<1>11. CASE Len(s) = 2 * k /\ k > 0
  <2>1. f = k /\ e = k + 1
    <3>1. MiddleOf(s) = [value2 |-> s[k] + s[k + 1], it_f |-> k, it_s |-> k + 1]
      BY <1>2, <1>11, Middles
    <3>2. QED
      BY <1>2, <3>1 DEF f, e
  <2>2. /\ Len(s) % 2 = 0 /\ k \in DOMAIN s /\ k + 1 \in DOMAIN s
        /\ Len(t) = 2 * (k - 1) + 1 /\ k - 1 \in Nat /\ (k - 1) + 1 = k /\ k \in 1 .. Len(t)
    <3>1. Len(s) % 2 = 0
      BY <1>11
    <3>2. Len(t) = 2 * (k - 1) + 1 /\ k - 1 \in Nat /\ (k - 1) + 1 = k
      <4>1. Len(s) \in Nat /\ Len(t) \in Nat /\ Len(s) = Len(t) + 1
        BY <1>sizes
      <4>2. Len(t) = 2 * (k - 1) + 1
        BY <1>11, <4>1, OneLess
      <4>3. QED
        BY <1>11, <4>2
    <3>3. k \in 1 .. 2 * k /\ k + 1 \in 1 .. 2 * k /\ k \in 1 .. 2 * (k - 1) + 1
      BY <1>11
    <3>4. QED
      BY <1>sizes, <1>11, <3>1, <3>2, <3>3
  <2>3. MiddleOf(t) = [value2 |-> 2 * t[k], it_f |-> k, it_s |-> End]
    BY <1>3, <2>2, Middles
  <2>4. move(End) = End
    BY <1>3 DEF move, End
  <2>5. CASE p <= k
    <3>1. p = k \/ x < s[k]
      BY <1>3, <1>5, <1>8, <2>2, <2>5
    <3>2. q = On(s, k + 1)
      BY <2>1, <2>2, <3>1
    <3>3. q = [value2 |-> 2 * s[k + 1], it_f |-> k + 1, it_s |-> End]
      BY <2>2, <3>2 DEF On
    <3> HIDE DEF q
    <3>4. move(k + 1) = k
      BY <1>3, <2>5 DEF move
    <3>5. t[k] = s[k + 1]
      <4>1. ~(k < p)
        BY <1>3, <2>5
      <4>2. QED
        BY <1>5, <2>2, <4>1
    <3>6. AfterErase(q, p) = MiddleOf(t)
      BY <1>4, <2>3, <2>4, <3>3, <3>4, <3>5
    <3>7. QED
      BY <1>1, <3>6, HalfFields
  <2>6. CASE ~(p <= k)
    <3>1. p # k /\ ~(x < s[k]) /\ k < p
      BY <1>3, <1>5, <1>8, <2>2, <2>6
    <3>2. q = On(s, k)
      BY <2>1, <2>2, <3>1
    <3>3. q = [value2 |-> 2 * s[k], it_f |-> k, it_s |-> End]
      BY <2>2, <3>2 DEF On
    <3> HIDE DEF q
    <3>4. move(k) = k
      BY <1>3, <3>1 DEF move
    <3>5. t[k] = s[k]
      BY <1>5, <2>2, <3>1
    <3>6. AfterErase(q, p) = MiddleOf(t)
      BY <1>4, <2>3, <2>4, <3>3, <3>4, <3>5
    <3>7. QED
      BY <1>1, <3>6, HalfFields
  <2>7. QED
    BY <2>5, <2>6
<1>12. QED
  BY <1>9, <1>10, <1>11

(* An addition of a sample that is not there keeps a multiset proper.      *)
LEMMA AddProper ==
  ASSUME NEW h, IsHalf(h), Proper(h), NEW x \in Values, Times(h.set, x) = 0
  PROVE  Proper(AddQuartile(h, x))
<1> DEFINE g == AddQuartile(h, x)
<1>1. g.q = MiddleOf(g.set)
  BY AddKeepsMiddle DEF Proper
<1>2. IsHalf(g) /\ HoldsAlso(h.set, x, g.set)
  BY Added
<1> HIDE DEF g
<1>3. Len(g.set) >= 1
  <2>1. Len(h.set) \in Nat
    BY SampleSeq DEF IsHalf
  <2>2. Len(g.set) = Len(h.set) + 1
    BY <1>2 DEF HoldsAlso
  <2>3. QED
    BY <2>1, <2>2
<1>4. ASSUME NEW y, Times(g.set, y) # 0 PROVE Times(g.set, y) = 1
  <2>1. Times(g.set, y) = Times(h.set, y) + (IF x = y THEN 1 ELSE 0)
    BY <1>2 DEF HoldsAlso
  <2>2. Times(h.set, y) \in Nat /\ (Times(h.set, y) # 0 => Times(h.set, y) = 1)
    BY TimesFacts DEF IsHalf, Proper
  <2>3. QED
    BY <1>4, <2>1, <2>2
<1>5. QED
  BY <1>1, <1>3, <1>4 DEF Proper, g

(* A removal of a sample that is not the last keeps a multiset proper, and *)
(* adds nothing to it.                                                     *)
LEMMA RemoveProper ==
  ASSUME NEW h, IsHalf(h), Proper(h), Len(h.set) >= 2, NEW x \in Values, Times(h.set, x) # 0
  PROVE  /\ Proper(RemoveQuartile(h, x))
         /\ \A y : Times(h.set, y) = 0 => Times(RemoveQuartile(h, x).set, y) = 0
<1> DEFINE g == RemoveQuartile(h, x)
<1>1. g.q = MiddleOf(g.set)
  BY RemoveKeepsMiddle DEF Proper
<1>2. IsHalf(g) /\ HoldsAlso(g.set, x, h.set)
  BY Removed
<1> HIDE DEF g
<1>3. Len(g.set) >= 1
  <2>1. Len(h.set) \in Nat /\ Len(g.set) \in Nat
    BY <1>2, SampleSeq DEF IsHalf
  <2>2. Len(h.set) = Len(g.set) + 1
    BY <1>2 DEF HoldsAlso
  <2>3. QED
    BY <2>1, <2>2
<1>4. ASSUME NEW y
      PROVE  /\ Times(g.set, y) # 0 => Times(g.set, y) = 1
             /\ Times(h.set, y) = 0 => Times(g.set, y) = 0
  <2>1. Times(h.set, y) = Times(g.set, y) + (IF x = y THEN 1 ELSE 0)
    BY <1>2 DEF HoldsAlso
  <2>2. Times(g.set, y) \in Nat
    BY <1>2, TimesFacts DEF IsHalf
  <2>3. Times(h.set, y) \in Nat /\ (Times(h.set, y) # 0 => Times(h.set, y) = 1)
    BY TimesFacts DEF IsHalf, Proper
  <2>4. QED
    BY <2>1, <2>2, <2>3
<1>5. QED
  BY <1>1, <1>3, <1>4 DEF Proper, g

(* A proper multiset has a quartile, and not an undefined one.             *)
LEMMA ProperIsDefined ==
  ASSUME NEW h, IsHalf(h), Proper(h)
  PROVE  h.q # Garbage /\ h.q.value2 = Middle2(h.set)
<1> DEFINE s == h.set
<1>1. s \in Seq(Values) /\ Len(s) \in Nat /\ Len(s) >= 1 /\ h.q = MiddleOf(s)
  BY SampleSeq DEF IsHalf, Proper
<1> HIDE DEF s
<1>2. PICK k \in Nat : Len(s) = 2 * k + 1 \/ (Len(s) = 2 * k /\ k > 0)
  BY <1>1, OddOrEven
<1>3. Garbage.it_f = -1
  BY DEF Garbage, Dangling
<1>4. CASE Len(s) = 2 * k + 1
  <2>1. MiddleOf(s) = [value2 |-> 2 * s[k + 1], it_f |-> k + 1, it_s |-> End]
    BY <1>1, <1>4, Middles
  <2>2. h.q.it_f # -1
    BY <1>1, <2>1
  <2>3. Len(s) % 2 = 1 /\ (Len(s) + 1) \div 2 = k + 1
    BY <1>4
  <2>4. h.q.value2 = Middle2(s)
    BY <1>1, <2>1, <2>3 DEF Middle2
  <2>5. QED
    BY <1>3, <2>2, <2>4 DEF s
<1>5. CASE Len(s) = 2 * k /\ k > 0
  <2>1. MiddleOf(s) = [value2 |-> s[k] + s[k + 1], it_f |-> k, it_s |-> k + 1]
    BY <1>1, <1>5, Middles
  <2>2. h.q.it_f # -1
    BY <1>1, <2>1
  <2>3. Len(s) % 2 # 1 /\ Len(s) \div 2 = k
    BY <1>5
  <2>4. h.q.value2 = Middle2(s)
    BY <1>1, <2>1, <2>3 DEF Middle2
  <2>5. QED
    BY <1>3, <2>2, <2>4 DEF s
<1>6. QED
  BY <1>2, <1>4, <1>5

(* A call that leaves two proper multisets does not crash.                 *)
LEMMA BecomeProper ==
  ASSUME NEW f, NEW m, NEW t, Become(f, m, t), IsHalf(f), IsHalf(t), Proper(f), Proper(t)
  PROVE  ~crashed' /\ Proper(First)' /\ Proper(Third)'
<1>1. f.q # Garbage /\ t.q # Garbage
  BY ProperIsDefined
<1>2. crashed' = FALSE
  BY <1>1 DEF Become
<1>3. First'.set = f.set /\ First'.q = f.q /\ Third'.set = t.set /\ Third'.q = t.q
  BY HalfFields DEF Become, First, Third
<1>4. QED
  BY <1>2, <1>3 DEF Proper

(* A multiset of one is proper. *)
LEMMA OnlyIsProper ==
  ASSUME NEW v \in Values
  PROVE  Proper(Only(v))
<1>1. IsHalf(Only(v)) /\ Len(Only(v).set) = 1 /\ Only(v).set[1] = v
  BY SmallHalves
<1>2. Only(v).set = <<v>> /\ Only(v).q = On(<<v>>, 1)
  BY HalfFields DEF Only
<1>3. MiddleOf(Only(v).set) = On(<<v>>, 1)
  <2>1. Len(Only(v).set) % 2 = 1 /\ (Len(Only(v).set) + 1) \div 2 = 1
    BY <1>1
  <2>2. QED
    BY <1>2, <2>1 DEF MiddleOf
<1>4. \A y : Times(Only(v).set, y) = IF v = y THEN 1 ELSE 0
  BY <1>1, SmallSets DEF IsHalf
<1>5. QED
  BY <1>1, <1>2, <1>3, <1>4 DEF Proper

NoneRepeated == \A y : InBag(y) # 0 => InBag(y) = 1

Kept == ~hist.repeated /\ ~hist.shrunk

QInv ==
    /\ hist \in [repeated : BOOLEAN, shrunk : BOOLEAN, skewed : BOOLEAN]
    /\ ~hist.repeated /\ sample_count > 0 => NoneRepeated
    /\ Kept => /\ ~crashed
               /\ sample_count > 1 => Proper(First) /\ Proper(Third)

(* In a bag without repetitions, the addition to an even number of samples *)
(* keeps both multisets proper.                                            *)
LEMMA AddToPairProper ==
  ASSUME BagInv, median.is_composite_quartile, NoneRepeated, Proper(First), Proper(Third),
         NEW x \in Values, InBag(x) = 0, AddToPair(x)
  PROVE  ~crashed' /\ Proper(First)' /\ Proper(Third)'
<1> DEFINE low  == AddQuartile(First, x)
           high == AddQuartile(Third, x)
<1>1. /\ IsHalf(First) /\ IsHalf(Third) /\ Len(Third.set) = Len(First.set) /\ Len(First.set) \in Nat
      /\ Times(First.set, x) \in Nat /\ Times(Third.set, x) \in Nat /\ Len(First.set) >= 1
      /\ InBag(x) = Times(First.set, x) + Times(Third.set, x)
  BY BagFacts, PairFacts
<1>2. Times(First.set, x) = 0 /\ Times(Third.set, x) = 0
  BY <1>1
<1>3. /\ IsHalf(low) /\ HoldsAlso(First.set, x, low.set) /\ Proper(low)
      /\ IsHalf(high) /\ HoldsAlso(Third.set, x, high.set) /\ Proper(high)
  BY <1>1, <1>2, Added, AddProper
<1>4. CASE x < median.value_f
  <2>1. Become(RemoveQuartile(low, Largest(low)), SingleMedian(Largest(low)), Third)
    BY <1>4 DEF AddToPair
  <2> HIDE DEF low
  <2>2. Len(low.set) >= 2 /\ Len(low.set) >= 1
    BY <1>1, <1>3 DEF HoldsAlso
  <2>3. Largest(low) \in Values /\ Times(low.set, Largest(low)) # 0
    BY <1>3, <2>2, Ends
  <2>4. /\ IsHalf(RemoveQuartile(low, Largest(low)))
        /\ Proper(RemoveQuartile(low, Largest(low)))
    BY <1>3, <2>2, <2>3, Removed, RemoveProper
  <2>5. QED
    BY <1>1, <2>1, <2>4, BecomeProper
<1>5. CASE ~(x < median.value_f) /\ x >= median.value_s
  <2>1. Become(First, SingleMedian(Smallest(high)), RemoveQuartile(high, Smallest(high)))
    BY <1>5 DEF AddToPair
  <2> HIDE DEF high
  <2>2. Len(high.set) >= 2 /\ Len(high.set) >= 1
    BY <1>1, <1>3 DEF HoldsAlso
  <2>3. Smallest(high) \in Values /\ Times(high.set, Smallest(high)) # 0
    BY <1>3, <2>2, Ends
  <2>4. /\ IsHalf(RemoveQuartile(high, Smallest(high)))
        /\ Proper(RemoveQuartile(high, Smallest(high)))
    BY <1>3, <2>2, <2>3, Removed, RemoveProper
  <2>5. QED
    BY <1>1, <2>1, <2>4, BecomeProper
<1>6. CASE ~(x < median.value_f) /\ ~(x >= median.value_s)
  <2>1. Become(First, SingleMedian(x), Third)
    BY <1>6 DEF AddToPair
  <2>2. QED
    BY <1>1, <2>1, BecomeProper
<1>7. QED
  BY <1>4, <1>5, <1>6

(* The addition to an odd number of samples does.                          *)
LEMMA AddToSingleProper ==
  ASSUME BagInv, sample_count > 0, ~median.is_composite_quartile, NoneRepeated,
         Proper(First), Proper(Third), NEW x \in Values, InBag(x) = 0, AddToSingle(x)
  PROVE  ~crashed' /\ Proper(First)' /\ Proper(Third)'
<1> DEFINE m == median.value_f
<1>1. /\ IsHalf(First) /\ IsHalf(Third) /\ m \in Values
      /\ \A y : /\ Times(First.set, y) \in Nat /\ Times(Third.set, y) \in Nat
                /\ InBag(y) = Times(First.set, y) + Times(Third.set, y) + (IF m = y THEN 1 ELSE 0)
  BY BagFacts, SingleFacts
<1>2. Times(First.set, x) = 0 /\ Times(Third.set, x) = 0
  BY <1>1
<1>3. Times(First.set, m) = 0 /\ Times(Third.set, m) = 0
  <2>1. InBag(m) = Times(First.set, m) + Times(Third.set, m) + 1
    BY <1>1
  <2>2. InBag(m) # 0 => InBag(m) = 1
    BY DEF NoneRepeated
  <2>3. QED
    BY <1>1, <2>1, <2>2
<1>4. CASE x >= m
  <2>1. Become(AddQuartile(First, m), CompositeMedian(m, Smallest(AddQuartile(Third, x))),
               AddQuartile(Third, x))
    BY <1>4 DEF AddToSingle
  <2>2. /\ IsHalf(AddQuartile(First, m)) /\ Proper(AddQuartile(First, m))
        /\ IsHalf(AddQuartile(Third, x)) /\ Proper(AddQuartile(Third, x))
    BY <1>1, <1>2, <1>3, Added, AddProper
  <2>3. QED
    BY <2>1, <2>2, BecomeProper
<1>5. CASE ~(x >= m)
  <2>1. Become(AddQuartile(First, x), CompositeMedian(Largest(AddQuartile(First, x)), m),
               AddQuartile(Third, m))
    BY <1>5 DEF AddToSingle
  <2>2. /\ IsHalf(AddQuartile(First, x)) /\ Proper(AddQuartile(First, x))
        /\ IsHalf(AddQuartile(Third, m)) /\ Proper(AddQuartile(Third, m))
    BY <1>1, <1>2, <1>3, Added, AddProper
  <2>3. QED
    BY <2>1, <2>2, BecomeProper
<1>6. QED
  BY <1>4, <1>5

(* The removal from an even number of samples does.                        *)
LEMMA RemoveFromPairProper ==
  ASSUME BagInv, median.is_composite_quartile, sample_count > 2, Proper(First), Proper(Third),
         NEW x \in Values, ~RemoveThrows(x), RemoveFromPair(x)
  PROVE  ~crashed' /\ Proper(First)' /\ Proper(Third)'
<1> DEFINE a == median.value_f
           b == median.value_s
<1>1. /\ IsHalf(First) /\ IsHalf(Third) /\ Len(Third.set) = Len(First.set) /\ Len(First.set) \in Nat
      /\ sample_count \in Nat /\ sample_count = 2 * Len(First.set)
      /\ Len(First.set) >= 1
      /\ a = First.set[Len(First.set)] /\ b = Third.set[1]
      /\ a \in Values /\ b \in Values /\ a \in Nat /\ b \in Nat
  BY BagFacts, PairFacts
<1>2. x \in Nat
  BY ValuesAssumption
<1>3. Times(First.set, a) # 0 /\ Times(Third.set, b) # 0
  BY <1>1, Ends
<1>4. /\ x <= a => Times(First.set, x) # 0
      /\ x > a => x >= b \/ ~(x < b)
      /\ x > a /\ x >= b => Times(Third.set, x) # 0
  BY <1>1, Admitted
<1>5. Len(First.set) >= 2 /\ Len(Third.set) >= 2
  <2> DEFINE L == Len(First.set)
  <2>1. L \in Nat /\ Len(Third.set) = L /\ 2 * L > 2
    BY <1>1
  <2> HIDE DEF L
  <2>2. L >= 2
    BY <2>1
  <2>3. QED
    BY <2>1, <2>2 DEF L
<1>6. CASE x <= a
  <2>1. Become(RemoveQuartile(First, x), SingleMedian(b), RemoveQuartile(Third, b))
    BY <1>6 DEF RemoveFromPair
  <2> HIDE DEF a, b
  <2>2. /\ IsHalf(RemoveQuartile(First, x)) /\ Proper(RemoveQuartile(First, x))
        /\ IsHalf(RemoveQuartile(Third, b)) /\ Proper(RemoveQuartile(Third, b))
    BY <1>1, <1>3, <1>4, <1>5, <1>6, Removed, RemoveProper
  <2>3. QED
    BY <2>1, <2>2, BecomeProper
<1>7. CASE ~(x <= a)
  <2>1. Become(RemoveQuartile(First, a), SingleMedian(a), RemoveQuartile(Third, x))
    BY <1>7 DEF RemoveFromPair
  <2> HIDE DEF a, b
  <2>2. Times(Third.set, x) # 0
    <3>1. x > a
      BY <1>1, <1>2, <1>7
    <3>2. x >= b
      BY <1>1, <1>2, <1>4, <3>1
    <3>3. QED
      BY <1>4, <3>1, <3>2
  <2>3. /\ IsHalf(RemoveQuartile(First, a)) /\ Proper(RemoveQuartile(First, a))
        /\ IsHalf(RemoveQuartile(Third, x)) /\ Proper(RemoveQuartile(Third, x))
    BY <1>1, <1>3, <1>5, <2>2, Removed, RemoveProper
  <2>4. QED
    BY <2>1, <2>3, BecomeProper
<1>8. QED
  BY <1>6, <1>7

(* The removal from an odd number of samples does, unless it takes the     *)
(* only element of a multiset.                                             *)
LEMMA RemoveFromSingleProper ==
  ASSUME BagInv, ~median.is_composite_quartile, sample_count > 2, NoneRepeated,
         Proper(First), Proper(Third), NEW x \in Values, ~RemoveThrows(x), RemoveFromSingle(x),
         sample_count = 3 => x = median.value_f
  PROVE  ~crashed' /\ Proper(First)' /\ Proper(Third)'
<1> DEFINE m == median.value_f
<1>1. /\ IsHalf(First) /\ IsHalf(Third) /\ m \in Values /\ m \in Nat
      /\ Len(Third.set) = Len(First.set) /\ Len(First.set) \in Nat /\ sample_count \in Nat
      /\ sample_count > 0
      /\ \A y : Times(First.set, y) \in Nat /\ Times(Third.set, y) \in Nat
  BY BagFacts, SingleFacts
<1>2. /\ sample_count = 2 * Len(First.set) + 1
      /\ \A y : InBag(y) = Times(First.set, y) + Times(Third.set, y) + (IF m = y THEN 1 ELSE 0)
  BY <1>1, SingleFacts
<1>3. x \in Nat
  BY ValuesAssumption
<1>4. /\ x > m => Times(Third.set, x) # 0
      /\ x < m => Times(First.set, x) # 0
  BY <1>1, Admitted
<1>5. Times(First.set, m) = 0 /\ Times(Third.set, m) = 0
  <2>1. InBag(m) = Times(First.set, m) + Times(Third.set, m) + 1
    BY <1>2
  <2>2. InBag(m) # 0 => InBag(m) = 1
    BY DEF NoneRepeated
  <2>3. QED
    BY <1>1, <2>1, <2>2
<1>6. ASSUME x # m PROVE Len(First.set) >= 2 /\ Len(Third.set) >= 2
  <2> DEFINE L == Len(First.set)
  <2>1. L \in Nat /\ Len(Third.set) = L /\ 2 * L + 1 > 2 /\ 2 * L + 1 # 3
    BY <1>1, <1>2, <1>6
  <2> HIDE DEF L
  <2>2. L >= 2
    BY <2>1
  <2>3. QED
    BY <2>1, <2>2 DEF L
<1>7. CASE x > m
  <2> DEFINE g == RemoveQuartile(Third, x)
  <2>1. Become(First, CompositeMedian(Largest(First), m), AddQuartile(g, m))
    BY <1>7 DEF RemoveFromSingle
  <2> HIDE DEF m
  <2>2. x # m
    BY <1>1, <1>3, <1>7
  <2>3. IsHalf(g) /\ Proper(g) /\ Times(g.set, m) = 0
    BY <1>1, <1>4, <1>5, <1>6, <1>7, <2>2, Removed, RemoveProper
  <2> HIDE DEF g
  <2>4. IsHalf(AddQuartile(g, m)) /\ Proper(AddQuartile(g, m))
    BY <1>1, <2>3, Added, AddProper
  <2>5. QED
    BY <1>1, <2>1, <2>4, BecomeProper
<1>8. CASE ~(x > m) /\ x < m
  <2> DEFINE g == RemoveQuartile(First, x)
  <2>1. Become(AddQuartile(g, m), CompositeMedian(m, Smallest(Third)), Third)
    BY <1>8 DEF RemoveFromSingle
  <2> HIDE DEF m
  <2>2. x # m
    BY <1>1, <1>3, <1>8
  <2>3. IsHalf(g) /\ Proper(g) /\ Times(g.set, m) = 0
    BY <1>1, <1>4, <1>5, <1>6, <1>8, <2>2, Removed, RemoveProper
  <2> HIDE DEF g
  <2>4. IsHalf(AddQuartile(g, m)) /\ Proper(AddQuartile(g, m))
    BY <1>1, <2>3, Added, AddProper
  <2>5. QED
    BY <1>1, <2>1, <2>4, BecomeProper
<1>9. CASE ~(x > m) /\ ~(x < m)
  <2>1. Become(First, CompositeMedian(Largest(First), Smallest(Third)), Third)
    BY <1>9 DEF RemoveFromSingle
  <2>2. QED
    BY <1>1, <2>1, BecomeProper
<1>10. QED
  BY <1>7, <1>8, <1>9

(* A bag of at most one has no repetitions. *)
SmallBags == sample_count = 1 => NoneRepeated

(* This holds in every arrangement. *)
LEMMA SmallBag == BagInv => SmallBags
  BY BagSizes DEF SmallBags, NoneRepeated

(* The quartiles of a bag of none and of one are defined.                  *)
LEMMA NoQuartileIsDefined ==
  ASSUME NEW v \in Nat
  PROVE  NoQuartile(v) # Garbage
<1>1. NoQuartile(v).it_f = 0 /\ Garbage.it_f = -1
  BY DEF NoQuartile, Garbage, End, Dangling
<1>2. QED
  BY <1>1

(* A call that leaves two defined quartiles does not crash.                *)
LEMMA BecomeDefined ==
  ASSUME NEW f, NEW m, NEW t, Become(f, m, t), f.q # Garbage, t.q # Garbage
  PROVE  crashed' = FALSE
  BY DEF Become

(* As long as no sample was repeated and no multiset of one was emptied,   *)
(* add_sample keeps the quartiles.                                         *)
LEMMA AddKeepsQuartiles ==
  ASSUME BagInv, QInv, NEW x \in Values, AddSample(x)
  PROVE  QInv'
<1>1. /\ sample_count \in Nat /\ sample_count' = sample_count + 1 /\ x \in Nat
      /\ \A y : InBag(y)' = InBag(y) + (IF x = y THEN 1 ELSE 0)
  BY BagFacts, AddArranges, ValuesAssumption DEF AddSample
<1>2. /\ hist \in [repeated : BOOLEAN, shrunk : BOOLEAN, skewed : BOOLEAN]
      /\ hist' = [hist EXCEPT !.repeated = sample_count > 0 /\ (@ \/ Present(x)),
                              !.shrunk = sample_count > 1 /\ @]
  BY DEF QInv, AddSample
<1>3. /\ hist' \in [repeated : BOOLEAN, shrunk : BOOLEAN, skewed : BOOLEAN]
      /\ ~hist'.repeated /\ sample_count > 0 => ~hist.repeated /\ ~Present(x)
      /\ ~hist'.shrunk /\ sample_count > 1 => ~hist.shrunk
  BY <1>2
<1>4. ~Present(x) => InBag(x) = 0
  <2>1. Multiplicity(x) = InBag(x) /\ InBag(x) \in Nat
    BY MultiplicityIsInBag DEF MultiplicityCounts
  <2>2. QED
    BY <2>1 DEF Present
<1>5. ASSUME ~hist'.repeated PROVE NoneRepeated'
  <2>1. CASE sample_count = 0
    <3>1. \A y : InBag(y) = 0
      BY <2>1, BagSizes
    <3>2. QED
      BY <1>1, <3>1 DEF NoneRepeated
  <2>2. CASE sample_count > 0
    <3>1. InBag(x) = 0 /\ NoneRepeated
      BY <1>3, <1>4, <1>5, <2>2 DEF QInv
    <3>2. ASSUME NEW y, InBag(y)' # 0 PROVE InBag(y)' = 1
      <4>1. InBag(y)' = InBag(y) + (IF x = y THEN 1 ELSE 0)
        BY <1>1
      <4>2. InBag(y) # 0 => InBag(y) = 1
        BY <3>1 DEF NoneRepeated
      <4>3. QED
        BY <3>1, <3>2, <4>1, <4>2
    <3>3. QED
      BY <3>2 DEF NoneRepeated
  <2>3. QED
    BY <1>1, <2>1, <2>2
<1>6. ASSUME ~hist'.repeated, ~hist'.shrunk
      PROVE  ~crashed' /\ (sample_count' > 1 => Proper(First)' /\ Proper(Third)')
  <2>1. CASE sample_count = 0
    <3>1. Become(Half(first_quartile_set, NoQuartile(x)), SingleMedian(x),
                 Half(third_quartile_set, NoQuartile(x)))
      BY <2>1 DEF AddSample
    <3>2. crashed' = FALSE
      <4> DEFINE f == Half(first_quartile_set, NoQuartile(x))
                 t == Half(third_quartile_set, NoQuartile(x))
      <4>1. f.q # Garbage /\ t.q # Garbage
        BY <1>1, HalfFields, NoQuartileIsDefined
      <4> HIDE DEF f, t
      <4>2. QED
        BY <3>1, <4>1, BecomeDefined DEF f, t
    <3>3. ~(sample_count' > 1)
      BY <1>1, <2>1
    <3>4. QED
      BY <3>2, <3>3
  <2>2. CASE sample_count = 1
    <3> DEFINE m == median.value_f
               lo == IF x < m THEN x ELSE m
               hi == IF x < m THEN m ELSE x
    <3>1. Become(Only(lo), CompositeMedian(lo, hi), Only(hi))
      BY <2>2 DEF AddSample
    <3>2. m \in Values
      BY <2>2, BagSizes
    <3> HIDE DEF m
    <3>3. lo \in Values /\ hi \in Values
      BY <3>2
    <3> HIDE DEF lo, hi
    <3>4. /\ IsHalf(Only(lo)) /\ Proper(Only(lo))
          /\ IsHalf(Only(hi)) /\ Proper(Only(hi))
      BY <3>3, SmallHalves, OnlyIsProper
    <3>5. QED
      BY <3>1, <3>4, BecomeProper
  <2>3. CASE sample_count > 1
    <3>1. sample_count > 0
      BY <1>1, <2>3
    <3>2. /\ InBag(x) = 0 /\ Kept
      BY <1>3, <1>4, <1>6, <2>3, <3>1 DEF Kept
    <3>3. NoneRepeated /\ Proper(First) /\ Proper(Third)
      BY <2>3, <3>1, <3>2 DEF QInv, Kept
    <3>4. CASE median.is_composite_quartile
      <4>1. AddToPair(x)
        BY <1>1, <2>3, <3>4 DEF AddSample
      <4>2. QED
        BY <3>2, <3>3, <3>4, <4>1, AddToPairProper
    <3>5. CASE ~median.is_composite_quartile
      <4>1. AddToSingle(x)
        BY <1>1, <2>3, <3>5 DEF AddSample
      <4>2. QED
        BY <3>1, <3>2, <3>3, <3>5, <4>1, AddToSingleProper
    <3>6. QED
      BY <3>4, <3>5
  <2>4. QED
    BY <1>1, <2>1, <2>2, <2>3
<1>7. QED
  BY <1>3, <1>5, <1>6 DEF QInv, Kept

(* remove_sample does, too. *)
LEMMA RemoveKeepsQuartiles ==
  ASSUME BagInv, QInv, NEW x \in Values, RemoveSample(x), SmallBags', MultiplicityCounts'
  PROVE  QInv'
<1>1. /\ sample_count \in Nat /\ sample_count' = sample_count - 1 /\ x \in Nat
      /\ sample_count > 0 /\ ~RemoveThrows(x)
      /\ sample_count > 1 => \A y : InBag(y) = InBag(y)' + (IF x = y THEN 1 ELSE 0)
  BY BagFacts, RemoveArranges, ValuesAssumption DEF RemoveSample
<1>2. /\ hist \in [repeated : BOOLEAN, shrunk : BOOLEAN, skewed : BOOLEAN]
      /\ hist' = [hist EXCEPT !.repeated = sample_count > 2 /\ @,
                              !.shrunk = \/ sample_count = 3 /\ x # median.value_f
                                         \/ sample_count > 2 /\ @,
                              !.skewed = @ \/ ~Present(x)]
  BY DEF QInv, RemoveSample
<1>3. /\ hist' \in [repeated : BOOLEAN, shrunk : BOOLEAN, skewed : BOOLEAN]
      /\ ~hist'.repeated /\ sample_count > 2 => ~hist.repeated
      /\ ~hist'.shrunk /\ sample_count > 2 => ~hist.shrunk
      /\ ~hist'.shrunk /\ sample_count = 3 => x = median.value_f
  BY <1>2
<1>4. ASSUME ~hist'.repeated, sample_count' > 0 PROVE NoneRepeated'
  <2>1. CASE sample_count = 2
    <3>1. sample_count' = 1
      BY <1>1, <2>1
    <3>2. QED
      BY <3>1 DEF SmallBags
  <2>2. CASE sample_count > 2
    <3>1. sample_count > 0 /\ sample_count > 1
      BY <1>1, <2>2
    <3>2. NoneRepeated
      BY <1>3, <1>4, <2>2, <3>1 DEF QInv
    <3>3. ASSUME NEW y, InBag(y)' # 0 PROVE InBag(y)' = 1
      <4>1. InBag(y) = InBag(y)' + (IF x = y THEN 1 ELSE 0)
        BY <1>1, <3>1
      <4>2. InBag(y) # 0 => InBag(y) = 1
        BY <3>2 DEF NoneRepeated
      <4>3. InBag(y)' \in Nat
        BY DEF MultiplicityCounts
      <4>4. QED
        BY <3>3, <4>1, <4>2, <4>3
    <3>4. QED
      BY <3>3 DEF NoneRepeated
  <2>3. QED
    BY <1>1, <1>4, <2>1, <2>2
<1>5. ASSUME ~hist'.repeated, ~hist'.shrunk
      PROVE  ~crashed' /\ (sample_count' > 1 => Proper(First)' /\ Proper(Third)')
  <2>1. CASE sample_count = 1
    <3>1. Become(Half(first_quartile_set, NoQuartile(0)), SingleMedian(0),
                 Half(third_quartile_set, NoQuartile(0)))
      BY <2>1 DEF RemoveSample
    <3>2. crashed' = FALSE
      <4> DEFINE f == Half(first_quartile_set, NoQuartile(0))
                 t == Half(third_quartile_set, NoQuartile(0))
      <4>1. f.q # Garbage /\ t.q # Garbage
        BY HalfFields, NoQuartileIsDefined
      <4> HIDE DEF f, t
      <4>2. QED
        BY <3>1, <4>1, BecomeDefined DEF f, t
    <3>3. ~(sample_count' > 1)
      BY <1>1, <2>1
    <3>4. QED
      BY <3>2, <3>3
  <2>2. CASE sample_count = 2
    <3> DEFINE v == IF median.value_f = x THEN median.value_s ELSE median.value_f
    <3>1. Become(Empty(v), SingleMedian(v), Empty(v))
      BY <2>2 DEF RemoveSample
    <3>2. v \in Nat
      <4>1. median \in MedianType
        BY DEF BagInv, Arranged
      <4>2. median.value_f \in Nat /\ median.value_s \in Nat
        <5>1. median.value_f \in Values \cup {0} /\ median.value_s \in Values \cup {0}
          BY <4>1 DEF MedianType
        <5>2. \A w \in Values \cup {0} : w \in Nat
          BY ValuesAssumption
        <5>3. QED
          BY <5>1, <5>2
      <4>3. QED
        BY <4>2
    <3> HIDE DEF v
    <3>3. crashed' = FALSE
      <4>1. Empty(v).q = NoQuartile(v)
        BY HalfFields DEF Empty
      <4>2. Empty(v).q # Garbage
        BY <3>2, <4>1, NoQuartileIsDefined
      <4>3. QED
        BY <3>1, <4>2, BecomeDefined
    <3>4. ~(sample_count' > 1)
      BY <1>1, <2>2
    <3>5. QED
      BY <3>3, <3>4
  <2>3. CASE sample_count > 2
    <3>1. sample_count > 0 /\ sample_count > 1
      BY <1>1, <2>3
    <3>2. Kept
      BY <1>3, <1>5, <2>3 DEF Kept
    <3>3. NoneRepeated /\ Proper(First) /\ Proper(Third)
      BY <3>1, <3>2 DEF QInv, Kept
    <3>4. CASE median.is_composite_quartile
      <4>1. RemoveFromPair(x)
        BY <1>1, <2>3, <3>4 DEF RemoveSample
      <4>2. QED
        BY <1>1, <2>3, <3>3, <3>4, <4>1, RemoveFromPairProper
    <3>5. CASE ~median.is_composite_quartile
      <4>1. RemoveFromSingle(x)
        BY <1>1, <2>3, <3>5 DEF RemoveSample
      <4>2. sample_count = 3 => x = median.value_f
        BY <1>3, <1>5
      <4>3. QED
        BY <1>1, <2>3, <3>3, <3>5, <4>1, <4>2, RemoveFromSingleProper
    <3>6. QED
      BY <3>4, <3>5
  <2>4. QED
    BY <1>1, <2>1, <2>2, <2>3
<1>6. QED
  BY <1>3, <1>4, <1>5 DEF QInv, Kept

(* What is known of the quartiles is inductive. *)
LEMMA QInvCorrect == Spec => []QInv
<1>1. Init => QInv
  <2> SUFFICES ASSUME Init PROVE QInv
    OBVIOUS
  <2>1. sample_count = 0 /\ ~crashed /\ ~(sample_count > 0) /\ ~(sample_count > 1)
    BY DEF Init
  <2>2. hist \in [repeated : BOOLEAN, shrunk : BOOLEAN, skewed : BOOLEAN]
    BY DEF Init
  <2>3. QED
    BY <2>1, <2>2 DEF QInv
<1>2. BagInv' => SmallBags' /\ MultiplicityCounts'
  BY SmallBag, MultiplicityIsInBag, PTL
<1>3. IInv /\ QInv /\ [Next]_vars => QInv'
  <2> SUFFICES ASSUME IInv, QInv, [Next]_vars PROVE QInv'
    OBVIOUS
  <2>1. BagInv
    BY DEF IInv
  <2>2. ASSUME NEW x \in Values, AddSample(x) PROVE QInv'
    BY <2>1, <2>2, AddKeepsQuartiles
  <2>3. ASSUME NEW x \in Values, RemoveSample(x) PROVE QInv'
    <3>1. SmallBags' /\ MultiplicityCounts'
      BY <1>2, <2>1, <2>3, RemoveArranges
    <3>2. QED
      BY <2>1, <2>3, <3>1, RemoveKeepsQuartiles
  <2>4. CASE UNCHANGED vars
    BY <2>4 DEF vars, QInv, Kept, NoneRepeated, InBag, First, Third
  <2>5. QED
    BY <2>2, <2>3, <2>4 DEF Next
<1>4. QED
  BY <1>1, <1>3, InvariantHolds, PTL DEF Spec

(* The quartiles are the medians of the two multisets, and no call is      *)
(* undefined, as long as since the scorer last had less than two samples   *)
(* no sample was added that it already had, and no multiset lost its only  *)
(* element.                                                                *)
THEOREM QuartilesKeptCorrect == Spec => []QuartilesKept
<1>1. IInv /\ QInv => QuartilesKept
  <2> SUFFICES ASSUME IInv, QInv, ~hist.repeated, ~hist.shrunk
               PROVE  /\ ~crashed
                      /\ sample_count > 1 => /\ q1.value2 = Middle2(first_quartile_set)
                                             /\ q3.value2 = Middle2(third_quartile_set)
    BY DEF QuartilesKept
  <2>1. ~crashed
    BY DEF QInv, Kept
  <2>2. ASSUME sample_count > 1
        PROVE  q1.value2 = Middle2(first_quartile_set) /\ q3.value2 = Middle2(third_quartile_set)
    <3>1. Proper(First) /\ Proper(Third)
      BY <2>2 DEF QInv, Kept
    <3>2. First.q.value2 = Middle2(First.set) /\ Third.q.value2 = Middle2(Third.set)
      BY <3>1, ProperIsDefined DEF IInv, BagInv
    <3>3. First.q = q1 /\ First.set = first_quartile_set /\ Third.q = q3 /\ Third.set = third_quartile_set
      BY HalfFields DEF First, Third
    <3>4. QED
      BY <3>2, <3>3
  <2>3. QED
    BY <2>1, <2>2
<1>2. QED
  BY <1>1, InvariantHolds, QInvCorrect, PTL

--------------------------------------------------------------------------------
(* The scorer as the bag of the contribution store, with its hazards *)

Bag == [x \in Values |-> Multiplicity(x)]

(* The bag counts what the multisets and the median hold.                  *)
BagReads == Bag = [y \in Values |-> InBag(y)] /\ \A y : InBag(y) \in Nat

LEMMA BagIsRead == BagInv => BagReads
  BY MultiplicityIsInBag DEF BagReads, Bag, MultiplicityCounts

(* Three of more than two samples: two ends, and what is between them.     *)
LEMMA ThreeHeld ==
  ASSUME BagInv, sample_count > 2
  PROVE  \E a, b, c \in Values :
             \A y : InBag(y) >= (IF a = y THEN 1 ELSE 0) + (IF b = y THEN 1 ELSE 0)
                                + (IF c = y THEN 1 ELSE 0)
<1> DEFINE L == Len(First.set)
           a == First.set[1]
           c == Third.set[1]
<1>1. /\ IsHalf(First) /\ IsHalf(Third) /\ L \in Nat /\ Len(Third.set) = L /\ sample_count \in Nat
      /\ \A y : Times(First.set, y) \in Nat /\ Times(Third.set, y) \in Nat
  BY BagFacts
<1>2. \/ median.is_composite_quartile /\ sample_count = 2 * L
      \/ ~median.is_composite_quartile /\ sample_count = 2 * L + 1
  BY <1>1, PairFacts, SingleFacts
<1> HIDE DEF L
<1>3. L >= 1 /\ (median.is_composite_quartile => L >= 2)
  BY <1>1, <1>2
<1>4. a \in Values /\ Times(First.set, a) # 0 /\ c \in Values /\ Times(Third.set, c) # 0
  <2>1. First.set \in Seq(Values) /\ Third.set \in Seq(Values)
    BY <1>1 DEF IsHalf
  <2>2. 1 \in 1 .. Len(First.set) /\ 1 \in 1 .. Len(Third.set)
    BY <1>1, <1>3 DEF L
  <2>3. QED
    BY <2>1, <2>2, SampleSeq, PlacesHeld
<1> HIDE DEF a, c
<1>5. CASE ~median.is_composite_quartile
  <2>1. /\ median.value_f \in Values
        /\ \A y : InBag(y) = Times(First.set, y) + Times(Third.set, y)
                             + (IF median.value_f = y THEN 1 ELSE 0)
    BY <1>1, <1>5, SingleFacts
  <2>2. ASSUME NEW y
        PROVE  InBag(y) >= (IF a = y THEN 1 ELSE 0) + (IF median.value_f = y THEN 1 ELSE 0)
                           + (IF c = y THEN 1 ELSE 0)
    BY <1>1, <1>4, <2>1
  <2>3. QED
    BY <1>4, <2>1, <2>2
<1>6. CASE median.is_composite_quartile
  <2> DEFINE g == RemoveQuartile(First, a)
             b == g.set[1]
  <2>1. IsHalf(g) /\ HoldsAlso(g.set, a, First.set)
    BY <1>1, <1>4, Removed
  <2> HIDE DEF g
  <2>2. /\ g.set \in Seq(Values) /\ 1 \in 1 .. Len(g.set)
        /\ \A y : Times(First.set, y) = Times(g.set, y) + (IF a = y THEN 1 ELSE 0)
    BY <1>1, <1>3, <1>6, <2>1 DEF IsHalf, HoldsAlso, L
  <2>3. /\ b \in Values /\ Times(g.set, b) # 0
        /\ \A y : Times(g.set, y) \in Nat
    BY <2>2, SampleSeq, PlacesHeld, TimesFacts
  <2> HIDE DEF b
  <2>4. \A y : InBag(y) = Times(First.set, y) + Times(Third.set, y)
    BY <1>6, PairFacts
  <2>5. ASSUME NEW y
        PROVE  InBag(y) >= (IF a = y THEN 1 ELSE 0) + (IF b = y THEN 1 ELSE 0)
                           + (IF c = y THEN 1 ELSE 0)
    <3>1. Times(g.set, y) >= IF b = y THEN 1 ELSE 0
      BY <2>3
    <3>2. Times(Third.set, y) >= IF c = y THEN 1 ELSE 0
      BY <1>1, <1>4
    <3>3. /\ InBag(y) = Times(g.set, y) + (IF a = y THEN 1 ELSE 0) + Times(Third.set, y)
          /\ Times(g.set, y) \in Nat /\ Times(Third.set, y) \in Nat
      BY <1>1, <2>2, <2>3, <2>4
    <3>4. QED
      BY <3>1, <3>2, <3>3
  <2>6. QED
    BY <1>4, <2>3, <2>5
<1>7. QED
  BY <1>5, <1>6

(* A bag of v and w does not hold three. *)
LEMMA PairIsNotThree ==
  ASSUME NEW v, NEW w, NEW a, NEW b, NEW c,
         \A y : (IF v = y THEN 1 ELSE 0) + (IF w = y THEN 1 ELSE 0)
                >= (IF a = y THEN 1 ELSE 0) + (IF b = y THEN 1 ELSE 0) + (IF c = y THEN 1 ELSE 0)
  PROVE  FALSE
<1>1. /\ a \in {v, w} /\ b \in {v, w} /\ c \in {v, w}
      /\ v # w => ~(a = b) /\ ~(a = c) /\ ~(b = c)
      /\ v = w => ~(a = b /\ b = c)
  OBVIOUS
<1>2. QED
  BY <1>1

(* The bag is one of two exactly when there are two samples.               *)
TwoSamples == sample_count = 2 <=> \E v, w \in Values : Bag = Promise!Pair(v, w)

LEMMA TwoAreSeen == BagInv => TwoSamples
<1> SUFFICES ASSUME BagInv PROVE TwoSamples
  OBVIOUS
<1>1. BagReads /\ sample_count \in Nat
  BY BagIsRead, BagFacts
<1>2. ASSUME sample_count = 2 PROVE \E v, w \in Values : Bag = Promise!Pair(v, w)
  <2>1. /\ IsHalf(First) /\ IsHalf(Third) /\ Len(First.set) \in Nat /\ Len(Third.set) = Len(First.set)
    BY BagFacts
  <2>2. median.is_composite_quartile
    <3>1. sample_count # 2 * Len(First.set) + 1 /\ sample_count > 0
      BY <1>2, <2>1
    <3>2. QED
      BY <3>1, SingleFacts
  <2>3. /\ sample_count = 2 * Len(First.set)
        /\ median.value_f = First.set[Len(First.set)] /\ median.value_s = Third.set[1]
        /\ median.value_f \in Values /\ median.value_s \in Values
        /\ \A y : InBag(y) = Times(First.set, y) + Times(Third.set, y)
    BY <2>2, PairFacts
  <2>4. Len(First.set) = 1 /\ Len(Third.set) = 1
    <3>1. \A L \in Nat : 2 = 2 * L => L = 1
      OBVIOUS
    <3>2. QED
      BY <1>2, <2>1, <2>3, <3>1
  <2>5. \A y : InBag(y) = (IF y = median.value_f THEN 1 ELSE 0) + (IF y = median.value_s THEN 1 ELSE 0)
    <3>1. First.set \in Seq(Values) /\ Third.set \in Seq(Values)
      BY <2>1 DEF IsHalf
    <3>2. /\ \A y : Times(First.set, y) = IF First.set[1] = y THEN 1 ELSE 0
          /\ \A y : Times(Third.set, y) = IF Third.set[1] = y THEN 1 ELSE 0
      BY <2>4, <3>1, SmallSets
    <3>3. QED
      BY <2>3, <2>4, <3>2
  <2>6. Bag = Promise!Pair(median.value_f, median.value_s)
    BY <1>1, <2>5 DEF BagReads, Promise!Pair
  <2>7. QED
    BY <2>3, <2>6
<1>3. ASSUME NEW v \in Values, NEW w \in Values, Bag = Promise!Pair(v, w) PROVE sample_count = 2
  <2>1. /\ \A y \in Values : InBag(y) = (IF y = v THEN 1 ELSE 0) + (IF y = w THEN 1 ELSE 0)
        /\ \A y : InBag(y) \in Nat
    <3>1. [y \in Values |-> InBag(y)]
          = [y \in Values |-> (IF y = v THEN 1 ELSE 0) + (IF y = w THEN 1 ELSE 0)]
      BY <1>1, <1>3 DEF BagReads, Promise!Pair
    <3>2. \A y \in Values : [z \in Values |-> InBag(z)][y]
              = [z \in Values |-> (IF z = v THEN 1 ELSE 0) + (IF z = w THEN 1 ELSE 0)][y]
      BY <3>1
    <3>3. QED
      BY <1>1, <3>2 DEF BagReads
  <2>2. sample_count # 0
    BY <2>1, BagSizes
  <2>3. sample_count # 1
    <3> SUFFICES ASSUME sample_count = 1 PROVE FALSE
      OBVIOUS
    <3>1. PICK m \in Values : \A y : InBag(y) = IF m = y THEN 1 ELSE 0
      BY BagSizes
    <3>2. v = m /\ w = m
      BY <2>1, <3>1
    <3>3. QED
      BY <2>1, <3>1, <3>2
  <2>4. ~(sample_count > 2)
    <3> SUFFICES ASSUME sample_count > 2 PROVE FALSE
      OBVIOUS
    <3>1. PICK a \in Values, b \in Values, c \in Values :
              \A y : InBag(y) >= (IF a = y THEN 1 ELSE 0) + (IF b = y THEN 1 ELSE 0)
                                 + (IF c = y THEN 1 ELSE 0)
      BY ThreeHeld
    <3>2. \A y \in Values :
              (IF v = y THEN 1 ELSE 0) + (IF w = y THEN 1 ELSE 0)
              >= (IF a = y THEN 1 ELSE 0) + (IF b = y THEN 1 ELSE 0) + (IF c = y THEN 1 ELSE 0)
      BY <2>1, <3>1
    <3>3. ASSUME NEW y
          PROVE  (IF v = y THEN 1 ELSE 0) + (IF w = y THEN 1 ELSE 0)
                 >= (IF a = y THEN 1 ELSE 0) + (IF b = y THEN 1 ELSE 0) + (IF c = y THEN 1 ELSE 0)
      BY <3>1, <3>2
    <3>4. QED
      BY <3>3, PairIsNotThree
  <2>5. QED
    BY <1>1, <2>2, <2>3, <2>4
<1>4. QED
  BY <1>2, <1>3 DEF TwoSamples

(* Of three different samples the one between the others is the median.    *)
LEMMA InnerOfThree ==
  ASSUME BagInv, NoneRepeated, sample_count = 3, NEW x \in Values, InBag(x) # 0
  PROVE  Promise!Inner(x) <=> x = median.value_f
<1> DEFINE a == First.set[1]
           m == median.value_f
           c == Third.set[1]
<1>1. /\ IsHalf(First) /\ IsHalf(Third) /\ Len(First.set) \in Nat /\ Len(Third.set) = Len(First.set)
  BY BagFacts
<1>2. ~median.is_composite_quartile /\ sample_count > 0
  <2>1. sample_count # 2 * Len(First.set)
    BY <1>1
  <2>2. QED
    BY <2>1, PairFacts
<1>3. /\ sample_count = 2 * Len(First.set) + 1 /\ m \in Values /\ m \in Nat
      /\ AtMost(First.set, m) /\ AtLeast(Third.set, m)
      /\ \A y : InBag(y) = Times(First.set, y) + Times(Third.set, y) + (IF m = y THEN 1 ELSE 0)
  BY <1>2, SingleFacts
<1>4. Len(First.set) = 1 /\ Len(Third.set) = 1
  <2>1. \A L \in Nat : 3 = 2 * L + 1 => L = 1
    OBVIOUS
  <2>2. QED
    BY <1>1, <1>3, <2>1
<1>5. /\ a \in Values /\ c \in Values /\ a \in Nat /\ c \in Nat
      /\ a <= m /\ c >= m
      /\ \A y : Times(First.set, y) = IF a = y THEN 1 ELSE 0
      /\ \A y : Times(Third.set, y) = IF c = y THEN 1 ELSE 0
  <2>1. First.set \in Seq(Values) /\ Third.set \in Seq(Values)
    BY <1>1 DEF IsHalf
  <2>2. 1 \in 1 .. Len(First.set) /\ 1 \in 1 .. Len(Third.set)
    BY <1>4
  <2>3. a \in Values /\ c \in Values /\ a \in Nat /\ c \in Nat
    BY <2>1, <2>2, SampleSeq
  <2>4. a <= m /\ c >= m
    BY <1>3, <2>2 DEF AtMost, AtLeast
  <2>5. QED
    BY <1>4, <2>1, <2>3, <2>4, SmallSets
<1> HIDE DEF a, m, c
<1>6. \A y : InBag(y) = (IF a = y THEN 1 ELSE 0) + (IF c = y THEN 1 ELSE 0) + (IF m = y THEN 1 ELSE 0)
  BY <1>3, <1>5
<1>7. a < m /\ m < c
  <2>1. InBag(m) # 0 /\ InBag(m) = 1
    BY <1>6 DEF NoneRepeated
  <2>2. a # m /\ c # m
    BY <1>6, <2>1
  <2>3. QED
    BY <1>3, <1>5, <2>2
<1>8. \A v \in Values : v \in Promise!Drawable <=> v \in {a, m, c}
  <2>1. BagReads
    BY BagIsRead
  <2>2. \A v \in Values : Multiplicity(v) = InBag(v)
    BY MultiplicityIsInBag DEF MultiplicityCounts
  <2>3. \A v \in Values : v \in Promise!Drawable <=> InBag(v) > 0
    BY <2>2 DEF Promise!Drawable
  <2>4. \A v \in Values : InBag(v) > 0 <=> v \in {a, m, c}
    BY <1>6
  <2>5. QED
    BY <2>3, <2>4
<1>9. Promise!Drawable \subseteq Values
  BY DEF Promise!Drawable
<1>10. x \in {a, m, c}
  BY <1>6
<1>11. Promise!Inner(x) <=> x = m
  <2>1. CASE x = m
    <3>1. a \in Promise!Drawable /\ c \in Promise!Drawable
      BY <1>5, <1>8
    <3>2. QED
      BY <1>7, <2>1, <3>1 DEF Promise!Inner
  <2>2. CASE x # m
    <3>1. ASSUME NEW low \in Promise!Drawable, NEW high \in Promise!Drawable, low < x, x < high
          PROVE  FALSE
      <4>1. low \in {a, m, c} /\ high \in {a, m, c}
        BY <1>8, <1>9
      <4>2. QED
        BY <1>3, <1>5, <1>7, <1>10, <2>2, <3>1, <4>1
    <3>2. QED
      BY <2>2, <3>1 DEF Promise!Inner
  <2>3. QED
    BY <2>1, <2>2
<1>12. QED
  BY <1>11 DEF m

(* The scorer is blurred as the bag is, only with two samples or more.     *)
Blurred == hist.repeated \/ hist.shrunk

SmallIsSharp == sample_count <= 1 => ~Blurred

LEMMA SmallIsSharpCorrect == Spec => []SmallIsSharp
<1>1. Init => SmallIsSharp
  BY DEF Init, SmallIsSharp, Blurred
<1>2. IInv /\ QInv /\ SmallIsSharp /\ [Next]_vars => SmallIsSharp'
  <2> SUFFICES ASSUME IInv, QInv, SmallIsSharp, [Next]_vars PROVE SmallIsSharp'
    OBVIOUS
  <2>1. sample_count \in Nat /\ hist \in [repeated : BOOLEAN, shrunk : BOOLEAN, skewed : BOOLEAN]
    BY BagFacts DEF IInv, QInv
  <2>2. ASSUME NEW x \in Values, AddSample(x) PROVE SmallIsSharp'
    <3>1. /\ sample_count' = sample_count + 1
          /\ hist' = [hist EXCEPT !.repeated = sample_count > 0 /\ (@ \/ Present(x)),
                                  !.shrunk = sample_count > 1 /\ @]
      BY <2>2 DEF AddSample
    <3>2. /\ ~(sample_count > 0) => ~hist'.repeated
          /\ ~(sample_count > 1) => ~hist'.shrunk
      BY <2>1, <3>1
    <3>3. QED
      BY <2>1, <3>1, <3>2 DEF SmallIsSharp, Blurred
  <2>3. ASSUME NEW x \in Values, RemoveSample(x) PROVE SmallIsSharp'
    <3>1. /\ sample_count' = sample_count - 1
          /\ hist' = [hist EXCEPT !.repeated = sample_count > 2 /\ @,
                                  !.shrunk = \/ sample_count = 3 /\ x # median.value_f
                                             \/ sample_count > 2 /\ @,
                                  !.skewed = @ \/ ~Present(x)]
      BY <2>3 DEF RemoveSample
    <3>2. ~(sample_count > 2) => ~hist'.repeated /\ ~hist'.shrunk
      <4>1. ~(sample_count > 2) => sample_count # 3
        BY <2>1
      <4>2. QED
        BY <2>1, <3>1, <4>1
    <3>3. QED
      BY <2>1, <3>1, <3>2 DEF SmallIsSharp, Blurred
  <2>4. CASE UNCHANGED vars
    BY <2>4 DEF vars, SmallIsSharp, Blurred
  <2>5. QED
    BY <2>2, <2>3, <2>4 DEF Next
<1>3. QED
  BY <1>1, <1>2, InvariantHolds, QInvCorrect, PTL DEF Spec

(* add_sample is undefined at most with two samples or more, and then the  *)
(* scorer is blurred.                                                      *)
LEMMA AddCrashes ==
  ASSUME BagInv, QInv, NEW x \in Values, AddSample(x), QInv'
  PROVE  /\ crashed' \in BOOLEAN
         /\ crashed' => hist'.repeated \/ hist'.shrunk
         /\ crashed' => sample_count # 0 /\ sample_count # 1
<1>1. sample_count \in Nat /\ sample_count' = sample_count + 1 /\ x \in Nat
  BY BagFacts, ValuesAssumption DEF AddSample
<1>2. crashed' => hist'.repeated \/ hist'.shrunk
  BY DEF QInv, Kept
<1>3. CASE sample_count = 0
  <2> DEFINE f == Half(first_quartile_set, NoQuartile(x))
             t == Half(third_quartile_set, NoQuartile(x))
  <2>1. Become(f, SingleMedian(x), t)
    BY <1>3 DEF AddSample
  <2>2. f.q # Garbage /\ t.q # Garbage
    BY <1>1, HalfFields, NoQuartileIsDefined
  <2> HIDE DEF f, t
  <2>3. crashed' = FALSE
    BY <2>1, <2>2, BecomeDefined
  <2>4. QED
    BY <2>3
<1>4. CASE sample_count = 1
  <2> DEFINE m == median.value_f
             lo == IF x < m THEN x ELSE m
             hi == IF x < m THEN m ELSE x
  <2>1. Become(Only(lo), CompositeMedian(lo, hi), Only(hi))
    BY <1>4 DEF AddSample
  <2>2. m \in Values
    BY <1>4, BagSizes
  <2> HIDE DEF m
  <2>3. lo \in Values /\ hi \in Values
    BY <2>2
  <2> HIDE DEF lo, hi
  <2>4. /\ IsHalf(Only(lo)) /\ Proper(Only(lo))
        /\ IsHalf(Only(hi)) /\ Proper(Only(hi))
    BY <2>3, SmallHalves, OnlyIsProper
  <2>5. ~crashed' /\ crashed' \in BOOLEAN
    BY <2>1, <2>4, BecomeProper, BecomeFacts
  <2>6. QED
    BY <2>5
<1>5. CASE sample_count > 1
  <2>1. sample_count # 0 /\ sample_count # 1
    BY <1>5
  <2>2. crashed' \in BOOLEAN
    <3>1. \E f, m, t : Become(f, m, t)
      <4>1. sample_count > 0
        BY <1>1, <1>5
      <4>2. CASE median.is_composite_quartile
        <5>1. AddToPair(x)
          BY <1>5, <2>1, <4>2 DEF AddSample
        <5>2. QED
          BY <5>1 DEF AddToPair
      <4>3. CASE ~median.is_composite_quartile
        <5>1. AddToSingle(x)
          BY <1>5, <2>1, <4>3 DEF AddSample
        <5>2. QED
          BY <5>1 DEF AddToSingle
      <4>4. QED
        BY <4>2, <4>3
    <3>2. QED
      BY <3>1, BecomeFacts
  <2>3. QED
    BY <1>2, <2>1, <2>2
<1>6. QED
  BY <1>1, <1>3, <1>4, <1>5

(* The scorer is the bag that the contribution store takes it for, step by *)
(* step; and it loses its quartiles, or is undefined, only where the bag   *)
(* says that it may.                                                       *)
THEOREM SampleBagImplemented == Spec => ImplementsSampleBag
<1>1. Init => Promise!Init
  BY DEF Init, Promise!Init, Multiplicity
<1>2. BagInv' => BagReads' /\ TwoSamples'
  BY BagIsRead, TwoAreSeen, PTL
<1>3. IInv /\ IInv' /\ QInv /\ QInv' /\ SmallIsSharp /\ [Next]_vars
         => [Promise!Next]_<<Bag, Blurred, crashed>>
  <2> SUFFICES ASSUME IInv, IInv', QInv, QInv', SmallIsSharp, [Next]_vars
               PROVE  [Promise!Next]_<<Bag, Blurred, crashed>>
    OBVIOUS
  <2>1. /\ BagInv /\ BagReads /\ sample_count \in Nat
        /\ BagReads' /\ TwoSamples'
        /\ \A y : Multiplicity(y) = InBag(y) /\ InBag(y) \in Nat
    BY <1>2, BagIsRead, BagFacts, MultiplicityIsInBag DEF IInv, MultiplicityCounts
  <2>2. /\ hist \in [repeated : BOOLEAN, shrunk : BOOLEAN, skewed : BOOLEAN]
        /\ crashed \in BOOLEAN /\ crashed' \in BOOLEAN
    BY DEF IInv, QInv
  <2>3. ASSUME NEW x \in Values, AddSample(x) PROVE Promise!AddSample(x)
    <3>1. \A y : InBag(y)' = InBag(y) + (IF x = y THEN 1 ELSE 0)
      BY <2>1, <2>3, AddArranges
    <3>2. Bag' = [Bag EXCEPT ![x] = @ + 1]
      <4>1. Bag' = [y \in Values |-> InBag(y) + (IF x = y THEN 1 ELSE 0)]
        BY <2>1, <3>1 DEF BagReads
      <4>2. [Bag EXCEPT ![x] = @ + 1] = [y \in Values |-> InBag(y) + (IF x = y THEN 1 ELSE 0)]
        BY <2>1 DEF BagReads
      <4>3. QED
        BY <4>1, <4>2
    <3>3. hist' = [hist EXCEPT !.repeated = sample_count > 0 /\ (@ \/ Present(x)),
                               !.shrunk = sample_count > 1 /\ @]
      BY <2>3 DEF AddSample
    <3>4. Present(x) <=> Multiplicity(x) > 0
      BY DEF Present
    <3>5. sample_count = 0 => ~(Multiplicity(x) > 0)
      BY <2>1, BagSizes
    <3>6. Blurred' <=> Blurred \/ Multiplicity(x) > 0
      <4>1. /\ hist'.repeated <=> sample_count > 0 /\ (hist.repeated \/ Multiplicity(x) > 0)
            /\ hist'.shrunk <=> sample_count > 1 /\ hist.shrunk
        BY <2>2, <3>3, <3>4
      <4>2. sample_count <= 1 => ~hist.repeated /\ ~hist.shrunk
        BY DEF SmallIsSharp, Blurred
      <4>3. QED
        BY <2>1, <3>5, <4>1, <4>2 DEF Blurred
    <3>7. Promise!BlurredWith(x) <=> Blurred \/ Multiplicity(x) > 0
      BY DEF Promise!BlurredWith, Blurred
    <3>8. Blurred' = Promise!BlurredWith(x)
      BY <3>6, <3>7 DEF Blurred, Promise!BlurredWith
    <3>9. crashed' => Promise!CrashesWith(x)
      <4>1. crashed' => Blurred' /\ sample_count # 0 /\ sample_count # 1
        BY <2>1, <2>3, AddCrashes DEF Blurred
      <4>2. QED
        BY <2>1, <3>8, <4>1, BagSeen DEF Promise!CrashesWith
    <3>10. crashed' \in {FALSE, Promise!CrashesWith(x)}
      BY <2>2, <3>9 DEF Promise!CrashesWith
    <3>11. QED
      BY <3>2, <3>8, <3>10 DEF Promise!AddSample, Promise!With, Bag, Blurred
  <2>4. ASSUME NEW x \in Values, RemoveSample(x) PROVE Promise!RemoveSample(x)
    <3>1. /\ sample_count > 0 /\ sample_count' = sample_count - 1
          /\ sample_count = 1 => \A y : InBag(y)' = 0
          /\ sample_count > 1 => \A y : InBag(y) = InBag(y)' + (IF x = y THEN 1 ELSE 0)
          /\ ~RemoveThrows(x)
      BY <2>1, <2>4, RemoveArranges DEF RemoveSample
    <3>2. sample_count # 1 => InBag(x) # 0
      BY <2>1, <3>1, RefusesAbsent
    <3>3. ~Promise!RemoveThrows(x)
      BY <2>1, <3>1, <3>2, BagSeen DEF Promise!RemoveThrows
    <3>4. Bag' = Promise!Without(x)
      <4>1. CASE sample_count = 1
        <5>1. Bag' = [y \in Values |-> 0]
          BY <2>1, <3>1, <4>1 DEF BagReads
        <5>2. Promise!OneSample
          BY <2>1, <4>1, BagSeen
        <5>3. QED
          BY <5>1, <5>2 DEF Promise!Without
      <4>2. CASE sample_count > 1
        <5>1. ~Promise!OneSample
          BY <2>1, <4>2, BagSeen
        <5>2. \A y \in Values : InBag(y)' = InBag(y) - (IF x = y THEN 1 ELSE 0)
          BY <2>1, <3>1, <4>2 DEF BagReads
        <5>3. Bag' = [y \in Values |-> InBag(y) - (IF x = y THEN 1 ELSE 0)]
          BY <2>1, <5>2 DEF BagReads
        <5>4. [Bag EXCEPT ![x] = @ - 1] = [y \in Values |-> InBag(y) - (IF x = y THEN 1 ELSE 0)]
          BY <2>1 DEF BagReads
        <5>5. QED
          BY <5>1, <5>3, <5>4 DEF Promise!Without, Bag
      <4>3. QED
        BY <2>1, <3>1, <4>1, <4>2
    <3>5. Blurred' <=> sample_count > 2 /\ (Blurred \/ (sample_count = 3 /\ x # median.value_f))
      <4>1. hist' = [hist EXCEPT !.repeated = sample_count > 2 /\ @,
                                 !.shrunk = \/ sample_count = 3 /\ x # median.value_f
                                            \/ sample_count > 2 /\ @,
                                 !.skewed = @ \/ ~Present(x)]
        BY <2>4 DEF RemoveSample
      <4>2. /\ hist'.repeated <=> sample_count > 2 /\ hist.repeated
            /\ hist'.shrunk <=> \/ sample_count = 3 /\ x # median.value_f
                                \/ sample_count > 2 /\ hist.shrunk
        BY <2>2, <4>1
      <4>3. QED
        BY <2>1, <4>2 DEF Blurred
    <3>6. sample_count > 1 => (sample_count = 2 <=> \E w \in Values : Bag = Promise!Pair(x, w))
      <4> SUFFICES ASSUME sample_count > 1
                   PROVE  sample_count = 2 <=> \E w \in Values : Bag = Promise!Pair(x, w)
        OBVIOUS
      <4>1. sample_count = 2 <=> \E v, w \in Values : Bag = Promise!Pair(v, w)
        BY <2>1, TwoAreSeen DEF TwoSamples
      <4>2. ASSUME NEW v \in Values, NEW w \in Values, Bag = Promise!Pair(v, w)
            PROVE  \E u \in Values : Bag = Promise!Pair(x, u)
        <5>1. Bag[x] # 0
          BY <2>1, <3>1, <3>2 DEF BagReads
        <5>2. x = v \/ x = w
          BY <4>2, <5>1 DEF Promise!Pair
        <5>3. Promise!Pair(v, w) = Promise!Pair(w, v)
          BY DEF Promise!Pair
        <5>4. QED
          BY <4>2, <5>2, <5>3
      <4>3. QED
        BY <4>1, <4>2
    <3>7. sample_count = 3 <=> \E w, u \in Values : Promise!Without(x) = Promise!Pair(w, u)
      BY <2>1, <3>1, <3>4 DEF TwoSamples
    <3>8. ~Blurred /\ sample_count = 3 => (x # median.value_f <=> ~Promise!Inner(x))
      <4> SUFFICES ASSUME ~Blurred, sample_count = 3
                   PROVE  x # median.value_f <=> ~Promise!Inner(x)
        OBVIOUS
      <4>1. NoneRepeated
        BY DEF QInv, Blurred
      <4>2. QED
        BY <2>1, <3>2, <4>1, InnerOfThree
    <3>9. Promise!BlurredWithout(x)
             <=> /\ sample_count # 0 /\ sample_count # 1 /\ sample_count # 2
                 /\ Blurred \/ (sample_count = 3 /\ ~Promise!Inner(x))
      <4>1. Promise!BlurredWithout(x)
               <=> /\ ~Promise!NoSample /\ ~Promise!OneSample
                   /\ ~ \E w \in Values : Bag = Promise!Pair(x, w)
                   /\ \/ Blurred
                      \/ /\ \E w, u \in Values : Promise!Without(x) = Promise!Pair(w, u)
                         /\ ~Promise!Inner(x)
        BY DEF Promise!BlurredWithout, Blurred, Bag
      <4>2. (Promise!NoSample <=> sample_count = 0) /\ (Promise!OneSample <=> sample_count = 1)
        BY <2>1, BagSeen
      <4>3. sample_count > 1 \/ sample_count = 0 \/ sample_count = 1
        BY <2>1
      <4>4. QED
        BY <3>6, <3>7, <4>1, <4>2, <4>3
    <3>10. Blurred' <=> Promise!BlurredWithout(x)
      BY <2>1, <3>5, <3>8, <3>9
    <3>11. Blurred' = Promise!BlurredWithout(x)
      BY <3>10 DEF Blurred, Promise!BlurredWithout
    <3>12. crashed' => Promise!BlurredWithout(x)
      BY <3>10 DEF QInv, Kept, Blurred
    <3>13. crashed' \in {FALSE, Promise!BlurredWithout(x)}
      BY <2>2, <3>12 DEF Promise!BlurredWithout
    <3>14. QED
      BY <3>3, <3>4, <3>11, <3>13 DEF Promise!RemoveSample, Bag, Blurred
  <2>5. CASE UNCHANGED vars
    BY <2>5 DEF vars, Bag, Blurred, Multiplicity, Count, First, Third
  <2>6. QED
    BY <2>3, <2>4, <2>5 DEF Next, Promise!Next
<1>4. QED
  BY <1>1, <1>3, InvariantHolds, QInvCorrect, SmallIsSharpCorrect, PTL
     DEF Spec, ImplementsSampleBag, Promise!Spec, Bag, Blurred

--------------------------------------------------------------------------------
(* The sum of the samples *)

(* Equal up to a multiple of the modulus is equal modulo it. *)
LEMMA ModUnique ==
  ASSUME NEW M \in Nat \ {0}, NEW a \in Int, NEW b \in Int, NEW k \in Int, a = b + M * k
  PROVE  a % M = b % M
<1>1. PICK q \in Int, r \in Int : a = M * q + r /\ a % M = r /\ 0 <= r /\ r < M
  <2>1. /\ a \div M \in Int /\ a % M \in Int /\ a = M * (a \div M) + (a % M)
        /\ 0 <= a % M /\ a % M < M
    OBVIOUS
  <2>2. QED
    BY <2>1
<1>2. PICK p \in Int, t \in Int : b = M * p + t /\ b % M = t /\ 0 <= t /\ t < M
  <2>1. /\ b \div M \in Int /\ b % M \in Int /\ b = M * (b \div M) + (b % M)
        /\ 0 <= b % M /\ b % M < M
    OBVIOUS
  <2>2. QED
    BY <2>1
<1>3. q - p - k \in Int
  OBVIOUS
<1>4. PICK d \in Int : d = q - p - k
  BY <1>3
<1>5. M * d = t - r
  <2>1. q = d + p + k
    BY <1>4
  <2>2. M * q = M * d + M * p + M * k
    BY <2>1
  <2>3. M * d \in Int /\ M * p \in Int /\ M * k \in Int
    OBVIOUS
  <2>4. a = M * q + r /\ b = M * p + t
    BY <1>1, <1>2
  <2>5. QED
    BY <2>2, <2>3, <2>4
<1>6. d >= 1 => M * d >= M
  OBVIOUS
<1>7. d <= -1 => M * d <= -M
  OBVIOUS
<1>8. r = t
  <2>1. 0 <= r /\ r < M /\ 0 <= t /\ t < M
    BY <1>1, <1>2
  <2>2. d = 0
    BY <1>5, <1>6, <1>7, <2>1
  <2>3. QED
    BY <1>5, <2>2
<1>9. QED
  BY <1>1, <1>2, <1>8

(* Addition modulo M after a remainder was taken. *)
LEMMA ModPlus ==
  ASSUME NEW M \in Nat \ {0}, NEW t \in Int, NEW d \in Int
  PROVE  ((t % M) + d) % M = (t + d) % M
<1>1. PICK q \in Int, r \in Int : t = M * q + r /\ t % M = r
  <2>1. t \div M \in Int /\ t % M \in Int /\ t = M * (t \div M) + (t % M)
    OBVIOUS
  <2>2. QED
    BY <2>1
<1>2. M * q \in Int
  OBVIOUS
<1>3. t + d \in Int /\ r + d \in Int /\ t + d = (r + d) + M * q
  BY <1>1, <1>2
<1>4. (t + d) % M = (r + d) % M
  BY <1>3, ModUnique
<1>5. QED
  BY <1>1, <1>4

(* The element that a fold over a set takes next. *)
Pick(s) == CHOOSE x \in s : TRUE

(* i is the recursive function that adds up x * m[x] over a set. *)
SumsUp(i, m) ==
    i = [s \in SUBSET Values |-> IF s = {} THEN 0 ELSE Pick(s) * m[Pick(s)] + i[s \ {Pick(s)}]]

(* The same for the sets of at most k samples. *)
SmallOnes(k) == {s \in SUBSET Values : Cardinality(s) <= k}
SumsUpTo(i, m, k) ==
    i = [s \in SmallOnes(k) |-> IF s = {} THEN 0 ELSE Pick(s) * m[Pick(s)] + i[s \ {Pick(s)}]]

(* Taking the next element leaves a smaller set. *)
LEMMA PickSmaller ==
  ASSUME IsFiniteSet(Values), NEW s \in SUBSET Values, s # {}
  PROVE  /\ Pick(s) \in s /\ Pick(s) \in Values /\ Pick(s) \in Nat
         /\ s \ {Pick(s)} \in SUBSET Values
         /\ Cardinality(s) \in Nat /\ Cardinality(s \ {Pick(s)}) = Cardinality(s) - 1
<1>1. Pick(s) \in s
  BY DEF Pick
<1>2. IsFiniteSet(s)
  BY FS_Subset
<1>3. Cardinality(s) \in Nat /\ Cardinality(s \ {Pick(s)}) = Cardinality(s) - 1
  BY <1>1, <1>2, FS_CardinalityType, FS_RemoveElement
<1>4. QED
  BY <1>1, <1>3, ValuesAssumption

(* There is such a function for the sets of at most k samples ...          *)
LEMMA PartialSum ==
  ASSUME IsFiniteSet(Values), NEW m \in [Values -> Nat], NEW k \in Nat
  PROVE  \E i : SumsUpTo(i, m, k)
<1> DEFINE Fails == {n \in Nat : ~\E i : SumsUpTo(i, m, n)}
<1>1. \A s \in SUBSET Values : s # {} =>
        /\ Pick(s) \in s /\ s \ {Pick(s)} \in SUBSET Values
        /\ Cardinality(s) \in Nat /\ Cardinality(s \ {Pick(s)}) = Cardinality(s) - 1
  BY PickSmaller
<1>2. 0 \notin Fails
  <2> DEFINE i == [s \in SmallOnes(0) |-> 0]
  <2>1. ASSUME NEW s \in SmallOnes(0) PROVE s = {}
    <3>1. s \in SUBSET Values /\ Cardinality(s) <= 0
      BY DEF SmallOnes
    <3>2. IsFiniteSet(s)
      BY <3>1, FS_Subset
    <3>3. Cardinality(s) = 0
      BY <3>1, <3>2, FS_CardinalityType
    <3>4. QED
      BY <3>2, <3>3, FS_EmptySet
  <2>2. SumsUpTo(i, m, 0)
    BY <2>1 DEF SumsUpTo
  <2>3. QED
    BY <2>2
<1>3. ASSUME NEW n \in Nat, n \in Fails PROVE \E l \in Fails : l < n
  <2>1. n # 0 /\ n - 1 \in Nat /\ n - 1 < n
    BY <1>2, <1>3
  <2>2. ASSUME NEW i, SumsUpTo(i, m, n - 1) PROVE FALSE
    <3> DEFINE j == [s \in SmallOnes(n) |->
                       IF s = {} THEN 0 ELSE Pick(s) * m[Pick(s)] + i[s \ {Pick(s)}]]
    <3>1. ASSUME NEW s \in SmallOnes(n - 1)
          PROVE  s \in SmallOnes(n) /\ j[s] = i[s]
      <4>1. s \in SUBSET Values /\ Cardinality(s) <= n - 1
        BY DEF SmallOnes
      <4>2. IsFiniteSet(s)
        BY <4>1, FS_Subset
      <4>3. Cardinality(s) \in Nat
        BY <4>2, FS_CardinalityType
      <4>4. s \in SmallOnes(n)
        BY <4>1, <4>3 DEF SmallOnes
      <4>5. i[s] = IF s = {} THEN 0 ELSE Pick(s) * m[Pick(s)] + i[s \ {Pick(s)}]
        BY <2>2 DEF SumsUpTo
      <4>6. QED
        BY <4>4, <4>5
    <3>2. ASSUME NEW s \in SmallOnes(n), s # {}
          PROVE  i[s \ {Pick(s)}] = j[s \ {Pick(s)}]
      <4>1. s \in SUBSET Values /\ Cardinality(s) <= n
        BY DEF SmallOnes
      <4>2. s \ {Pick(s)} \in SUBSET Values /\ Cardinality(s) \in Nat
            /\ Cardinality(s \ {Pick(s)}) = Cardinality(s) - 1
        BY <1>1, <3>2, <4>1
      <4>3. Cardinality(s \ {Pick(s)}) <= n - 1
        BY <4>1, <4>2
      <4>4. s \ {Pick(s)} \in SmallOnes(n - 1)
        BY <4>2, <4>3 DEF SmallOnes
      <4>5. QED
        BY <3>1, <4>4
    <3>3. j = [s \in SmallOnes(n) |->
                 IF s = {} THEN 0 ELSE Pick(s) * m[Pick(s)] + j[s \ {Pick(s)}]]
      <4>1. ASSUME NEW s \in SmallOnes(n)
            PROVE  (IF s = {} THEN 0 ELSE Pick(s) * m[Pick(s)] + i[s \ {Pick(s)}])
                   = (IF s = {} THEN 0 ELSE Pick(s) * m[Pick(s)] + j[s \ {Pick(s)}])
        <5>1. CASE s = {}
          BY <5>1
        <5>2. CASE s # {}
          <6> HIDE DEF j
          <6>1. i[s \ {Pick(s)}] = j[s \ {Pick(s)}]
            BY <3>2, <5>2
          <6>2. QED
            BY <6>1
        <5>3. QED
          BY <5>1, <5>2
      <4>2. QED
        BY <4>1, Zenon
    <3>4. SumsUpTo(j, m, n)
      BY <3>3 DEF SumsUpTo
    <3>5. QED
      BY <1>3, <3>4
  <2>3. n - 1 \in Fails
    BY <2>1, <2>2
  <2>4. QED
    BY <2>1, <2>3
<1>4. Fails = {}
  <2>1. Fails \in SUBSET Nat
    OBVIOUS
  <2> HIDE DEF Fails
  <2>2. ASSUME Fails # {} PROVE FALSE
    <3>1. PICK n \in Fails : \A l \in Fails : n <= l
      BY <2>1, <2>2, Least
    <3>2. PICK l \in Fails : l < n
      BY <1>3, <2>1, <3>1
    <3>3. n <= l /\ n \in Nat /\ l \in Nat
      BY <2>1, <3>1, <3>2
    <3>4. QED
      BY <3>2, <3>3
  <2>3. QED
    BY <2>2
<1>5. QED
  BY <1>4

(* ... and so for all of them. *)
LEMMA SumExists ==
  ASSUME IsFiniteSet(Values), NEW m \in [Values -> Nat]
  PROVE  \E i : SumsUp(i, m)
<1>1. Cardinality(Values) \in Nat
  BY FS_CardinalityType
<1>2. PICK i : SumsUpTo(i, m, Cardinality(Values))
  BY <1>1, PartialSum
<1>3. ASSUME NEW s \in SUBSET Values PROVE Cardinality(s) <= Cardinality(Values)
  BY FS_Subset
<1>4. SmallOnes(Cardinality(Values)) = SUBSET Values
  BY <1>3 DEF SmallOnes
<1>5. SumsUp(i, m)
  BY <1>2, <1>4 DEF SumsUpTo, SumsUp
<1>6. QED
  BY <1>5

(* n differs from m by d at x. *)
Moved(m, n, x, d) == \A y \in Values : n[y] = m[y] + (IF x = y THEN d ELSE 0)

(* A sum is a natural number, and changes with the multiplicity of one     *)
(* sample in the sets that have it.                                        *)
LEMMA SumMoves ==
  ASSUME IsFiniteSet(Values), NEW m \in [Values -> Nat], NEW n \in [Values -> Nat],
         NEW i, SumsUp(i, m), NEW j, SumsUp(j, n),
         NEW x \in Values, NEW d \in Int, Moved(m, n, x, d)
  PROVE  i[Values] \in Nat /\ j[Values] = i[Values] + x * d
<1> DEFINE Good(s) == i[s] \in Nat /\ j[s] = i[s] + (IF x \in s THEN x * d ELSE 0)
           Bad == {s \in SUBSET Values : ~Good(s)}
           Sizes == {Cardinality(s) : s \in Bad}
<1>1. ASSUME NEW s \in Bad PROVE \E t \in Bad : Cardinality(t) < Cardinality(s)
  <2>1. s \in SUBSET Values
    OBVIOUS
  <2>2. /\ i[s] = IF s = {} THEN 0 ELSE Pick(s) * m[Pick(s)] + i[s \ {Pick(s)}]
        /\ j[s] = IF s = {} THEN 0 ELSE Pick(s) * n[Pick(s)] + j[s \ {Pick(s)}]
    BY <2>1 DEF SumsUp
  <2>3. s # {}
    <3>1. ASSUME s = {} PROVE i[s] = 0 /\ j[s] = 0 /\ x \notin s
      BY <2>2, <3>1
    <3>2. ASSUME s = {} PROVE Good(s)
      BY <3>1, <3>2
    <3>3. QED
      BY <3>2
  <2> DEFINE p == Pick(s)
             t == s \ {p}
  <2>4. /\ p \in s /\ p \in Values /\ p \in Nat /\ t \in SUBSET Values
        /\ Cardinality(s) \in Nat /\ Cardinality(t) = Cardinality(s) - 1
    BY <2>1, <2>3, PickSmaller
  <2>5. /\ i[s] = p * m[p] + i[t]
        /\ j[s] = p * n[p] + j[t]
    BY <2>2, <2>3
  <2>6. x \in t <=> x \in s /\ x # p
    OBVIOUS
  <2>7. ~Good(s)
    OBVIOUS
  <2> HIDE DEF p, t
  <2>8. m[p] \in Nat /\ n[p] \in Nat /\ n[p] = m[p] + (IF x = p THEN d ELSE 0)
    BY <2>4 DEF Moved
  <2>9. x \in Nat
    BY ValuesAssumption
  <2>10. ASSUME Good(t) PROVE FALSE
    <3>1. i[t] \in Nat /\ j[t] = i[t] + (IF x \in t THEN x * d ELSE 0)
      BY <2>10
    <3>2. p * m[p] \in Nat
      BY <2>4, <2>8
    <3>3. i[s] \in Nat
      BY <2>5, <3>1, <3>2
    <3>4. CASE x = p
      <4>1. j[t] = i[t] /\ x \in s
        BY <2>4, <2>6, <3>1, <3>4
      <4>2. n[p] = m[p] + d
        BY <2>8, <3>4
      <4>3. p * n[p] = p * m[p] + p * d
        BY <2>4, <2>8, <4>2
      <4>4. p * d \in Int
        BY <2>4
      <4>5. j[s] = i[s] + p * d
        BY <2>5, <3>1, <3>2, <4>1, <4>3, <4>4
      <4>6. QED
        BY <2>7, <3>3, <3>4, <4>1, <4>5
    <3>5. CASE x # p
      <4>1. (x \in t <=> x \in s) /\ n[p] = m[p]
        BY <2>6, <2>8, <3>5
      <4>2. x * d \in Int
        BY <2>9
      <4>3. j[t] = i[t] + (IF x \in s THEN x * d ELSE 0)
        BY <3>1, <4>1
      <4>4. j[s] = i[s] + (IF x \in s THEN x * d ELSE 0)
        BY <2>5, <3>1, <3>2, <4>1, <4>2, <4>3
      <4>5. QED
        BY <2>7, <3>3, <4>4
    <3>6. QED
      BY <3>4, <3>5
  <2>11. t \in Bad
    BY <2>4, <2>10
  <2>12. QED
    BY <2>4, <2>11
<1>2. ASSUME NEW s \in Bad PROVE Cardinality(s) \in Nat
  <2>1. IsFiniteSet(s)
    BY FS_Subset
  <2>2. QED
    BY <2>1, FS_CardinalityType
<1>3. Good(Values) => i[Values] \in Nat /\ j[Values] = i[Values] + x * d
  OBVIOUS
<1>4. Bad = {}
  <2> HIDE DEF Bad
  <2>1. Sizes \in SUBSET Nat
    BY <1>2
  <2>2. ASSUME Bad # {} PROVE FALSE
    <3>1. PICK c \in Sizes : \A b \in Sizes : c <= b
      <4>1. Sizes # {}
        BY <2>2
      <4> HIDE DEF Sizes
      <4>2. QED
        BY <2>1, <4>1, Least
    <3>2. PICK s \in Bad : Cardinality(s) = c
      BY <3>1
    <3>3. PICK t \in Bad : Cardinality(t) < Cardinality(s)
      BY <1>1
    <3>4. c <= Cardinality(t) /\ Cardinality(t) \in Nat /\ c \in Nat
      BY <1>2, <3>1, <3>2, <3>3
    <3>5. QED
      BY <3>2, <3>3, <3>4
  <2>3. QED
    BY <2>2
<1>5. QED
  BY <1>3, <1>4

(* The sum of no samples is zero. *)
LEMMA SumOfNone ==
  ASSUME IsFiniteSet(Values), NEW m \in [Values -> Nat], NEW i, SumsUp(i, m),
         \A y \in Values : m[y] = 0
  PROVE  i[Values] = 0
<1> DEFINE z == [s \in SUBSET Values |-> 0]
<1>1. SumsUp(z, m)
  <2>1. ASSUME NEW s \in SUBSET Values, s # {}
        PROVE  Pick(s) * m[Pick(s)] + z[s \ {Pick(s)}] = 0
    <3>1. Pick(s) \in Values /\ Pick(s) \in Nat /\ s \ {Pick(s)} \in SUBSET Values
      BY <2>1, PickSmaller
    <3>2. m[Pick(s)] = 0 /\ z[s \ {Pick(s)}] = 0
      BY <3>1
    <3>3. QED
      BY <3>1, <3>2
  <2>2. QED
    BY <2>1 DEF SumsUp
<1>2. z[Values] = 0
  OBVIOUS
<1> HIDE DEF z
<1>3. CASE Values = {}
  BY <1>3 DEF SumsUp
<1>4. CASE Values # {}
  <2>1. PICK x \in Values : x \in Nat
    BY <1>4, ValuesAssumption
  <2>2. Moved(m, m, x, 0)
    BY DEF Moved
  <2>3. i[Values] \in Nat /\ z[Values] = i[Values] + x * 0
    BY <1>1, <2>2, SumMoves
  <2>4. QED
    BY <1>2, <2>1, <2>3
<1>5. QED
  BY <1>3, <1>4

(* How often each sample is in the bag, and the function that SumKept adds *)
(* up its samples with.                                                    *)
Copies == [y \in Values |-> Multiplicity(y)]
AddsUp(i) ==
    i = [s \in SUBSET Values |->
            IF s = {} THEN 0
            ELSE LET x == CHOOSE x \in s : TRUE IN x * Multiplicity(x) + i[s \ {x}]]
Total == CHOOSE i : AddsUp(i)

SumRight == ~hist.skewed => sample_sum = Total[Values] % SumModulus

(* SumKept is about that function. *)
LEMMA SumKeptReads == SumKept <=> SumRight
  BY DEF SumKept, MapThenSumSet, MapThenFoldSet, Total, AddsUp, SumRight

TotalSums == SumsUp(Total, Copies)

(* The function exists. *)
LEMMA TotalSumsUp ==
  ASSUME IsFiniteSet(Values)
  PROVE  MultiplicityCounts => TotalSums
<1> SUFFICES ASSUME MultiplicityCounts PROVE TotalSums
  OBVIOUS
<1>1. Copies \in [Values -> Nat]
  BY DEF Copies, MultiplicityCounts
<1>2. PICK i : SumsUp(i, Copies)
  BY <1>1, SumExists
<1>3. ASSUME NEW j PROVE AddsUp(j) <=> SumsUp(j, Copies)
  <2>1. ASSUME NEW s \in SUBSET Values
        PROVE  (IF s = {} THEN 0
                ELSE LET x == CHOOSE x \in s : TRUE IN x * Multiplicity(x) + j[s \ {x}])
               = (IF s = {} THEN 0 ELSE Pick(s) * Copies[Pick(s)] + j[s \ {Pick(s)}])
    <3>1. s # {} => Pick(s) \in Values
      BY DEF Pick
    <3>2. s # {} => Copies[Pick(s)] = Multiplicity(Pick(s))
      BY <3>1 DEF Copies
    <3>3. QED
      BY <3>2 DEF Pick
  <2>2. QED
    BY <2>1, Zenon DEF SumsUp, AddsUp
<1>4. AddsUp(Total)
  BY <1>2, <1>3 DEF Total
<1>5. QED
  BY <1>3, <1>4 DEF TotalSums

(* When one sample is added or removed, the sum changes by that sample.    *)
LEMMA SumFollows ==
  ASSUME IsFiniteSet(Values), MultiplicityCounts, TotalSums, MultiplicityCounts', TotalSums',
         NEW x \in Values, NEW d \in Int,
         \A y \in Values : InBag(y)' = InBag(y) + (IF x = y THEN d ELSE 0)
  PROVE  Total[Values] \in Int /\ Total'[Values] = Total[Values] + x * d
<1>1. Copies \in [Values -> Nat] /\ \A y \in Values : Copies[y] = InBag(y)
  BY DEF Copies, MultiplicityCounts
<1>2. Copies' \in [Values -> Nat] /\ \A y \in Values : Copies'[y] = InBag(y)'
  BY DEF Copies, MultiplicityCounts
<1>3. Moved(Copies, Copies', x, d)
  BY <1>1, <1>2 DEF Moved
<1>4. SumsUp(Total, Copies) /\ SumsUp(Total', Copies')
  BY DEF TotalSums, SumsUp
<1>5. Total[Values] \in Nat /\ Total'[Values] = Total[Values] + x * d
  BY <1>1, <1>2, <1>3, <1>4, SumMoves
<1>6. QED
  BY <1>5

HistType == hist \in [repeated : BOOLEAN, shrunk : BOOLEAN, skewed : BOOLEAN]

(* sample_sum is the sum of the samples, up to its width, until a sample   *)
(* that was not in the bag is "removed" from a bag of one.  Samples are    *)
(* integers of 32 bits, so that there are finitely many of them.           *)
THEOREM SumKeptCorrect ==
  ASSUME IsFiniteSet(Values)
  PROVE  Spec => []SumKept
<1>1. Init /\ IInv => HistType /\ SumRight
  <2> SUFFICES ASSUME Init, IInv PROVE HistType /\ SumRight
    OBVIOUS
  <2>1. HistType /\ sample_sum = 0
    BY DEF Init, HistType
  <2>2. \A y : Multiplicity(y) = 0
    BY DEF Init, Multiplicity
  <2>3. MultiplicityCounts
    BY MultiplicityIsInBag DEF IInv
  <2>4. SumsUp(Total, Copies)
    BY <2>3, TotalSumsUp DEF TotalSums
  <2>5. Copies \in [Values -> Nat] /\ \A y \in Values : Copies[y] = 0
    BY <2>2 DEF Copies
  <2>6. Total[Values] = 0
    BY <2>4, <2>5, SumOfNone
  <2>7. 0 % SumModulus = 0
    BY ValuesAssumption
  <2>8. QED
    BY <2>1, <2>6, <2>7 DEF SumRight
<1>2. BagInv => MultiplicityCounts /\ TotalSums
  BY MultiplicityIsInBag, TotalSumsUp
<1>3. BagInv' => MultiplicityCounts' /\ TotalSums'
  BY <1>2, PTL
<1>4. IInv /\ IInv' /\ HistType /\ SumRight /\ [Next]_vars => HistType' /\ SumRight'
  <2> SUFFICES ASSUME IInv, IInv', HistType, SumRight, [Next]_vars PROVE HistType' /\ SumRight'
    OBVIOUS
  <2>1. MultiplicityCounts /\ TotalSums /\ MultiplicityCounts' /\ TotalSums'
    BY <1>2, <1>3 DEF IInv
  <2>2. SumModulus \in Nat \ {0} /\ sample_sum \in Int
    BY ValuesAssumption DEF IInv
  <2>3. ASSUME NEW x \in Values, AddSample(x) PROVE HistType' /\ SumRight'
    <3>1. HistType' /\ hist'.skewed = hist.skewed
      BY <2>3 DEF AddSample, HistType, Present
    <3>2. \A y \in Values : InBag(y)' = InBag(y) + (IF x = y THEN 1 ELSE 0)
      BY <2>3, AddArranges DEF IInv
    <3>3. Total[Values] \in Int /\ Total'[Values] = Total[Values] + x * 1
      BY <2>1, <3>2, SumFollows
    <3>4. x \in Int /\ x * 1 = x
      BY ValuesAssumption
    <3>5. sample_sum' = (sample_sum + x) % SumModulus
      BY <2>3 DEF AddSample, AddToSum
    <3>6. ((Total[Values] % SumModulus) + x) % SumModulus = (Total[Values] + x) % SumModulus
      BY <2>2, <3>3, <3>4, ModPlus
    <3>7. QED
      BY <3>1, <3>3, <3>4, <3>5, <3>6 DEF SumRight
  <2>4. ASSUME NEW x \in Values, RemoveSample(x) PROVE HistType' /\ SumRight'
    <3>1. HistType' /\ hist'.skewed = (hist.skewed \/ ~Present(x))
      BY <2>4 DEF RemoveSample, HistType, Present
    <3>2. ASSUME ~hist'.skewed PROVE sample_sum' = Total'[Values] % SumModulus
      <4>1. sample_sum = Total[Values] % SumModulus /\ InBag(x) > 0
        BY <2>1, <3>1, <3>2 DEF SumRight, Present, MultiplicityCounts
      <4>2. \A y \in Values : InBag(y)' = InBag(y) + (IF x = y THEN -1 ELSE 0)
        <5>1. /\ sample_count > 0 /\ sample_count \in Nat
              /\ sample_count = 1 => \A y : InBag(y)' = 0
              /\ sample_count > 1 => \A y : InBag(y) = InBag(y)' + (IF x = y THEN 1 ELSE 0)
          BY <2>4, RemoveArranges, BagFacts DEF IInv
        <5>2. \A y : InBag(y) \in Nat /\ InBag(y)' \in Nat
          BY <2>1 DEF MultiplicityCounts
        <5>3. sample_count = 1 => \A y : InBag(y) = IF x = y THEN 1 ELSE 0
          BY <4>1, BagSizes DEF IInv
        <5>4. QED
          BY <5>1, <5>2, <5>3
      <4>3. Total[Values] \in Int /\ Total'[Values] = Total[Values] + x * (-1)
        BY <2>1, <4>2, SumFollows
      <4>4. x \in Int /\ x * (-1) = -x /\ SumModulus - x \in Int
        BY <2>2, ValuesAssumption
      <4>5. sample_sum' = (sample_sum + SumModulus - x) % SumModulus
        BY <2>4 DEF RemoveSample
      <4>6. ((Total[Values] % SumModulus) + (SumModulus - x)) % SumModulus
            = (Total[Values] + (SumModulus - x)) % SumModulus
        BY <2>2, <4>3, <4>4, ModPlus
      <4>7. (Total[Values] + (SumModulus - x)) % SumModulus = (Total[Values] - x) % SumModulus
        <5>1. PICK u \in Int, v \in Int : /\ u = Total[Values] + (SumModulus - x)
                                          /\ v = Total[Values] - x
          BY <2>2, <4>3, <4>4
        <5>2. u = v + SumModulus * 1
          BY <2>2, <4>3, <4>4, <5>1
        <5>3. 1 \in Int
          OBVIOUS
        <5>4. u % SumModulus = v % SumModulus
          BY <2>2, <5>2, <5>3, ModUnique, Zenon
        <5>5. QED
          BY <5>1, <5>4
      <4>8. sample_sum + SumModulus - x = (Total[Values] % SumModulus) + (SumModulus - x)
        BY <2>2, <4>1, <4>4
      <4>9. Total'[Values] = Total[Values] - x
        BY <4>3, <4>4
      <4>10. QED
        BY <4>5, <4>6, <4>7, <4>8, <4>9
    <3>3. QED
      BY <3>1, <3>2 DEF SumRight
  <2>5. CASE UNCHANGED vars
    BY <2>5 DEF vars, HistType, SumRight, Total, AddsUp, Multiplicity, Count, First, Third
  <2>6. QED
    BY <2>3, <2>4, <2>5 DEF Next
<1>5. SumRight => SumKept
  BY SumKeptReads
<1>6. QED
  BY <1>1, <1>4, <1>5, InvariantHolds, PTL DEF Spec

================================================================================
