----------------------------- MODULE SequenceLemmas -----------------------------
(***************************************************************************)
(* Lemmas about sequences that several proofs rest on.  For the two        *)
(* pipelines of the engine: elements numbered 1, 2, ... that are appended  *)
(* at one end, and that move one at a time from a queue to what is before  *)
(* it.  For the list and the scorer: one element put in or taken out at a  *)
(* place in the middle, and the least element of a set of places.          *)
(***************************************************************************)
EXTENDS SequenceTheorems, WellFoundedInduction, TLAPS

(* The numbers 1 to n, in order. *)
UpTo(n) == [i \in 1 .. n |-> i]

(* They are a sequence of length n. *)
LEMMA UpToSeq ==
  ASSUME NEW n \in Nat
  PROVE  UpTo(n) \in Seq(Nat) /\ Len(UpTo(n)) = n
  BY DEF UpTo

(* One more number at the end. *)
LEMMA UpToNext ==
  ASSUME NEW n \in Nat
  PROVE  UpTo(n) \o <<n + 1>> = UpTo(n + 1)
<1> DEFINE l == UpTo(n) \o <<n + 1>>
           r == UpTo(n + 1)
<1>1. UpTo(n) \in Seq(Nat) /\ Len(UpTo(n)) = n /\ r \in Seq(Nat) /\ Len(r) = n + 1
  BY UpToSeq
<1>2. <<n + 1>> \in Seq(Nat) /\ Len(<<n + 1>>) = 1 /\ <<n + 1>>[1] = n + 1
  OBVIOUS
<1>3. /\ l \in Seq(Nat)
      /\ Len(l) = n + 1
      /\ \A i \in 1 .. n + 1 : l[i] = IF i <= n THEN UpTo(n)[i] ELSE <<n + 1>>[i - n]
  BY <1>1, <1>2, ConcatProperties
<1>4. \A i \in 1 .. n : UpTo(n)[i] = i
  BY DEF UpTo
<1>5. \A i \in 1 .. n + 1 : r[i] = i
  BY DEF UpTo
<1> HIDE DEF l, r
<1>6. ASSUME NEW i \in 1 .. n + 1 PROVE l[i] = r[i]
  <2>1. CASE i <= n
    BY <2>1, <1>3, <1>4, <1>5
  <2>2. CASE ~(i <= n)
    <3>1. i = n + 1 /\ i - n = 1
      BY <2>2
    <3>2. QED
      BY <2>2, <3>1, <1>2, <1>3, <1>5
  <2>3. QED
    BY <2>1, <2>2
<1>7. l = r
  BY <1>1, <1>3, <1>6, SeqEqual
<1>8. QED
  BY <1>7 DEF l, r

(* Appending to the last of three sequences appends to them all. *)
LEMMA AppendLast ==
  ASSUME NEW S, NEW h \in Seq(S), NEW g \in Seq(S), NEW q \in Seq(S), NEW e \in S
  PROVE  h \o g \o Append(q, e) = (h \o g \o q) \o <<e>>
<1>1. Append(q, e) = q \o <<e>> /\ <<e>> \in Seq(S)
  BY AppendIsConcat
<1>2. h \o g \in Seq(S)
  BY ConcatProperties
<1>3. QED
  BY <1>1, <1>2, ConcatAssociative

(* A queue is its head and its tail. *)
LEMMA HeadAndTail ==
  ASSUME NEW S, NEW q \in Seq(S), q # <<>>
  PROVE  <<Head(q)>> \o Tail(q) = q
<1>0. Head(q) \in S /\ Tail(q) \in Seq(S) /\ <<Head(q)>> \in Seq(S)
  BY HeadTailProperties
<1> DEFINE l == <<Head(q)>> \o Tail(q)
<1>1. Len(q) \in Nat /\ Len(q) >= 1 /\ Head(q) = q[1]
  BY EmptySeq, LenProperties
<1>2. /\ Len(Tail(q)) = Len(q) - 1
      /\ \A i \in 1 .. Len(Tail(q)) : Tail(q)[i] = q[i + 1]
  BY HeadTailProperties
<1>3. Len(<<Head(q)>>) = 1 /\ <<Head(q)>>[1] = Head(q)
  OBVIOUS
<1>4. /\ l \in Seq(S)
      /\ Len(l) = 1 + Len(Tail(q))
      /\ \A i \in 1 .. 1 + Len(Tail(q)) :
            l[i] = IF i <= 1 THEN <<Head(q)>>[i] ELSE Tail(q)[i - 1]
  BY <1>0, <1>3, ConcatProperties
<1> HIDE DEF l
<1>5. ASSUME NEW i \in 1 .. Len(l) PROVE l[i] = q[i]
  <2>1. CASE i = 1
    BY <2>1, <1>1, <1>2, <1>3, <1>4
  <2>2. CASE i # 1
    <3>1. i - 1 \in 1 .. Len(Tail(q)) /\ (i - 1) + 1 = i
      BY <2>2, <1>1, <1>2, <1>4
    <3>2. l[i] = Tail(q)[i - 1]
      BY <2>2, <1>1, <1>2, <1>4
    <3>3. Tail(q)[i - 1] = q[(i - 1) + 1]
      BY <3>1, <1>2
    <3>4. QED
      BY <3>1, <3>2, <3>3
  <2>3. QED
    BY <2>1, <2>2
<1>6. Len(l) = Len(q)
  BY <1>1, <1>2, <1>4
<1>7. QED
  BY <1>4, <1>5, <1>6, SeqEqual DEF l

(* Taking the head of a queue in hand moves no element. *)
LEMMA TakeHead ==
  ASSUME NEW S, NEW h \in Seq(S), NEW q \in Seq(S), q # <<>>
  PROVE  h \o <<Head(q)>> \o Tail(q) = h \o <<>> \o q
<1>1. Head(q) \in S /\ Tail(q) \in Seq(S) /\ <<Head(q)>> \in Seq(S)
  BY HeadTailProperties
<1>2. <<Head(q)>> \o Tail(q) = q
  BY HeadAndTail
<1>3. h \o <<>> = h
  BY ConcatEmptySeq
<1>4. QED
  BY <1>1, <1>2, <1>3, ConcatAssociative

(* Moving the head of a queue to the end of what is before it. *)
LEMMA MoveHead ==
  ASSUME NEW S, NEW h \in Seq(S), NEW q \in Seq(S), q # <<>>
  PROVE  Append(h, Head(q)) \o Tail(q) = h \o q
<1>1. Head(q) \in S /\ Tail(q) \in Seq(S) /\ <<Head(q)>> \in Seq(S)
  BY HeadTailProperties
<1>2. Append(h, Head(q)) = h \o <<Head(q)>>
  BY <1>1, AppendIsConcat
<1>3. QED
  BY <1>1, <1>2, HeadAndTail, ConcatAssociative

(* Moving what is in hand to the end of a queue. *)
LEMMA PutDown ==
  ASSUME NEW S, NEW h \in Seq(S), NEW q \in Seq(S), NEW g \in Seq(S)
  PROVE  /\ q \o g \in Seq(S) /\ Len(q \o g) = Len(q) + Len(g)
         /\ h \o (q \o g) \o <<>> = h \o q \o g
<1>1. q \o g \in Seq(S) /\ Len(q \o g) = Len(q) + Len(g)
  BY ConcatProperties
<1>2. h \o (q \o g) \in Seq(S)
  BY <1>1, ConcatProperties
<1>3. h \o (q \o g) \o <<>> = h \o (q \o g)
  BY <1>2, ConcatEmptySeq
<1>4. h \o (q \o g) = (h \o q) \o g
  BY ConcatAssociative
<1>5. QED
  BY <1>1, <1>3, <1>4

(* A sequence without its element number i. *)
TakenOut(s, i) == SubSeq(s, 1, i - 1) \o SubSeq(s, i + 1, Len(s))

(* The elements after it move one place to the front. *)
LEMMA TakeOut ==
  ASSUME NEW S, NEW s \in Seq(S), NEW i \in 1 .. Len(s)
  PROVE  /\ TakenOut(s, i) \in Seq(S)
         /\ Len(TakenOut(s, i)) = Len(s) - 1
         /\ \A k \in 1 .. Len(s) - 1 :
               TakenOut(s, i)[k] = IF k < i THEN s[k] ELSE s[k + 1]
<1> DEFINE a == SubSeq(s, 1, i - 1)
           b == SubSeq(s, i + 1, Len(s))
<1>1. Len(s) \in Nat /\ \A k \in 1 .. Len(s) : s[k] \in S
  BY LenProperties
<1>2. a \in Seq(S) /\ Len(a) = i - 1 /\ \A k \in 1 .. i - 1 : a[k] = s[k]
  <2>1. \A k \in 1 .. i - 1 : s[k] \in S
    BY <1>1
  <2>2. /\ a \in Seq(S) /\ Len(a) = IF 1 <= i - 1 THEN (i - 1) - 1 + 1 ELSE 0
        /\ \A k \in 1 .. (i - 1) - 1 + 1 : a[k] = s[1 + k - 1]
    BY <1>1, <2>1, SubSeqProperties
  <2> HIDE DEF a
  <2>3. QED
    BY <1>1, <2>2
<1>3. b \in Seq(S) /\ Len(b) = Len(s) - i /\ \A k \in 1 .. Len(s) - i : b[k] = s[i + k]
  <2>1. \A k \in i + 1 .. Len(s) : s[k] \in S
    BY <1>1
  <2>2. /\ b \in Seq(S) /\ Len(b) = IF i + 1 <= Len(s) THEN Len(s) - (i + 1) + 1 ELSE 0
        /\ \A k \in 1 .. Len(s) - (i + 1) + 1 : b[k] = s[(i + 1) + k - 1]
    BY <1>1, <2>1, SubSeqProperties
  <2> HIDE DEF b
  <2>3. QED
    BY <1>1, <2>2
<1>4. TakenOut(s, i) = a \o b
  BY DEF TakenOut
<1> HIDE DEF a, b
<1>5. /\ a \o b \in Seq(S) /\ Len(a \o b) = Len(a) + Len(b)
      /\ \A k \in 1 .. Len(a) + Len(b) : (a \o b)[k] = IF k <= Len(a) THEN a[k] ELSE b[k - Len(a)]
  BY <1>2, <1>3, ConcatProperties
<1>6. ASSUME NEW k \in 1 .. Len(s) - 1 PROVE (a \o b)[k] = IF k < i THEN s[k] ELSE s[k + 1]
  <2>1. CASE k < i
    BY <1>1, <1>2, <1>3, <1>5, <2>1
  <2>2. CASE ~(k < i)
    <3>1. k - Len(a) \in 1 .. Len(s) - i /\ i + (k - Len(a)) = k + 1
      BY <1>1, <1>2, <2>2
    <3>2. b[k - Len(a)] = s[i + (k - Len(a))]
      BY <1>3, <3>1
    <3>3. b[k - Len(a)] = s[k + 1]
      BY <3>1, <3>2
    <3>4. k \in 1 .. Len(a) + Len(b) /\ ~(k <= Len(a))
      BY <1>1, <1>2, <1>3, <2>2
    <3>5. QED
      BY <1>5, <2>2, <3>3, <3>4
  <2>3. QED
    BY <2>1, <2>2
<1>7. QED
  BY <1>1, <1>2, <1>3, <1>4, <1>5, <1>6

(* A sequence with one more element, which becomes number i. *)
PutIn(s, i, e) == SubSeq(s, 1, i - 1) \o <<e>> \o SubSeq(s, i, Len(s))

(* The elements from there on move one place to the end. *)
LEMMA PutInOne ==
  ASSUME NEW S, NEW s \in Seq(S), NEW i \in 1 .. Len(s) + 1, NEW e \in S
  PROVE  /\ PutIn(s, i, e) \in Seq(S)
         /\ Len(PutIn(s, i, e)) = Len(s) + 1
         /\ PutIn(s, i, e)[i] = e
         /\ \A k \in 1 .. Len(s) : PutIn(s, i, e)[IF k < i THEN k ELSE k + 1] = s[k]
<1> DEFINE a == SubSeq(s, 1, i - 1)
           b == SubSeq(s, i, Len(s))
           c == a \o <<e>>
<1>1. Len(s) \in Nat /\ \A k \in 1 .. Len(s) : s[k] \in S
  BY LenProperties
<1>2. a \in Seq(S) /\ Len(a) = i - 1 /\ \A k \in 1 .. i - 1 : a[k] = s[k]
  <2>1. \A k \in 1 .. i - 1 : s[k] \in S
    BY <1>1
  <2>2. /\ a \in Seq(S) /\ Len(a) = IF 1 <= i - 1 THEN (i - 1) - 1 + 1 ELSE 0
        /\ \A k \in 1 .. (i - 1) - 1 + 1 : a[k] = s[1 + k - 1]
    BY <1>1, <2>1, SubSeqProperties
  <2> HIDE DEF a
  <2>3. QED
    BY <1>1, <2>2
<1>3. b \in Seq(S) /\ Len(b) = Len(s) - i + 1 /\ \A k \in 1 .. Len(s) - i + 1 : b[k] = s[i + k - 1]
  <2>1. \A k \in i .. Len(s) : s[k] \in S
    BY <1>1
  <2>2. /\ b \in Seq(S) /\ Len(b) = IF i <= Len(s) THEN Len(s) - i + 1 ELSE 0
        /\ \A k \in 1 .. Len(s) - i + 1 : b[k] = s[i + k - 1]
    BY <1>1, <2>1, SubSeqProperties
  <2> HIDE DEF b
  <2>3. QED
    BY <1>1, <2>2
<1>4. PutIn(s, i, e) = c \o b
  BY DEF PutIn
<1> HIDE DEF a, b
<1>5. c = Append(a, e)
  BY <1>2, AppendIsConcat
<1>6. /\ c \in Seq(S) /\ Len(c) = i /\ c[i] = e /\ \A k \in 1 .. i - 1 : c[k] = s[k]
  <2>1. /\ c \in Seq(S) /\ Len(c) = Len(a) + 1 /\ c[Len(a) + 1] = e
        /\ \A k \in 1 .. Len(a) : c[k] = a[k]
    BY <1>2, <1>5, AppendProperties
  <2>2. Len(a) + 1 = i
    BY <1>2
  <2> HIDE DEF c
  <2>3. QED
    BY <1>2, <2>1, <2>2
<1> HIDE DEF c
<1>7. /\ c \o b \in Seq(S) /\ Len(c \o b) = Len(c) + Len(b)
      /\ \A k \in 1 .. Len(c) + Len(b) : (c \o b)[k] = IF k <= Len(c) THEN c[k] ELSE b[k - Len(c)]
  BY <1>3, <1>6, ConcatProperties
<1>8. (c \o b)[i] = e
  BY <1>1, <1>3, <1>6, <1>7
<1>9. ASSUME NEW k \in 1 .. Len(s) PROVE (c \o b)[IF k < i THEN k ELSE k + 1] = s[k]
  <2>1. CASE k < i
    BY <1>1, <1>3, <1>6, <1>7, <2>1
  <2>2. CASE ~(k < i)
    <3>1. k + 1 - Len(c) \in 1 .. Len(s) - i + 1 /\ i + (k + 1 - Len(c)) - 1 = k
      BY <1>1, <1>6, <2>2
    <3>2. b[k + 1 - Len(c)] = s[i + (k + 1 - Len(c)) - 1]
      BY <1>3, <3>1
    <3>3. k + 1 \in 1 .. Len(c) + Len(b) /\ ~(k + 1 <= Len(c))
      BY <1>1, <1>3, <1>6, <2>2
    <3>4. QED
      BY <1>7, <2>2, <3>1, <3>2, <3>3
  <2>3. QED
    BY <2>1, <2>2
<1>10. QED
  BY <1>1, <1>3, <1>4, <1>6, <1>7, <1>8, <1>9

(* "Less than" on the natural numbers, as a relation. *)
Less == {ss \in Nat \X Nat : ss[1] < ss[2]}

(* A set of natural numbers that is not empty has a least element. *)
LEMMA Least ==
  ASSUME NEW T \in SUBSET Nat, T # {}
  PROVE  \E x \in T : \A y \in T : x <= y
<1>1. Less = OpToRel(<, Nat)
  BY DEF OpToRel, Less
<1>2. IsWellFoundedOn(Less, Nat)
  BY <1>1, NatLessThanWellFounded
<1>3. PICK x \in T : \A y \in T : <<y, x>> \notin Less
  BY <1>2, WFMin
<1>4. ASSUME NEW y \in T PROVE x <= y
  <2>1. <<y, x>> \in Nat \X Nat /\ <<y, x>>[1] = y /\ <<y, x>>[2] = x
    OBVIOUS
  <2>2. ~(y < x)
    BY <1>3, <2>1 DEF Less
  <2>3. QED
    BY <2>2
<1>5. QED
  BY <1>4

================================================================================
