------------------------------- MODULE IQRScorer -------------------------------
(***************************************************************************)
(* IQRScorer (src/util/iqr-scorer.cpp): a bag of samples kept as a lower   *)
(* multiset, a median and an upper multiset, with the middle of each       *)
(* multiset (the quartiles) tracked by iterators.  It is only used under   *)
(* elo_bucket_scorer_mutex, so that each call is one action.               *)
(*                                                                         *)
(* A multiset is its sorted sequence and an iterator a position in it: an  *)
(* insertion, which is made after all equal elements, and an erasure move  *)
(* the iterators behind them.  A call that dereferences an iterator which  *)
(* does not point at an element is undefined; a build either crashes or    *)
(* goes on with an arbitrary quartile (Garbage).  Values that the code     *)
(* halves are kept doubled.                                                *)
(***************************************************************************)
EXTENDS Integers, SequencesExt, FiniteSetsExt

CONSTANTS Values,      (* samples; the rounded ratings of the store       *)
          SumModulus,  (* 2^32: sample_sum is a uint32_t                  *)
          MaxSamples   (* bound on the number of samples                  *)

ASSUME ValuesAssumption ==
    Values \subseteq Nat /\ SumModulus \in Nat \ {0} /\ MaxSamples \in Nat

VARIABLES
    first_quartile_set, third_quartile_set,
    q1, q3,        (* [value2, it_f, it_s]                                 *)
    median,        (* [value2, is_composite_quartile, value_f, value_s]    *)
    sample_sum, sample_count,
    crashed,
    hist           (* history: [repeated, shrunk, skewed]; the first two   *)
                   (* since the scorer last had less than two samples      *)

vars == <<first_quartile_set, third_quartile_set, q1, q3, median, sample_sum,
          sample_count, crashed, hist>>

--------------------------------------------------------------------------------
(* Multisets and iterators *)

End      == 0      (* end(), and begin() of an empty multiset *)
Dangling == -1

Garbage == [value2 |-> -1, it_f |-> Dangling, it_s |-> Dangling]

InsertPosition(set, x) == 1 + Cardinality({i \in DOMAIN set : set[i] <= x})
FindPosition(set, x)   == Min({i \in DOMAIN set : set[i] = x})

(* A quartile on one element, and between two. *)
On(set, i) ==
    IF i \in DOMAIN set
    THEN [value2 |-> 2 * set[i], it_f |-> i, it_s |-> End] ELSE Garbage
BugBetween(set, i, j) ==                                   (* mutant *)
    IF {i, j} \subseteq DOMAIN set
    THEN [value2 |-> set[i] + set[j], it_f |-> j, it_s |-> i] ELSE Garbage
Between(set, i, j) ==
    IF {i, j} \subseteq DOMAIN set
    THEN [value2 |-> set[i] + set[j], it_f |-> i, it_s |-> j] ELSE Garbage

AtBothEnds(q, move(_)) == [q EXCEPT !.it_f = move(@), !.it_s = move(@)]
AfterInsert(q, p) ==
    LET move(it) == IF it >= p THEN it + 1 ELSE it IN AtBothEnds(q, move)
AfterErase(q, p) ==
    LET move(it) == CASE it = p -> Dangling [] it > p -> it - 1 [] OTHER -> it
    IN  AtBothEnds(q, move)

(* A multiset and its quartile are handed around together, as a half.      *)
Half(s, q) == [set |-> s, q |-> q]

AddQuartile(half, x) ==
    LET p   == InsertPosition(half.set, x)
        set == InsertAt(half.set, p, x)
        f   == AfterInsert(half.q, p).it_f
    IN  Half(set,
          IF f \notin DOMAIN set THEN Garbage
          ELSE IF Len(set) % 2 = 1
               THEN On(set, IF x < set[f] THEN f ELSE f + 1)
               ELSE IF x < set[f] THEN Between(set, f - 1, f) ELSE Between(set, f, f + 1))

RemoveQuartile(half, x) ==
    LET set == half.set
        p   == FindPosition(set, x)
        f   == half.q.it_f
        q   == IF f \notin DOMAIN set THEN Garbage
               ELSE IF Len(set) % 2 = 0
                    THEN On(set, IF p = f \/ x < set[f] THEN half.q.it_s ELSE f)
                    ELSE CASE p = f               -> Between(set, f - 1, f + 1)
                           [] p # f /\ x < set[f] -> Between(set, f, f + 1)
                           [] OTHER               -> Between(set, f - 1, f)
    IN  Half(RemoveAt(set, p), AfterErase(q, p))

--------------------------------------------------------------------------------
(* Effects of the calls *)

First == Half(first_quartile_set, q1)
Third == Half(third_quartile_set, q3)

NoQuartile(v) == [value2 |-> 2 * v, it_f |-> End, it_s |-> End]
SingleMedian(v) ==
    [value2 |-> 2 * v, is_composite_quartile |-> FALSE, value_f |-> v, value_s |-> 0]
(* The sum is a uint32_t; two rounded ratings do not reach its width. *)
CompositeMedian(v, w) ==
    [value2 |-> v + w, is_composite_quartile |-> TRUE, value_f |-> v, value_s |-> w]

BugLargest(half) == Head(half.set)                         (* mutant *)
Largest(half)  == Last(half.set)     (* *rbegin()   *)
Smallest(half) == Head(half.set)     (* *(--rend()) *)

(* Both halves and the median at the end of a call. *)
Become(f, m, t) ==
    /\ first_quartile_set' = f.set
    /\ third_quartile_set' = t.set
    /\ q1' = f.q
    /\ q3' = t.q
    /\ median' = m
    /\ crashed' \in IF (f.q = Garbage /\ f # First) \/ (t.q = Garbage /\ t # Third)
                   THEN BOOLEAN ELSE {FALSE}

Empty(v) == Half(<<>>, NoQuartile(v))
Only(v)  == Half(<<v>>, On(<<v>>, 1))

AddToPair(x) ==
    LET low  == AddQuartile(First, x)
        high == AddQuartile(Third, x)
    IN  IF x < median.value_f
        THEN Become(RemoveQuartile(low, Largest(low)), SingleMedian(Largest(low)), Third)
        ELSE IF x >= median.value_s
        THEN Become(First, SingleMedian(Smallest(high)), RemoveQuartile(high, Smallest(high)))
        ELSE Become(First, SingleMedian(x), Third)

AddToSingle(x) ==
    LET m    == median.value_f
        low  == AddQuartile(First, x)
        high == AddQuartile(Third, x)
    IN  IF x >= m
        THEN Become(AddQuartile(First, m), CompositeMedian(m, Smallest(high)), high)
        ELSE Become(low, CompositeMedian(Largest(low), m), AddQuartile(Third, m))

Count(half, x) == Cardinality({i \in DOMAIN half.set : half.set[i] = x})

(* How often x is in the bag. *)
Multiplicity(x) ==
    CASE sample_count = 0 -> 0
      [] sample_count > 0 /\ median.is_composite_quartile -> Count(First, x) + Count(Third, x)
      [] OTHER -> Count(First, x) + Count(Third, x)
                  + (IF median.value_f = x THEN 1 ELSE 0)
Present(x) == Multiplicity(x) > 0

BugAddToSum(x) == sample_sum + x                           (* mutant *)
BugAddToSumCount(x) == (sample_sum + sample_count) % SumModulus  (* mutant *)
AddToSum(x) == (sample_sum + x) % SumModulus

AddSample(x) ==
    /\ sample_count < MaxSamples
    /\ CASE sample_count = 0 ->
              Become(Half(first_quartile_set, NoQuartile(x)), SingleMedian(x),
                     Half(third_quartile_set, NoQuartile(x)))
         [] sample_count = 1 ->
              LET lo == IF x < median.value_f THEN x ELSE median.value_f
                  hi == IF x < median.value_f THEN median.value_f ELSE x
              IN  Become(Only(lo), CompositeMedian(lo, hi), Only(hi))
         [] sample_count > 1 /\ median.is_composite_quartile -> AddToPair(x)
         [] OTHER -> AddToSingle(x)
    /\ sample_sum' = AddToSum(x)
    /\ sample_count' = sample_count + 1
    /\ hist' = [hist EXCEPT !.repeated = sample_count > 0 /\ (@ \/ Present(x)),
                           !.shrunk = sample_count > 1 /\ @]

(* remove_sample throws before it changes anything. *)
BugRemoveThrows(x) == sample_count = 0 \/ Multiplicity(x) = 0  (* mutant *)
RemoveThrows(x) ==
    CASE sample_count = 0 -> TRUE
      [] sample_count = 1 -> FALSE
      [] sample_count = 2 -> x \notin {median.value_f, median.value_s}
      [] sample_count > 2 /\ median.is_composite_quartile ->
           \/ x <= median.value_f /\ Count(First, x) = 0
           \/ x > median.value_f /\ x >= median.value_s /\ Count(Third, x) = 0
           \/ median.value_f < x /\ x < median.value_s
      [] OTHER ->
           \/ x > median.value_f /\ Count(Third, x) = 0
           \/ x < median.value_f /\ Count(First, x) = 0

BugRemoveFromPair(x) ==                                    (* mutant *)
    IF x <= median.value_f
    THEN Become(RemoveQuartile(First, x), SingleMedian(median.value_s), Third)
    ELSE Become(First, SingleMedian(median.value_f), RemoveQuartile(Third, x))
RemoveFromPair(x) ==
    IF x <= median.value_f
    THEN Become(RemoveQuartile(First, x), SingleMedian(median.value_s),
                RemoveQuartile(Third, median.value_s))
    ELSE Become(RemoveQuartile(First, median.value_f), SingleMedian(median.value_f),
                RemoveQuartile(Third, x))

RemoveFromSingle(x) ==
    LET m    == median.value_f
        low  == AddQuartile(RemoveQuartile(First, x), m)
        high == AddQuartile(RemoveQuartile(Third, x), m)
    IN  IF x > m
        THEN Become(First, CompositeMedian(Largest(First), m), high)
        ELSE IF x < m
        THEN Become(low, CompositeMedian(m, Smallest(Third)), Third)
        ELSE Become(First, CompositeMedian(Largest(First), Smallest(Third)), Third)

RemoveSample(x) ==
    /\ ~RemoveThrows(x)
    /\ CASE sample_count = 1 ->
              Become(Half(first_quartile_set, NoQuartile(0)), SingleMedian(0),
                     Half(third_quartile_set, NoQuartile(0)))
         [] sample_count = 2 ->
              LET v == IF median.value_f = x THEN median.value_s ELSE median.value_f
              IN  Become(Empty(v), SingleMedian(v), Empty(v))
         [] sample_count > 2 /\ median.is_composite_quartile -> RemoveFromPair(x)
         [] OTHER -> RemoveFromSingle(x)
    /\ sample_sum' = (sample_sum + SumModulus - x) % SumModulus
    /\ sample_count' = sample_count - 1
    /\ hist' = [hist EXCEPT !.repeated = sample_count > 2 /\ @,
                           !.shrunk = \/ sample_count = 3 /\ x # median.value_f
                                      \/ sample_count > 2 /\ @,
                           !.skewed = @ \/ ~Present(x)]

--------------------------------------------------------------------------------

Init ==
    /\ first_quartile_set = <<>>
    /\ third_quartile_set = <<>>
    /\ q1 = NoQuartile(0)
    /\ q3 = NoQuartile(0)
    /\ median = SingleMedian(0)
    /\ sample_sum = 0
    /\ sample_count = 0
    /\ crashed = FALSE
    /\ hist = [repeated |-> FALSE, shrunk |-> FALSE, skewed |-> FALSE]

Next == ~crashed /\ \E x \in Values : AddSample(x) \/ RemoveSample(x)

Spec == Init /\ [][Next]_vars

--------------------------------------------------------------------------------
(* Random draws *)

(* advance(begin, jump) and its element; NoElement stands for what is      *)
(* read at end() and beyond.                                               *)
NoElement == -1
At(half, jump) == IF jump < Len(half.set) THEN half.set[jump + 1] ELSE NoElement

(* fetch_random_sample_linear for the greater, n, of its two random numbers *)
BugLinearDraw(n) ==                                        (* mutant *)
    IF ~median.is_composite_quartile /\ n = sample_count \div 2
    THEN median.value_f
    ELSE IF n < sample_count \div 2
    THEN At(First, n)
    ELSE At(Third, n - sample_count \div 2)
LinearDraw(n) ==
    IF ~median.is_composite_quartile /\ n = sample_count \div 2
    THEN median.value_f
    ELSE IF n < sample_count \div 2
    THEN At(First, n)
    ELSE At(Third, n - sample_count \div 2 - (IF median.is_composite_quartile THEN 0 ELSE 1))

(* The results fetch_random_sample can have. *)
RandomDraws ==
    LET jumps == 0 .. sample_count \div 2 - 1
    IN  (IF median.is_composite_quartile THEN {} ELSE {median.value_f})
        \cup {At(First, j) : j \in jumps} \cup {At(Third, j) : j \in jumps}

--------------------------------------------------------------------------------
(* Properties *)

IsQuartile(q, set) ==
    /\ q.value2 \in Int
    /\ {q.it_f, q.it_s} \subseteq {Dangling, End} \cup DOMAIN set

(* Types, with every iterator end(), dangling or at an element. *)
TypeOK ==
    /\ first_quartile_set \in Seq(Values)
    /\ third_quartile_set \in Seq(Values)
    /\ IsQuartile(q1, first_quartile_set)
    /\ IsQuartile(q3, third_quartile_set)
    /\ median \in [value2 : Nat, is_composite_quartile : BOOLEAN,
                   value_f : Values \cup {0}, value_s : Values \cup {0}]
    /\ sample_sum \in 0 .. SumModulus - 1
    /\ sample_count \in 0 .. MaxSamples
    /\ crashed \in BOOLEAN

(* The samples in order, as the two multisets and the median hold them. *)
Ordered ==
    first_quartile_set
    \o (IF median.is_composite_quartile \/ sample_count = 0 THEN <<>> ELSE <<median.value_f>>)
    \o third_quartile_set

(* The median of a sorted sequence, doubled. *)
Middle2(s) ==
    LET n == Len(s) IN
    IF n % 2 = 1 THEN 2 * s[(n + 1) \div 2] ELSE s[n \div 2] + s[n \div 2 + 1]

(* Whatever is added and removed: the two multisets are of equal size,     *)
(* nothing below is greater than anything above, and the median is right.  *)
Partitioned ==
    /\ Len(Ordered) = sample_count
    /\ Len(first_quartile_set) = Len(third_quartile_set)
    /\ \A i \in 1 .. sample_count - 1 : Ordered[i] <= Ordered[i + 1]
    /\ sample_count > 0 => median.value2 = Middle2(Ordered)

(* The quartiles are the medians of the two multisets, and no call is      *)
(* undefined, as long as since the scorer last had less than two samples   *)
(* no sample was added that it already had, and no multiset lost its only  *)
(* element.                                                                *)
QuartilesKept ==
    ~hist.repeated /\ ~hist.shrunk =>
        /\ ~crashed
        /\ sample_count > 1 =>
              /\ q1.value2 = Middle2(first_quartile_set)
              /\ q3.value2 = Middle2(third_quartile_set)

(* sample_sum is the sum of the samples, up to its width, until a sample   *)
(* that was not in the bag is "removed" from a bag of one.                 *)
SumKept ==
    ~hist.skewed =>
        sample_sum = MapThenSumSet(LAMBDA x : x * Multiplicity(x), Values) % SumModulus

(* fetch_random_sample_linear reaches exactly the n-th sample in order,    *)
(* never beyond a multiset; fetch_random_sample reaches only samples.      *)
DrawsInBounds ==
    /\ \A n \in 0 .. sample_count - 1 : LinearDraw(n) = Ordered[n + 1]
    /\ sample_count > 0 => RandomDraws \subseteq {x \in Values : Present(x)}

(* The scorer is the bag that the contribution store takes it for ...      *)
Promise == INSTANCE SampleBag WITH
    samples <- [x \in Values |-> Multiplicity(x)],
    blurred <- hist.repeated \/ hist.shrunk
ImplementsSampleBag == Promise!Spec

(* ... and refuses the same removals.                                      *)
RefusesAsPromised == \A x \in Values : RemoveThrows(x) = Promise!RemoveThrows(x)

(* "Dynamic ... Q1, Q3, IQR": the quartiles of the samples that are there. *)
QuartilesCorrect ==
    sample_count > 1 => /\ q1.value2 = Middle2(first_quartile_set)
                        /\ q3.value2 = Middle2(third_quartile_set)

================================================================================
