------------------------------- MODULE SampleBag -------------------------------
(***************************************************************************)
(* What IQRScorer promises the contribution store about the samples it     *)
(* holds: they are a bag, a draw returns one of them, and the removal of a *)
(* sample that is not in the bag is refused by an exception.  There is one *)
(* exception to the exception: a bag of size one is emptied by the removal *)
(* of any value.                                                           *)
(*                                                                         *)
(* It does not promise that its calls are defined.  Once a sample was added *)
(* that it already had, or the least or the greatest of three was removed, *)
(* it may have lost its quartiles (blurred), and every call may crash - the *)
(* samples are right, if it does not - until it has less than two samples  *)
(* again.                                                                  *)
(***************************************************************************)
EXTENDS Naturals

CONSTANT Values

VARIABLES
    samples,   (* [Values -> Nat], how often each value is in the bag *)
    blurred,   (* the quartiles may be lost                           *)
    crashed    (* a call was undefined                                *)

Init ==
    /\ samples = [v \in Values |-> 0]
    /\ blurred = FALSE
    /\ crashed = FALSE

NoSample  == \A v \in Values : samples[v] = 0
OneSample == \E v \in Values :
                /\ samples[v] = 1
                /\ \A w \in Values \ {v} : samples[w] = 0

Drawable == {v \in Values : samples[v] > 0}

With(v) == [samples EXCEPT ![v] = @ + 1]

BugRemoveThrows(v) == OneSample \/ samples[v] = 0          (* mutant *)
RemoveThrows(v) == NoSample \/ (~OneSample /\ samples[v] = 0)

BugWithout(v) == [samples EXCEPT ![v] = 0]                 (* mutant *)
Without(v) ==
    IF OneSample THEN [w \in Values |-> 0] ELSE [samples EXCEPT ![v] = @ - 1]

(* The bag of v and w. *)
Pair(v, w) == [u \in Values |-> (IF u = v THEN 1 ELSE 0) + (IF u = w THEN 1 ELSE 0)]

Inner(v) == \E low, high \in Drawable : low < v /\ v < high

BlurredWith(v) == blurred \/ samples[v] > 0

BlurredWithout(v) ==
    /\ ~NoSample /\ ~OneSample
    /\ \A w \in Values : samples # Pair(v, w)
    /\ \/ blurred
       \/ (\E w, u \in Values : Without(v) = Pair(w, u)) /\ ~Inner(v)

(* No call on less than two samples is undefined.                          *)
CrashesWith(v) == BlurredWith(v) /\ ~NoSample /\ ~OneSample

AddSample(v) ==
    /\ samples' = With(v)
    /\ blurred' = BlurredWith(v)
    /\ crashed' \in {FALSE, CrashesWith(v)}

RemoveSample(v) ==
    /\ ~RemoveThrows(v)
    /\ samples' = Without(v)
    /\ blurred' = BlurredWithout(v)
    /\ crashed' \in {FALSE, BlurredWithout(v)}

Next == ~crashed /\ \E v \in Values : AddSample(v) \/ RemoveSample(v)

Spec == Init /\ [][Next]_<<samples, blurred, crashed>>

================================================================================
