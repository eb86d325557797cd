------------------------------- MODULE Semaphore -------------------------------
(***************************************************************************)
(* What a semaphore promises its callers: a number of permits, and the set *)
(* of threads suspended in wait().  A post adds one permit, a wait that    *)
(* returns takes one, and a permit that a suspended thread could take is   *)
(* not withheld for ever.  EffSemaphore implements this specification.     *)
(***************************************************************************)
EXTENDS Integers

CONSTANTS Posters,    (* threads that call post()                            *)
          Waiters,    (* threads that call wait()                            *)
          InitCount   (* the count the semaphore is constructed with         *)

VARIABLES permits,    (* waits that may return without a further post        *)
          waiting     (* threads suspended inside wait()                     *)

absvars == <<permits, waiting>>

Init == permits = InitCount /\ waiting = {}

Post(t) ==
    /\ t \notin waiting
    /\ permits' = permits + 1
    /\ UNCHANGED waiting

(* wait() that returns at once. *)
Pass(t) ==
    /\ t \notin waiting
    /\ permits > 0
    /\ permits' = permits - 1
    /\ UNCHANGED waiting

Suspend(t) ==
    /\ t \notin waiting
    /\ waiting' = waiting \cup {t}
    /\ UNCHANGED permits

(* A suspended wait() that returns. *)
Resume(t) ==
    /\ t \in waiting
    /\ permits > 0
    /\ permits' = permits - 1
    /\ waiting' = waiting \ {t}

SomeResume == \E t \in Waiters : Resume(t)

Next ==
    \/ \E t \in Posters : Post(t)
    \/ \E t \in Waiters : Pass(t) \/ Suspend(t)
    \/ SomeResume

Spec == Init /\ [][Next]_absvars

FairSpec == Spec /\ WF_absvars(SomeResume)

================================================================================
