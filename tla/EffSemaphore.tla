------------------------------ MODULE EffSemaphore ------------------------------
(***************************************************************************)
(* EffSemaphore (src/util/semaphore.cpp): an atomic counter in front of a  *)
(* BaseSemaphore made of a mutex, a counter and a condition variable.      *)
(*                                                                         *)
(* Each atomic read-modify-write of m_count is a step.  Each critical      *)
(* section of BaseSemaphore (everything done between taking m_mutex and    *)
(* giving it up, by unlocking or by blocking in m_cv.wait) is a step, so   *)
(* the mutex itself needs no variable.                                     *)
(***************************************************************************)
EXTENDS Integers, FiniteSets

CONSTANTS Posters,    (* threads that call post()                            *)
          Waiters,    (* threads that call wait()                            *)
          InitCount,  (* constructor argument                                *)
          MaxCount    (* bound on m_count: the int32_t range it must stay in *)

Threads == Posters \cup Waiters

ASSUME SemaphoreAssumption ==
    /\ IsFiniteSet(Posters)
    /\ IsFiniteSet(Waiters)
    /\ InitCount \in Nat
    /\ MaxCount \in Nat
    /\ InitCount <= MaxCount

VARIABLES m_count,    (* EffSemaphore::m_count                               *)
          base_count, (* BaseSemaphore::m_count                              *)
          pc          (* where each thread is: "idle" outside both calls,    *)
                      (* "base_post" / "base_wait" about to take m_mutex in  *)
                      (* BaseSemaphore, "cv_wait" blocked on m_cv            *)

vars == <<m_count, base_count, pc>>

At(label) == {t \in Threads : pc[t] = label}

Init ==
    /\ m_count = InitCount
    /\ base_count = 0
    /\ pc = [t \in Threads |-> "idle"]

(* EffSemaphore::post up to its return or its call of the base semaphore. *)
EffPost(t) ==
    /\ pc[t] = "idle"
    /\ m_count < MaxCount
    /\ m_count' = m_count + 1
    /\ pc' = [pc EXCEPT ![t] = IF m_count < 0 THEN "base_post" ELSE "idle"]
    /\ UNCHANGED base_count

BugEffWait(t) ==                                           (* mutant *)
    /\ pc[t] = "idle"
    /\ m_count' = m_count - 1
    /\ pc' = [pc EXCEPT ![t] = IF m_count < 0 THEN "base_wait" ELSE "idle"]
    /\ UNCHANGED base_count

(* EffSemaphore::wait up to its return or its call of the base semaphore. *)
EffWait(t) ==
    /\ pc[t] = "idle"
    /\ m_count' = m_count - 1
    /\ pc' = [pc EXCEPT ![t] = IF m_count < 1 THEN "base_wait" ELSE "idle"]
    /\ UNCHANGED base_count

BugNotifyOne(t) == pc' = [pc EXCEPT ![t] = "idle"]         (* mutant *)

(* The effect of m_cv.notify_one() when thread t, now done, calls it: one  *)
(* blocked thread, if there is one, has to take the mutex again.           *)
NotifyOne(t) ==
    IF At("cv_wait") = {}
    THEN pc' = [pc EXCEPT ![t] = "idle"]
    ELSE \E w \in At("cv_wait") :
            pc' = [pc EXCEPT ![t] = "idle", ![w] = "base_wait"]

BasePost(t) ==
    /\ pc[t] = "base_post"
    /\ base_count' = base_count + 1
    /\ NotifyOne(t)
    /\ UNCHANGED m_count

BugBaseTake(t) ==                                          (* mutant *)
    /\ pc[t] = "base_wait"
    /\ base_count' = base_count - 1
    /\ pc' = [pc EXCEPT ![t] = "idle"]
    /\ UNCHANGED m_count

(* BaseSemaphore::wait holding the mutex: the predicate is true and the    *)
(* thread takes a token ...                                                *)
BaseTake(t) ==
    /\ pc[t] = "base_wait"
    /\ base_count # 0
    /\ base_count' = base_count - 1
    /\ pc' = [pc EXCEPT ![t] = "idle"]
    /\ UNCHANGED m_count

(* ... or it is false and the thread blocks, releasing the mutex.          *)
BaseBlock(t) ==
    /\ pc[t] = "base_wait"
    /\ base_count = 0
    /\ pc' = [pc EXCEPT ![t] = "cv_wait"]
    /\ UNCHANGED <<m_count, base_count>>

(* A condition variable may wake a thread that nobody notified. *)
SpuriousWakeup(t) ==
    /\ pc[t] = "cv_wait"
    /\ pc' = [pc EXCEPT ![t] = "base_wait"]
    /\ UNCHANGED <<m_count, base_count>>

Next ==
    \/ \E t \in Posters : EffPost(t) \/ BasePost(t)
    \/ \E t \in Waiters :
          EffWait(t) \/ BaseTake(t) \/ BaseBlock(t) \/ SpuriousWakeup(t)

Spec == Init /\ [][Next]_vars

(* A thread inside post() or wait() that is not blocked keeps running.     *)
(* Nothing makes a thread start a call, and nothing but a notification     *)
(* has to end a block.                                                     *)
Fairness ==
    /\ \A t \in Posters : WF_vars(BasePost(t))
    /\ \A t \in Waiters : WF_vars(BaseTake(t) \/ BaseBlock(t))

FairSpec == Spec /\ Fairness

--------------------------------------------------------------------------------

(* The type invariant of the semaphore's two counters and of its callers. *)
TypeOK ==
    /\ m_count \in Int
    /\ m_count <= MaxCount
    /\ base_count \in Nat
    /\ pc \in [Threads -> {"idle", "base_post", "base_wait", "cv_wait"}]

Deficit == IF m_count < 0 THEN -m_count ELSE 0

(* The two counters never disagree: every thread inside the slow path of   *)
(* wait() is matched by exactly one base token, one post() on its way to   *)
(* the base semaphore, or one unit by which m_count is negative.           *)
TokensConserved ==
    Cardinality(At("base_wait")) + Cardinality(At("cv_wait")) =
        base_count + Cardinality(At("base_post")) + Deficit

(* No wakeup is lost: while a thread is blocked on m_cv, every token of    *)
(* the base semaphore has a thread awake that is about to look at it.      *)
NoLostWakeup ==
    \/ At("cv_wait") = {}
    \/ base_count <= Cardinality(At("base_wait"))

--------------------------------------------------------------------------------

(* Threads that have decremented m_count and not yet got a token. *)
Pending == At("base_wait") \cup At("cv_wait")

(* The permits a caller can count on, spread over the two counters. *)
Permits == base_count + (IF m_count > 0 THEN m_count ELSE 0)

Abstract == INSTANCE Semaphore WITH permits <- Permits, waiting <- Pending

(* EffSemaphore is a semaphore: no step creates or destroys a permit that  *)
(* a post() or a returning wait() does not account for, and a permit with  *)
(* a thread suspended in wait() is eventually taken.                       *)
ImplementsSemaphore == Abstract!FairSpec

================================================================================
