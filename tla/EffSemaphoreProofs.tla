--------------------------- MODULE EffSemaphoreProofs ---------------------------
(***************************************************************************)
(* Proofs about EffSemaphore for any finite sets of posters and waiters    *)
(* and any bound on the counter: the type invariant, the conservation of   *)
(* tokens, the absence of lost wakeups, and the safety part of the         *)
(* refinement of Semaphore.                                                *)
(***************************************************************************)
EXTENDS EffSemaphore, FiniteSetTheorems, TLAPS

Labels == {"idle", "base_post", "base_wait", "cv_wait"}

(* The set of threads is finite. *)
LEMMA ThreadsFinite == IsFiniteSet(Threads)
  BY SemaphoreAssumption, FS_Union DEF Threads

(* The threads at a label are finitely many. *)
LEMMA CountNat ==
  ASSUME NEW l
  PROVE  /\ IsFiniteSet(At(l)) /\ Cardinality(At(l)) \in Nat
         /\ IsFiniteSet(At(l)') /\ Cardinality(At(l)') \in Nat
<1>1. At(l) \in SUBSET Threads /\ At(l)' \in SUBSET Threads
  BY DEF At
<1>2. QED
  BY <1>1, ThreadsFinite, FS_Subset, FS_CardinalityType

--------------------------------------------------------------------------------

(* Every counter and label stays in its type, whatever the sets of threads. *)
THEOREM TypeCorrect == Spec => []TypeOK
<1>1. Init => TypeOK
  BY SemaphoreAssumption DEF Init, TypeOK
<1>2. TypeOK /\ [Next]_vars => TypeOK'
  <2> SUFFICES ASSUME TypeOK, [Next]_vars PROVE TypeOK'
    OBVIOUS
  <2> USE SemaphoreAssumption DEF TypeOK
  <2>1. ASSUME NEW t \in Posters, EffPost(t) PROVE TypeOK'
    BY <2>1 DEF EffPost, Threads
  <2>2. ASSUME NEW t \in Posters, BasePost(t) PROVE TypeOK'
    BY <2>2 DEF BasePost, NotifyOne, At, Threads
  <2>3. ASSUME NEW t \in Waiters, EffWait(t) PROVE TypeOK'
    BY <2>3 DEF EffWait, Threads
  <2>4. ASSUME NEW t \in Waiters, BaseTake(t) PROVE TypeOK'
    BY <2>4 DEF BaseTake, Threads
  <2>5. ASSUME NEW t \in Waiters, BaseBlock(t) PROVE TypeOK'
    BY <2>5 DEF BaseBlock, Threads
  <2>6. ASSUME NEW t \in Waiters, SpuriousWakeup(t) PROVE TypeOK'
    BY <2>6 DEF SpuriousWakeup, Threads
  <2>7. CASE UNCHANGED vars
    BY <2>7 DEF vars
  <2>8. QED
    BY <2>1, <2>2, <2>3, <2>4, <2>5, <2>6, <2>7 DEF Next
<1>3. QED
  BY <1>1, <1>2, PTL DEF Spec

--------------------------------------------------------------------------------

(* The number of threads at a label. *)
Count(l) == Cardinality(At(l))

(* Moving one thread from label a to label b changes the counts of a and b *)
(* by one and leaves the threads at any other label alone.                 *)
LEMMA StepMove ==
  ASSUME TypeOK, NEW t \in Threads, NEW a \in Labels, NEW b \in Labels,
         pc[t] = a, a # b, pc' = [pc EXCEPT ![t] = b]
  PROVE  /\ Count(a)' = Count(a) - 1
         /\ Count(b)' = Count(b) + 1
         /\ \A l : l # b /\ l # a => At(l)' = At(l)
<1> USE DEF TypeOK
<1>1. At(a)' = At(a) \ {t} /\ t \in At(a)
  BY DEF At
<1>2. At(b)' = At(b) \cup {t} /\ t \notin At(b)
  BY DEF At
<1>3. \A l : l # b /\ l # a => At(l)' = At(l)
  BY DEF At
<1>4. Count(a)' = Count(a) - 1
  BY <1>1, CountNat, FS_RemoveElement DEF Count
<1>5. Count(b)' = Count(b) + 1
  BY <1>2, CountNat, FS_AddElement DEF Count
<1>6. QED
  BY <1>3, <1>4, <1>5

(* A post that notifies moves two threads: the poster leaves, and one      *)
(* blocked thread goes back to the mutex.                                  *)
LEMMA NotifyMove ==
  ASSUME TypeOK, NEW t \in Threads, NEW w \in Threads,
         pc[t] = "base_post", pc[w] = "cv_wait",
         pc' = [pc EXCEPT ![t] = "idle", ![w] = "base_wait"]
  PROVE  /\ Count("base_post")' = Count("base_post") - 1
         /\ Count("cv_wait")' = Count("cv_wait") - 1
         /\ Count("base_wait")' = Count("base_wait") + 1
<1> USE DEF TypeOK
<1>1. /\ At("base_post")' = At("base_post") \ {t} /\ t \in At("base_post")
      /\ At("cv_wait")' = At("cv_wait") \ {w} /\ w \in At("cv_wait")
      /\ At("base_wait")' = At("base_wait") \cup {w} /\ w \notin At("base_wait")
  BY DEF At
<1>2. QED
  BY <1>1, CountNat, FS_RemoveElement, FS_AddElement DEF Count

(* What each action does to the three counts, in one place. *)
LEMMA ActionCounts ==
  ASSUME TypeOK
  PROVE  /\ \A t \in Posters : EffPost(t) =>
              /\ Count("base_wait")' = Count("base_wait")
              /\ At("cv_wait")' = At("cv_wait")
              /\ Count("cv_wait")' = Count("cv_wait")
              /\ Count("base_post")' =
                     Count("base_post") + (IF m_count < 0 THEN 1 ELSE 0)
         /\ \A t \in Posters : BasePost(t) =>
              /\ Count("base_post")' = Count("base_post") - 1
              /\ \/ /\ At("cv_wait") = {} /\ At("cv_wait")' = {}
                    /\ Count("cv_wait")' = Count("cv_wait")
                    /\ Count("base_wait")' = Count("base_wait")
                 \/ /\ Count("cv_wait")' = Count("cv_wait") - 1
                    /\ Count("base_wait")' = Count("base_wait") + 1
         /\ \A t \in Waiters : EffWait(t) =>
              /\ Count("base_post")' = Count("base_post")
              /\ At("cv_wait")' = At("cv_wait")
              /\ Count("cv_wait")' = Count("cv_wait")
              /\ Count("base_wait")' =
                     Count("base_wait") + (IF m_count < 1 THEN 1 ELSE 0)
         /\ \A t \in Waiters : BaseTake(t) =>
              /\ Count("base_post")' = Count("base_post")
              /\ At("cv_wait")' = At("cv_wait")
              /\ Count("cv_wait")' = Count("cv_wait")
              /\ Count("base_wait")' = Count("base_wait") - 1
         /\ \A t \in Waiters : BaseBlock(t) =>
              /\ Count("base_post")' = Count("base_post")
              /\ Count("cv_wait")' = Count("cv_wait") + 1
              /\ Count("base_wait")' = Count("base_wait") - 1
         /\ \A t \in Waiters : SpuriousWakeup(t) =>
              /\ Count("base_post")' = Count("base_post")
              /\ Count("cv_wait")' = Count("cv_wait") - 1
              /\ Count("base_wait")' = Count("base_wait") + 1
<1> USE DEF Labels, Threads
<1>0. \A l : /\ Count(l) \in Nat
             /\ (pc' = pc => At(l)' = At(l) /\ Count(l)' = Count(l))
             /\ (At(l)' = At(l) => Count(l)' = Count(l))
  BY CountNat DEF Count, At
<1>1. ASSUME NEW t \in Posters, EffPost(t)
      PROVE  /\ Count("base_wait")' = Count("base_wait")
             /\ At("cv_wait")' = At("cv_wait")
             /\ Count("cv_wait")' = Count("cv_wait")
             /\ Count("base_post")' =
                    Count("base_post") + (IF m_count < 0 THEN 1 ELSE 0)
  <2>1. CASE m_count < 0
    <3>1. pc[t] = "idle" /\ pc' = [pc EXCEPT ![t] = "base_post"]
      BY <1>1, <2>1 DEF EffPost
    <3>2. QED
      BY <1>0, <2>1, <3>1, StepMove
  <2>2. CASE ~(m_count < 0)
    <3>1. pc' = pc
      BY <1>1, <2>2 DEF EffPost, TypeOK
    <3>2. QED
      BY <1>0, <2>2, <3>1
  <2>3. QED
    BY <2>1, <2>2
<1>2. ASSUME NEW t \in Posters, BasePost(t)
      PROVE  /\ Count("base_post")' = Count("base_post") - 1
             /\ \/ /\ At("cv_wait") = {} /\ At("cv_wait")' = {}
                   /\ Count("cv_wait")' = Count("cv_wait")
                   /\ Count("base_wait")' = Count("base_wait")
                \/ /\ Count("cv_wait")' = Count("cv_wait") - 1
                   /\ Count("base_wait")' = Count("base_wait") + 1
  <2>1. CASE At("cv_wait") = {}
    <3>1. pc[t] = "base_post" /\ pc' = [pc EXCEPT ![t] = "idle"]
      BY <1>2, <2>1 DEF BasePost, NotifyOne
    <3>2. QED
      BY <1>0, <2>1, <3>1, StepMove
  <2>2. CASE At("cv_wait") # {}
    <3>1. pc[t] = "base_post"
      BY <1>2 DEF BasePost
    <3>2. PICK w \in At("cv_wait") :
                 pc' = [pc EXCEPT ![t] = "idle", ![w] = "base_wait"]
      BY <1>2, <2>2 DEF BasePost, NotifyOne
    <3>3. w \in Threads /\ pc[w] = "cv_wait"
      BY DEF At
    <3>4. QED
      BY <3>1, <3>2, <3>3, NotifyMove
  <2>3. QED
    BY <2>1, <2>2
<1>3. ASSUME NEW t \in Waiters, EffWait(t)
      PROVE  /\ Count("base_post")' = Count("base_post")
             /\ At("cv_wait")' = At("cv_wait")
             /\ Count("cv_wait")' = Count("cv_wait")
             /\ Count("base_wait")' =
                    Count("base_wait") + (IF m_count < 1 THEN 1 ELSE 0)
  <2>1. CASE m_count < 1
    <3>1. pc[t] = "idle" /\ pc' = [pc EXCEPT ![t] = "base_wait"]
      BY <1>3, <2>1 DEF EffWait
    <3>2. QED
      BY <1>0, <2>1, <3>1, StepMove
  <2>2. CASE ~(m_count < 1)
    <3>1. pc' = pc
      BY <1>3, <2>2 DEF EffWait, TypeOK
    <3>2. QED
      BY <1>0, <2>2, <3>1
  <2>3. QED
    BY <2>1, <2>2
<1>4. ASSUME NEW t \in Waiters, BaseTake(t)
      PROVE  /\ Count("base_post")' = Count("base_post")
             /\ At("cv_wait")' = At("cv_wait")
             /\ Count("cv_wait")' = Count("cv_wait")
             /\ Count("base_wait")' = Count("base_wait") - 1
  <2>1. pc[t] = "base_wait" /\ pc' = [pc EXCEPT ![t] = "idle"]
    BY <1>4 DEF BaseTake
  <2>2. QED
    BY <1>0, <2>1, StepMove
<1>5. ASSUME NEW t \in Waiters, BaseBlock(t)
      PROVE  /\ Count("base_post")' = Count("base_post")
             /\ Count("cv_wait")' = Count("cv_wait") + 1
             /\ Count("base_wait")' = Count("base_wait") - 1
  <2>1. pc[t] = "base_wait" /\ pc' = [pc EXCEPT ![t] = "cv_wait"]
    BY <1>5 DEF BaseBlock
  <2>2. QED
    BY <1>0, <2>1, StepMove
<1>6. ASSUME NEW t \in Waiters, SpuriousWakeup(t)
      PROVE  /\ Count("base_post")' = Count("base_post")
             /\ Count("cv_wait")' = Count("cv_wait") - 1
             /\ Count("base_wait")' = Count("base_wait") + 1
  <2>1. pc[t] = "cv_wait" /\ pc' = [pc EXCEPT ![t] = "base_wait"]
    BY <1>6 DEF SpuriousWakeup
  <2>2. QED
    BY <1>0, <2>1, StepMove
<1>7. QED
  BY <1>1, <1>2, <1>3, <1>4, <1>5, <1>6

(* Initially nobody is inside a call. *)
LEMMA InitCounts ==
  ASSUME Init
  PROVE  /\ Count("base_post") = 0 /\ Count("base_wait") = 0
         /\ Count("cv_wait") = 0 /\ At("cv_wait") = {}
<1>1. /\ At("base_post") = {} /\ At("base_wait") = {} /\ At("cv_wait") = {}
  BY DEF Init, At
<1>2. QED
  BY <1>1, FS_EmptySet DEF Count

(* Tokens are conserved: every thread in the slow path of wait() is        *)
(* matched by a token, a pending post or a unit of deficit.  Together with *)
(* TypeOK this is the inductive invariant of the semaphore.                *)
THEOREM ConservationCorrect == Spec => []TokensConserved
<1> DEFINE Balance == Count("base_wait") + Count("cv_wait") =
                      base_count + Count("base_post") + Deficit
<1>1. TokensConserved <=> Balance
  BY DEF TokensConserved, Count
<1>2. Init => Balance
  BY InitCounts, SemaphoreAssumption DEF Init, Deficit
<1>3. TypeOK /\ Balance /\ [Next]_vars => Balance'
  <2> SUFFICES ASSUME TypeOK, Balance, [Next]_vars PROVE Balance'
    OBVIOUS
  <2>0. /\ m_count \in Int /\ base_count \in Nat
        /\ \A l : Count(l) \in Nat
    BY CountNat DEF TypeOK, Count
  <2>1. ASSUME NEW t \in Posters, EffPost(t) PROVE Balance'
    <3>1. m_count' = m_count + 1 /\ base_count' = base_count
      BY <2>1 DEF EffPost
    <3>2. QED
      BY <2>0, <2>1, <3>1, ActionCounts DEF Deficit
  <2>2. ASSUME NEW t \in Posters, BasePost(t) PROVE Balance'
    <3>1. m_count' = m_count /\ base_count' = base_count + 1
      BY <2>2 DEF BasePost
    <3>2. QED
      BY <2>0, <2>2, <3>1, ActionCounts DEF Deficit
  <2>3. ASSUME NEW t \in Waiters, EffWait(t) PROVE Balance'
    <3>1. m_count' = m_count - 1 /\ base_count' = base_count
      BY <2>3 DEF EffWait
    <3>2. QED
      BY <2>0, <2>3, <3>1, ActionCounts DEF Deficit
  <2>4. ASSUME NEW t \in Waiters, BaseTake(t) PROVE Balance'
    <3>1. m_count' = m_count /\ base_count' = base_count - 1
      BY <2>4 DEF BaseTake
    <3>2. QED
      BY <2>0, <2>4, <3>1, ActionCounts DEF Deficit
  <2>5. ASSUME NEW t \in Waiters, BaseBlock(t) PROVE Balance'
    <3>1. m_count' = m_count /\ base_count' = base_count
      BY <2>5 DEF BaseBlock
    <3>2. QED
      BY <2>0, <2>5, <3>1, ActionCounts DEF Deficit
  <2>6. ASSUME NEW t \in Waiters, SpuriousWakeup(t) PROVE Balance'
    <3>1. m_count' = m_count /\ base_count' = base_count
      BY <2>6 DEF SpuriousWakeup
    <3>2. QED
      BY <2>0, <2>6, <3>1, ActionCounts DEF Deficit
  <2>7. CASE UNCHANGED vars
    BY <2>7 DEF vars, Count, At, Deficit
  <2>8. QED
    BY <2>1, <2>2, <2>3, <2>4, <2>5, <2>6, <2>7 DEF Next
<1>4. QED
  BY <1>1, <1>2, <1>3, TypeCorrect, PTL DEF Spec

(* No wakeup is lost: a token that has been posted while a thread is       *)
(* blocked always has a thread awake to take it, so the blocked thread is  *)
(* never left sleeping on a token that nobody else will look at.           *)
THEOREM WakeupCorrect == Spec => []NoLostWakeup
<1> DEFINE Awake == At("cv_wait") = {} \/ base_count <= Count("base_wait")
<1>1. NoLostWakeup <=> Awake
  BY DEF NoLostWakeup, Count
<1>2. Init => Awake
  BY InitCounts
<1>3. TypeOK /\ Awake /\ [Next]_vars => Awake'
  <2> SUFFICES ASSUME TypeOK, Awake, [Next]_vars PROVE Awake'
    OBVIOUS
  <2>0. /\ base_count \in Nat
        /\ \A l : Count(l) \in Nat /\ Count(l)' \in Nat
    BY CountNat DEF TypeOK, Count
  <2>1. ASSUME NEW t \in Posters, EffPost(t) PROVE Awake'
    <3>1. base_count' = base_count
      BY <2>1 DEF EffPost
    <3>2. QED
      BY <2>0, <2>1, <3>1, ActionCounts
  <2>2. ASSUME NEW t \in Posters, BasePost(t) PROVE Awake'
    <3>1. At("cv_wait") = {} => Count("cv_wait") = 0
      BY FS_EmptySet DEF Count
    <3>2. base_count' = base_count + 1
      BY <2>2 DEF BasePost
    <3>3. QED
      BY <2>0, <2>2, <3>1, <3>2, ActionCounts
  <2>3. ASSUME NEW t \in Waiters, EffWait(t) PROVE Awake'
    <3>1. base_count' = base_count
      BY <2>3 DEF EffWait
    <3>2. QED
      BY <2>0, <2>3, <3>1, ActionCounts
  <2>4. ASSUME NEW t \in Waiters, BaseTake(t) PROVE Awake'
    <3>1. base_count' = base_count - 1
      BY <2>4 DEF BaseTake
    <3>2. QED
      BY <2>0, <2>4, <3>1, ActionCounts
  <2>5. ASSUME NEW t \in Waiters, BaseBlock(t) PROVE Awake'
    <3>1. base_count' = base_count /\ base_count = 0
      BY <2>5 DEF BaseBlock
    <3>2. QED
      BY <2>0, <2>5, <3>1, ActionCounts
  <2>6. ASSUME NEW t \in Waiters, SpuriousWakeup(t) PROVE Awake'
    <3>1. t \in At("cv_wait") /\ base_count' = base_count
      BY <2>6 DEF SpuriousWakeup, At, Threads
    <3>2. QED
      BY <2>0, <2>6, <3>1, ActionCounts
  <2>7. CASE UNCHANGED vars
    BY <2>7 DEF vars, Count, At
  <2>8. QED
    BY <2>1, <2>2, <2>3, <2>4, <2>5, <2>6, <2>7 DEF Next
<1>4. QED
  BY <1>1, <1>2, <1>3, TypeCorrect, PTL DEF Spec

--------------------------------------------------------------------------------

(* The safety half of ImplementsSemaphore: under the mapping of the two    *)
(* counters to Permits, every step of EffSemaphore is a step of Semaphore  *)
(* or leaves the abstract state alone.                                     *)
THEOREM RefinementCorrect == Spec => Abstract!Spec
<1> USE DEF Permits, Pending, At
<1>1. Init => Abstract!Init
  BY SemaphoreAssumption DEF Init, Abstract!Init
<1>2. TypeOK /\ [Next]_vars => [Abstract!Next]_(Abstract!absvars)
  <2> SUFFICES ASSUME TypeOK, [Next]_vars
               PROVE  Abstract!Next \/ UNCHANGED <<Permits, Pending>>
    BY DEF Abstract!absvars
  <2> USE DEF TypeOK, Threads
  <2>1. ASSUME NEW t \in Posters, EffPost(t)
        PROVE  Abstract!Post(t) \/ UNCHANGED <<Permits, Pending>>
    BY <2>1 DEF EffPost, Abstract!Post
  <2>2. ASSUME NEW t \in Posters, BasePost(t)
        PROVE  Abstract!Post(t)
    <3>1. t \notin Pending /\ Permits' = Permits + 1
      BY <2>2 DEF BasePost
    <3>2. Pending' = Pending
      BY <2>2 DEF BasePost, NotifyOne
    <3>3. QED
      BY <3>1, <3>2 DEF Abstract!Post
  <2>3. ASSUME NEW t \in Waiters, EffWait(t)
        PROVE  Abstract!Pass(t) \/ Abstract!Suspend(t)
    <3>1. CASE m_count < 1
      BY <2>3, <3>1 DEF EffWait, Abstract!Suspend
    <3>2. CASE ~(m_count < 1)
      BY <2>3, <3>2 DEF EffWait, Abstract!Pass
    <3>3. QED
      BY <3>1, <3>2
  <2>4. ASSUME NEW t \in Waiters, BaseTake(t) PROVE Abstract!Resume(t)
    BY <2>4 DEF BaseTake, Abstract!Resume
  <2>5. ASSUME NEW t \in Waiters, BaseBlock(t) \/ SpuriousWakeup(t)
        PROVE  UNCHANGED <<Permits, Pending>>
    BY <2>5 DEF BaseBlock, SpuriousWakeup
  <2>6. CASE UNCHANGED vars
    BY <2>6 DEF vars
  <2>7. QED
    BY <2>1, <2>2, <2>3, <2>4, <2>5, <2>6
    DEF Next, Abstract!Next, Abstract!SomeResume
<1>3. QED
  BY <1>1, <1>2, TypeCorrect, PTL DEF Spec, Abstract!Spec

================================================================================
