-------------------------- MODULE EngineShutdownProofs --------------------------
(***************************************************************************)
(* Proofs about EngineShutdown for any portals and executors besides those *)
(* of the control pipeline: a reported error is not lost, calls are served *)
(* before executors are stopped, an exit finds everything ended, the       *)
(* control pipeline pops no empty queue and keeps the order of the         *)
(* outliers, and the engine implements Supervision.                        *)
(***************************************************************************)
EXTENDS EngineShutdown, SequenceLemmas

Labels == {"unborn", "created", "accepting", "blocked", "testing", "reading",
           "ordered", "order_posting", "writing", "sizing", "popping", "serving",
           "closing", "failed", "reporting", "posting", "leaving", "ended",
           "undefined", "waiting", "woken", "fetching", "pushing", "pushed", "running"}

Stages == {"launch", "wait", "flag", "acceptor", "socket", "trigger", "await",
           "join_portals", "join_executors", "exited", "aborted", "crashed"}

(* The names of threads (the provers do not know that a string constant is *)
(* a member of STRING).                                                    *)
Names == STRING \cup {ThePortal, TheExecutor}

(* The number of threads, and of portals among them. *)
N == Len(ShutdownOrder)
P == Len(PortalOrder)

(* The place of thread t in the order of the shutdown. *)
Index(t) == CHOOSE k \in 1 .. N : ShutdownOrder[k] = t

--------------------------------------------------------------------------------
(* The two orders *)

(* The lengths of the orders. *)
LEMMA OrderLengths ==
  /\ PortalOrder \in Seq(Names) /\ ExecutorOrder \in Seq(Names)
  /\ N \in Nat /\ P \in Nat /\ 1 <= P /\ P < N
  /\ Len(ExecutorOrder) = N - P /\ Len(LaunchOrder) = N
  /\ PortalOrder[P] = ThePortal /\ ExecutorOrder[N - P] = TheExecutor
  /\ DOMAIN PortalOrder = 1 .. P /\ DOMAIN ExecutorOrder = 1 .. N - P
  /\ DOMAIN ShutdownOrder = 1 .. N
<1>1. /\ OtherPortals \in Seq(Names) /\ ThePortal \in Names
      /\ OtherExecutors \in Seq(Names) /\ TheExecutor \in Names
  <2>1. STRING \subseteq Names /\ ThePortal \in Names /\ TheExecutor \in Names
    BY DEF Names
  <2>2. QED
    BY <2>1, EngineAssumption, SeqMonotonic
<1>2. Len(OtherPortals) \in Nat /\ Len(OtherExecutors) \in Nat
  BY <1>1, LenProperties
<1>3. /\ PortalOrder \in Seq(Names) /\ P = Len(OtherPortals) + 1
      /\ PortalOrder[P] = ThePortal
  <2>1. /\ PortalOrder \in Seq(Names) /\ Len(PortalOrder) = Len(OtherPortals) + 1
        /\ PortalOrder[Len(OtherPortals) + 1] = ThePortal
    BY <1>1, AppendProperties DEF PortalOrder
  <2>2. QED
    BY <2>1 DEF P
<1>4. /\ ExecutorOrder \in Seq(Names)
      /\ Len(ExecutorOrder) = Len(OtherExecutors) + 1
      /\ ExecutorOrder[Len(ExecutorOrder)] = TheExecutor
  <2>1. /\ ExecutorOrder \in Seq(Names)
        /\ Len(ExecutorOrder) = Len(OtherExecutors) + 1
        /\ ExecutorOrder[Len(OtherExecutors) + 1] = TheExecutor
    BY <1>1, AppendProperties DEF ExecutorOrder
  <2>2. QED
    BY <2>1
<1>5. /\ ShutdownOrder \in Seq(Names) /\ N = P + Len(ExecutorOrder)
      /\ Len(LaunchOrder) = Len(ExecutorOrder) + P
  BY <1>3, <1>4, ConcatProperties DEF ShutdownOrder, LaunchOrder, N, P
<1>6. /\ DOMAIN PortalOrder = 1 .. P /\ DOMAIN ExecutorOrder = 1 .. Len(ExecutorOrder)
      /\ DOMAIN ShutdownOrder = 1 .. N
  BY <1>3, <1>4, <1>5, LenProperties DEF P, N
<1>7. Len(ExecutorOrder) = N - P
  BY <1>2, <1>3, <1>4, <1>5
<1>8. QED
  BY <1>2, <1>3, <1>4, <1>5, <1>6, <1>7

(* The portals are the first P threads of the shutdown, the executors the  *)
(* others, and nothing is in two places.                                   *)
LEMMA ShutdownElements ==
  /\ \A k \in 1 .. N : ShutdownOrder[k] = IF k <= P THEN PortalOrder[k]
                                          ELSE ExecutorOrder[k - P]
  /\ \A k \in 1 .. N : k <= P => ShutdownOrder[k] \in Portals
  /\ \A k \in 1 .. N : k > P => ShutdownOrder[k] \in Executors
  /\ \A k \in 1 .. N : ShutdownOrder[k] \in Threads
  /\ \A k, l \in 1 .. N : ShutdownOrder[k] = ShutdownOrder[l] => k = l
  /\ \A t \in Threads : \E k \in 1 .. N : ShutdownOrder[k] = t
<1> USE OrderLengths
<1>1. \A k \in 1 .. N : ShutdownOrder[k] = IF k <= P THEN PortalOrder[k]
                                           ELSE ExecutorOrder[k - P]
  BY ConcatProperties DEF ShutdownOrder, P
<1>2. ASSUME NEW k \in 1 .. N, k <= P PROVE ShutdownOrder[k] \in Portals
  <2>1. k \in DOMAIN PortalOrder
    BY <1>2
  <2>2. QED
    BY <2>1, <1>1, <1>2 DEF Portals, Elements
<1>3. ASSUME NEW k \in 1 .. N, k > P PROVE ShutdownOrder[k] \in Executors
  <2>1. k - P \in DOMAIN ExecutorOrder
    BY <1>3
  <2>2. QED
    BY <2>1, <1>1, <1>3 DEF Executors, Elements
<1>4. \A k \in 1 .. N : ShutdownOrder[k] \in Threads
  BY <1>2, <1>3 DEF Threads
<1>5. ASSUME NEW k \in 1 .. N, NEW l \in 1 .. N, ShutdownOrder[k] = ShutdownOrder[l]
      PROVE  k = l
  <2>1. (k <= P /\ l <= P) \/ (k > P /\ l > P)
    BY <1>2, <1>3, <1>5, ThreadsDistinct
  <2>2. CASE k <= P /\ l <= P
    <3>1. k \in DOMAIN PortalOrder /\ l \in DOMAIN PortalOrder
      BY <2>2
    <3>2. QED
      BY <3>1, <2>2, <1>1, <1>5, ThreadsDistinct
  <2>3. CASE k > P /\ l > P
    <3>1. k - P \in DOMAIN ExecutorOrder /\ l - P \in DOMAIN ExecutorOrder
      BY <2>3
    <3>2. k - P = l - P
      BY <3>1, <2>3, <1>1, <1>5, ThreadsDistinct
    <3>3. QED
      BY <3>2
  <2>4. QED
    BY <2>1, <2>2, <2>3
<1>6. ASSUME NEW t \in Threads PROVE \E k \in 1 .. N : ShutdownOrder[k] = t
  <2>1. CASE t \in Portals
    <3>1. PICK j \in 1 .. P : PortalOrder[j] = t
      BY <2>1 DEF Portals, Elements
    <3>2. j \in 1 .. N /\ ShutdownOrder[j] = t
      BY <3>1, <1>1
    <3>3. QED
      BY <3>2
  <2>2. CASE t \in Executors
    <3>1. PICK j \in 1 .. N - P : ExecutorOrder[j] = t
      BY <2>2 DEF Executors, Elements
    <3>2. P + j \in 1 .. N /\ (P + j) - P = j /\ ~(P + j <= P)
      BY <3>1
    <3>3. ShutdownOrder[P + j] = t
      BY <3>1, <3>2, <1>1
    <3>4. QED
      BY <3>2, <3>3
  <2>3. QED
    BY <2>1, <2>2 DEF Threads
<1>7. QED
  BY <1>1, <1>2, <1>3, <1>4, <1>5, <1>6

(* What the proofs below need to know of the order of the shutdown.        *)
LEMMA IndexFacts ==
  /\ \A t \in Threads : Index(t) \in 1 .. N /\ ShutdownOrder[Index(t)] = t
  /\ \A k \in 1 .. N : Index(ShutdownOrder[k]) = k /\ ShutdownOrder[k] \in Threads
  /\ \A t \in Threads : t \in Portals <=> Index(t) <= P
  /\ \A t \in Threads : t \in Executors <=> Index(t) > P
  /\ Portals \subseteq Threads /\ Executors \subseteq Threads
  /\ ThePortal \in Portals /\ TheExecutor \in Executors /\ Index(TheExecutor) = N
<1> USE OrderLengths
<1>1. \A t \in Threads : Index(t) \in 1 .. N /\ ShutdownOrder[Index(t)] = t
  BY ShutdownElements DEF Index
<1>2. \A k \in 1 .. N : Index(ShutdownOrder[k]) = k /\ ShutdownOrder[k] \in Threads
  BY <1>1, ShutdownElements
<1>3. \A t \in Threads : (t \in Portals <=> Index(t) <= P) /\ (t \in Executors <=> Index(t) > P)
  BY <1>1, ShutdownElements, ThreadsDistinct
<1>4. ShutdownOrder[P] = ThePortal /\ ShutdownOrder[N] = TheExecutor
  <2>1. P \in 1 .. N /\ N \in 1 .. N /\ ~(N <= P)
    OBVIOUS
  <2>2. QED
    BY <2>1, ShutdownElements
<1>5. QED
  BY <1>1, <1>2, <1>3, <1>4, ShutdownElements DEF Threads

(* The threads are launched in the order of LaunchOrder, each once. *)
LEMMA LaunchFacts ==
  /\ \A k \in 1 .. N : LaunchOrder[k] \in Threads
  /\ \A k, l \in 1 .. N : LaunchOrder[k] = LaunchOrder[l] => k = l
<1> USE OrderLengths
<1> DEFINE Place(k) == IF k <= N - P THEN k + P ELSE k - (N - P)
<1>1. \A k \in 1 .. N : LaunchOrder[k] = IF k <= N - P THEN ExecutorOrder[k]
                                         ELSE PortalOrder[k - (N - P)]
  <2>1. Len(PortalOrder) = P /\ (N - P) + P = N
    BY DEF P
  <2>2. \A k \in 1 .. (N - P) + P : (ExecutorOrder \o PortalOrder)[k]
            = IF k <= N - P THEN ExecutorOrder[k] ELSE PortalOrder[k - (N - P)]
    BY <2>1, ConcatProperties
  <2>3. QED
    BY <2>1, <2>2 DEF LaunchOrder
<1>2. \A k \in 1 .. N : Place(k) \in 1 .. N
  OBVIOUS
<1>3. ASSUME NEW k \in 1 .. N PROVE LaunchOrder[k] = ShutdownOrder[Place(k)]
  <2>1. CASE k <= N - P
    <3>1. Place(k) = k + P /\ ~(k + P <= P) /\ (k + P) - P = k /\ k + P \in 1 .. N
      BY <2>1
    <3>2. QED
      BY <3>1, <2>1, <1>1, ShutdownElements
  <2>2. CASE ~(k <= N - P)
    <3>1. Place(k) = k - (N - P) /\ k - (N - P) <= P /\ k - (N - P) \in 1 .. N
      BY <2>2
    <3>2. QED
      BY <3>1, <2>2, <1>1, ShutdownElements
  <2>3. QED
    BY <2>1, <2>2
<1>4. \A k, l \in 1 .. N : Place(k) = Place(l) => k = l
  OBVIOUS
<1> HIDE DEF Place
<1>5. QED
  BY <1>2, <1>3, <1>4, ShutdownElements

--------------------------------------------------------------------------------
(* The state's types *)

(* The part of the state that the threads and the orchestrator share. *)
ThreadsTypeOK ==
    /\ orchestrator \in [at : Stages, i : 1 .. N]
    /\ pc \in [Threads -> Labels]
    /\ shutdown_flag \in [Threads -> BOOLEAN]
    /\ binary_shutdown_sem \in [Threads -> Nat]
    /\ global_shutdown_flag \in BOOLEAN
    /\ global_shutdown_sem \in Nat
    /\ listening \in [Portals -> BOOLEAN]
    /\ socket \in [Portals -> {"null", "fresh", "open", "shut", "closed"}]
    /\ packets \in Nat

(* The control pipeline. *)
OutliersTypeOK ==
    /\ reported \in Nat /\ low_outliers \in Nat
    /\ store_outliers \in Seq(Nat)
    /\ outlier_queue_sem \in Nat
    /\ outlier \in Seq(Nat)
    /\ outlier_queue \in Seq(Nat)
    /\ outlier_queue_size \in Nat
    /\ delivered \in Seq(Nat)

(* What a step from one label to another does to the labels of all threads *)
(* and to the variables it leaves alone.                                   *)
LEMMA MoveFacts ==
  ASSUME ThreadsTypeOK, NEW t \in Threads, NEW from, NEW to \in Labels,
         Move(t, from, to)
  PROVE  /\ pc' \in [Threads -> Labels]
         /\ pc[t] = from /\ pc'[t] = to
         /\ \A u \in Threads : u # t => pc'[u] = pc[u]
         /\ orchestrator' = orchestrator
         /\ shutdown_flag' = shutdown_flag
         /\ binary_shutdown_sem' = binary_shutdown_sem
  BY DEF ThreadsTypeOK, Move, Goto

(* Where the orchestrator goes. *)
LEMMA GotoFacts ==
  ASSUME ThreadsTypeOK, NEW label \in Stages, OrchestratorGoto(label)
  PROVE  /\ orchestrator' \in [at : Stages, i : 1 .. N]
         /\ orchestrator'.at = label
         /\ orchestrator'.i = orchestrator.i
  BY DEF ThreadsTypeOK, OrchestratorGoto

--------------------------------------------------------------------------------
(* What a step of a thread does to the threads *)

(* Labels a thread reaches only after an alarm, ... *)
Alarmed == {"posting", "order_posting", "closing", "leaving", "ended"}

(* ... labels at which a portal has given up its connection, ...           *)
Disconnected == {"reporting", "posting", "leaving", "ended"}

(* ... and labels of the control pipeline.                                 *)
Control == {"popping", "waiting", "woken", "fetching", "pushing", "pushed",
            "undefined"}

(* Labels that the reports, the notification and the launch deal with.     *)
Marked == {"unborn", "ended", "posting", "order_posting"}

(* The step of a thread, seen from every thread u: nobody is born, nobody  *)
(* comes back from the end, the end is notified, only a thread that posts  *)
(* stops being about to, a portal never gets a connection back, and one    *)
(* thread moves.                                                           *)
ThreadEffect ==
    /\ orchestrator' = orchestrator
    /\ shutdown_flag' = shutdown_flag
    /\ \A u \in Threads :
          /\ pc[u] = "ended" => pc'[u] = "ended"
          /\ pc[u] = "unborn" <=> pc'[u] = "unborn"
          /\ binary_shutdown_sem'[u] =
                IF pc'[u] = "ended" /\ pc[u] # "ended"
                THEN binary_shutdown_sem[u] + 1 ELSE binary_shutdown_sem[u]
          /\ pc'[u] \in Alarmed =>
                pc[u] \in Alarmed \/ shutdown_flag[u] \/ global_shutdown_flag'
          /\ pc[u] \in {"posting", "order_posting"} =>
                pc'[u] = pc[u] \/ global_shutdown_sem' > 0
    /\ global_shutdown_sem' >= global_shutdown_sem
    /\ global_shutdown_sem' > global_shutdown_sem =>
          \E u \in Threads : pc[u] \in {"posting", "order_posting"}
    /\ global_shutdown_flag => global_shutdown_flag'
    /\ global_shutdown_flag' /\ ~global_shutdown_flag =>
          /\ \E u \in Threads : pc'[u] \in {"posting", "order_posting"}
          /\ \A u \in Threads : pc'[u] = "ended" => pc[u] = "ended"
    /\ \E t \in Threads : \A u \in Threads : u # t => pc'[u] = pc[u]
    /\ \A p \in Portals : pc'[p] \in Disconnected /\ HasConnection(p)' =>
          pc[p] \in Disconnected /\ HasConnection(p)

(* The step also keeps away from the control pipeline. *)
AwayFromControl ==
    /\ UNCHANGED outlierVars
    /\ \A u \in Threads : pc'[u] = pc[u] \/ (pc[u] \notin Control /\ pc'[u] \notin Control)

(* A move between labels that are not marked, which leaves the global flag *)
(* alone and touches no other thread's connection.                         *)
LEMMA MoveEffect ==
  ASSUME ThreadsTypeOK, NEW t \in Threads, NEW from, NEW to \in Labels,
         Move(t, from, to), from \notin Marked, to \notin Marked,
         to \in Alarmed => shutdown_flag[t] \/ global_shutdown_flag \/ from \in Alarmed,
         UNCHANGED globalVars,
         \A p \in Portals : p # t => socket'[p] = socket[p],
         t \in Portals /\ to \in Disconnected => ~HasConnection(t)'
  PROVE  ThreadEffect
<1>1. /\ pc[t] = from /\ pc'[t] = to
      /\ \A u \in Threads : u # t => pc'[u] = pc[u]
      /\ orchestrator' = orchestrator
      /\ shutdown_flag' = shutdown_flag
      /\ binary_shutdown_sem' = binary_shutdown_sem
  BY MoveFacts
<1>2. /\ global_shutdown_flag' = global_shutdown_flag
      /\ global_shutdown_sem' = global_shutdown_sem /\ global_shutdown_sem \in Nat
  BY DEF globalVars, ThreadsTypeOK
<1>3. ASSUME NEW u \in Threads
      PROVE  /\ pc[u] = "ended" => pc'[u] = "ended"
             /\ pc[u] = "unborn" <=> pc'[u] = "unborn"
             /\ pc'[u] = "ended" => pc[u] = "ended"
             /\ pc'[u] \in Alarmed =>
                   pc[u] \in Alarmed \/ shutdown_flag[u] \/ global_shutdown_flag
             /\ pc[u] \in {"posting", "order_posting"} => pc'[u] = pc[u]
  <2>1. CASE u = t
    BY <2>1, <1>1 DEF Marked
  <2>2. CASE u # t
    BY <2>2, <1>1
  <2>3. QED
    BY <2>1, <2>2
<1>4. ASSUME NEW p \in Portals, pc'[p] \in Disconnected, HasConnection(p)'
      PROVE  pc[p] \in Disconnected /\ HasConnection(p)
  <2>1. CASE p = t
    BY <2>1, <1>1, <1>4
  <2>2. CASE p # t
    BY <2>2, <1>1, <1>4, IndexFacts DEF HasConnection
  <2>3. QED
    BY <2>1, <2>2
<1>5. QED
  BY <1>1, <1>2, <1>3, <1>4 DEF ThreadEffect

(* A move that stays away from the control pipeline.                       *)
LEMMA MoveAway ==
  ASSUME ThreadsTypeOK, NEW t \in Threads, NEW from, NEW to \in Labels,
         Move(t, from, to), from \notin Control, to \notin Control,
         UNCHANGED outlierVars
  PROVE  AwayFromControl
<1>1. /\ pc[t] = from /\ pc'[t] = to
      /\ \A u \in Threads : u # t => pc'[u] = pc[u]
  BY MoveFacts
<1>2. QED
  BY <1>1 DEF AwayFromControl

(* The threads' errors: a report raises the flag and then posts, and a     *)
(* thread ends with a notification.                                        *)
LEMMA ErrorStepEffect ==
  ASSUME ThreadsTypeOK, NEW t \in Threads, ErrorStep(t)
  PROVE  ThreadsTypeOK' /\ ThreadEffect /\ AwayFromControl
<1>0. /\ Portals \subseteq Threads
      /\ global_shutdown_sem \in Nat
      /\ {"failed", "leaving", "reporting", "posting", "order_posting", "writing",
          "ordered", "ended"} \cap Control = {}
      /\ {"leaving", "reporting", "posting", "order_posting", "writing", "ended"}
             \subseteq Labels
  BY IndexFacts DEF ThreadsTypeOK, Control, Labels
<1>1. CASE HandleError(t)
  <2> DEFINE to == IF global_shutdown_flag THEN "leaving" ELSE "reporting"
  <2>1. /\ Move(t, "failed", to) /\ to \in Labels /\ UNCHANGED globalVars
        /\ UNCHANGED outlierVars
        /\ listening' = listening /\ packets' = packets
        /\ socket' = [p \in Portals |-> IF p = t /\ HasConnection(p)
                                        THEN "closed" ELSE socket[p]]
    BY <1>0, <1>1 DEF HandleError
  <2>2. /\ to \notin Marked /\ "failed" \notin Marked
        /\ to \in Alarmed => global_shutdown_flag
        /\ to \notin Control /\ "failed" \notin Control
    BY DEF Marked, Alarmed, Control
  <2>3. /\ \A p \in Portals : p # t => socket'[p] = socket[p]
        /\ t \in Portals => ~HasConnection(t)'
        /\ socket' \in [Portals -> {"null", "fresh", "open", "shut", "closed"}]
    BY <2>1 DEF HasConnection, ThreadsTypeOK
  <2> HIDE DEF to
  <2>4. ThreadEffect
    BY <2>1, <2>2, <2>3, MoveEffect
  <2>5. AwayFromControl
    BY <2>1, <2>2, MoveAway
  <2>6. ThreadsTypeOK'
    BY <2>1, <2>3, MoveFacts DEF ThreadsTypeOK, globalVars
  <2>7. QED
    BY <2>4, <2>5, <2>6
<1>2. CASE RaiseFlag(t)
  <2>1. PICK from \in {"reporting", "ordered"}, to \in {"posting", "order_posting"} :
            Move(t, from, to) /\ (from = "reporting" <=> to = "posting")
    BY <1>2 DEF RaiseFlag
  <2>2. /\ global_shutdown_flag' = TRUE /\ global_shutdown_sem' = global_shutdown_sem
        /\ UNCHANGED serverVars /\ UNCHANGED outlierVars
    BY <1>2 DEF RaiseFlag
  <2>3. to \in Labels /\ to \notin Control /\ from \notin Control
    BY <1>0, <2>1
  <2>4. /\ pc' \in [Threads -> Labels]
        /\ pc[t] = from /\ pc'[t] = to
        /\ \A u \in Threads : u # t => pc'[u] = pc[u]
        /\ orchestrator' = orchestrator
        /\ shutdown_flag' = shutdown_flag
        /\ binary_shutdown_sem' = binary_shutdown_sem
    BY <2>1, <2>3, MoveFacts
  <2>5. ThreadsTypeOK'
    BY <2>2, <2>4 DEF ThreadsTypeOK, serverVars
  <2>6. AwayFromControl
    BY <2>1, <2>2, <2>3, MoveAway
  <2>7. ThreadEffect
    <3>1. \A p \in Portals : HasConnection(p)' = HasConnection(p)
      BY <2>2 DEF HasConnection, serverVars
    <3>2. \A u \in Threads : pc'[u] \in Disconnected => pc[u] \in Disconnected
      BY <2>1, <2>4 DEF Disconnected
    <3>3. \A u \in Threads :
             /\ pc[u] = "ended" => pc'[u] = "ended"
             /\ pc[u] = "unborn" <=> pc'[u] = "unborn"
             /\ pc'[u] = "ended" => pc[u] = "ended"
             /\ pc[u] \in {"posting", "order_posting"} => pc'[u] = pc[u]
      BY <2>1, <2>4
    <3>4. \E u \in Threads : pc'[u] \in {"posting", "order_posting"}
      BY <2>1, <2>4
    <3>5. QED
      BY <1>0, <2>2, <2>4, <3>1, <3>2, <3>3, <3>4 DEF ThreadEffect
  <2>8. QED
    BY <2>5, <2>6, <2>7
<1>3. CASE PostGlobal(t)
  <2>1. PICK from \in {"posting", "order_posting"}, to \in {"leaving", "writing"} :
            Move(t, from, to) /\ (from = "posting" <=> to = "leaving")
    BY <1>3 DEF PostGlobal
  <2>2. /\ global_shutdown_flag' = global_shutdown_flag
        /\ global_shutdown_sem' = global_shutdown_sem + 1
        /\ UNCHANGED serverVars /\ UNCHANGED outlierVars
    BY <1>3 DEF PostGlobal
  <2>3. to \in Labels /\ to \notin Control /\ from \notin Control
    BY <1>0, <2>1
  <2>4. /\ pc' \in [Threads -> Labels]
        /\ pc[t] = from /\ pc'[t] = to
        /\ \A u \in Threads : u # t => pc'[u] = pc[u]
        /\ orchestrator' = orchestrator
        /\ shutdown_flag' = shutdown_flag
        /\ binary_shutdown_sem' = binary_shutdown_sem
    BY <2>1, <2>3, MoveFacts
  <2>5. ThreadsTypeOK'
    BY <2>2, <2>4 DEF ThreadsTypeOK, serverVars
  <2>6. AwayFromControl
    BY <2>1, <2>2, <2>3, MoveAway
  <2>7. ThreadEffect
    <3>1. \A p \in Portals : HasConnection(p)' = HasConnection(p)
      BY <2>2 DEF HasConnection, serverVars
    <3>2. \A u \in Threads :
             /\ pc'[u] \in Disconnected => pc[u] \in Disconnected
             /\ pc'[u] \in Alarmed => pc[u] \in Alarmed
      BY <2>1, <2>4 DEF Disconnected, Alarmed
    <3>3. \A u \in Threads :
             /\ pc[u] = "ended" => pc'[u] = "ended"
             /\ pc[u] = "unborn" <=> pc'[u] = "unborn"
             /\ pc'[u] = "ended" => pc[u] = "ended"
      BY <2>1, <2>4
    <3>4. \E u \in Threads : pc[u] \in {"posting", "order_posting"}
      BY <2>1, <2>4
    <3>5. global_shutdown_sem' > 0 /\ global_shutdown_sem' >= global_shutdown_sem
      BY <1>0, <2>2
    <3>6. /\ orchestrator' = orchestrator /\ shutdown_flag' = shutdown_flag
          /\ \A u \in Threads : binary_shutdown_sem'[u] = binary_shutdown_sem[u]
      BY <2>4
    <3>7. /\ global_shutdown_flag => global_shutdown_flag'
          /\ ~(global_shutdown_flag' /\ ~global_shutdown_flag)
      BY <2>2
    <3>8. \E v \in Threads : \A u \in Threads : u # v => pc'[u] = pc[u]
      BY <2>4
    <3>9. QED
      BY <1>0, <3>1, <3>2, <3>3, <3>4, <3>5, <3>6, <3>7, <3>8 DEF ThreadEffect
  <2>8. QED
    BY <2>5, <2>6, <2>7
<1>4. CASE NotifyShutdown(t)
  <2>1. /\ pc[t] = "leaving" /\ pc' = [pc EXCEPT ![t] = "ended"]
        /\ binary_shutdown_sem' =
              [binary_shutdown_sem EXCEPT ![t] = binary_shutdown_sem[t] + 1]
        /\ UNCHANGED <<orchestrator, shutdown_flag, globalVars, serverVars, outlierVars>>
    BY <1>4 DEF NotifyShutdown, Goto
  <2>2. /\ pc' \in [Threads -> Labels] /\ pc'[t] = "ended"
        /\ \A u \in Threads : u # t => pc'[u] = pc[u]
        /\ binary_shutdown_sem' \in [Threads -> Nat]
        /\ binary_shutdown_sem'[t] = binary_shutdown_sem[t] + 1
        /\ \A u \in Threads : u # t => binary_shutdown_sem'[u] = binary_shutdown_sem[u]
    BY <1>0, <2>1 DEF ThreadsTypeOK
  <2>3. ThreadsTypeOK'
    BY <2>1, <2>2 DEF ThreadsTypeOK, globalVars, serverVars
  <2>4. AwayFromControl
    BY <1>0, <2>1, <2>2 DEF AwayFromControl
  <2>5. ThreadEffect
    <3>1. \A p \in Portals : HasConnection(p)' = HasConnection(p)
      BY <2>1 DEF HasConnection, serverVars
    <3>2. \A u \in Threads :
             /\ pc'[u] \in Disconnected => pc[u] \in Disconnected
             /\ pc'[u] \in Alarmed => pc[u] \in Alarmed
      BY <2>1, <2>2 DEF Disconnected, Alarmed
    <3>3. \A u \in Threads :
             /\ pc[u] = "ended" => pc'[u] = "ended"
             /\ pc[u] = "unborn" <=> pc'[u] = "unborn"
             /\ binary_shutdown_sem'[u] =
                   IF pc'[u] = "ended" /\ pc[u] # "ended"
                   THEN binary_shutdown_sem[u] + 1 ELSE binary_shutdown_sem[u]
             /\ pc[u] \in {"posting", "order_posting"} => pc'[u] = pc[u]
      BY <2>1, <2>2
    <3>4. /\ global_shutdown_flag' = global_shutdown_flag
          /\ global_shutdown_sem' = global_shutdown_sem
          /\ orchestrator' = orchestrator /\ shutdown_flag' = shutdown_flag
      BY <2>1 DEF globalVars
    <3>5. \E v \in Threads : \A u \in Threads : u # v => pc'[u] = pc[u]
      BY <2>2
    <3>6. QED
      BY <1>0, <3>1, <3>2, <3>3, <3>4, <3>5 DEF ThreadEffect
  <2>6. QED
    BY <2>3, <2>4, <2>5
<1>5. QED
  BY <1>1, <1>2, <1>3, <1>4 DEF ErrorStep

(* A move with the frame that most steps of portals and executors have. *)
LEMMA QuietMove ==
  ASSUME ThreadsTypeOK, NEW t \in Threads, NEW from, NEW to \in Labels,
         Move(t, from, to), from \notin Marked \cup Control,
         to \notin Marked \cup Control,
         to \in Alarmed => shutdown_flag[t],
         to \in Disconnected => t \notin Portals,
         UNCHANGED <<globalVars, listening, socket, outlierVars>>, packets' \in Nat
  PROVE  ThreadsTypeOK' /\ ThreadEffect /\ AwayFromControl
<1>1. ThreadEffect
  BY MoveEffect
<1>2. AwayFromControl
  BY MoveAway
<1>3. ThreadsTypeOK'
  BY MoveFacts DEF ThreadsTypeOK, globalVars
<1>4. QED
  BY <1>1, <1>2, <1>3

(* A move of a portal that also changes its own socket. *)
LEMMA SocketMove ==
  ASSUME ThreadsTypeOK, NEW p \in Portals, NEW from, NEW to \in Labels,
         NEW state \in {"fresh", "open", "closed"},
         Move(p, from, to), from \notin Marked \cup Control,
         to \notin Marked \cup Control,
         to \in Alarmed => from \in Alarmed,
         to \in Disconnected => state = "closed",
         socket' = [socket EXCEPT ![p] = state],
         UNCHANGED <<globalVars, listening, packets, outlierVars>>
  PROVE  ThreadsTypeOK' /\ ThreadEffect /\ AwayFromControl
<1>0. p \in Threads
  BY IndexFacts
<1>1. /\ socket' \in [Portals -> {"null", "fresh", "open", "shut", "closed"}]
      /\ socket'[p] = state
      /\ \A q \in Portals : q # p => socket'[q] = socket[q]
  BY DEF ThreadsTypeOK
<1>2. to \in Disconnected => ~HasConnection(p)'
  BY <1>1 DEF HasConnection
<1>3. ThreadEffect
  BY <1>0, <1>1, <1>2, MoveEffect
<1>4. AwayFromControl
  BY <1>0, MoveAway
<1>5. ThreadsTypeOK'
  BY <1>0, <1>1, MoveFacts DEF ThreadsTypeOK, globalVars
<1>6. QED
  BY <1>3, <1>4, <1>5

(* The portals and the executors outside the control pipeline. *)
LEMMA ThreadStepEffect ==
  ASSUME ThreadsTypeOK,
         \/ \E t \in Threads : ErrorStep(t)
         \/ \E p \in Portals : PortalStep(p) \/ Serve(p) \/ ClientStep(p)
         \/ \E e \in Executors : ExecutorStops(e) \/ ExecutorThrows(e)
  PROVE  ThreadsTypeOK' /\ ThreadEffect /\ AwayFromControl
<1>1. CASE \E t \in Threads : ErrorStep(t)
  BY <1>1, ErrorStepEffect
<1>2. ASSUME NEW p \in Portals, PortalStep(p) \/ Serve(p) \/ ClientStep(p)
      PROVE  ThreadsTypeOK' /\ ThreadEffect /\ AwayFromControl
  <2>0. p \in Threads /\ packets \in Nat
    BY IndexFacts DEF ThreadsTypeOK
  <2>1. CASE MakeSocket(p)
    <3>1. "created" \notin Marked \cup Control /\ "accepting" \notin Marked \cup Control
          /\ "accepting" \in Labels /\ "accepting" \notin Alarmed \cup Disconnected
      BY DEF Marked, Control, Labels, Alarmed, Disconnected
    <3>2. QED
      BY <2>1, <3>1, SocketMove DEF MakeSocket
  <2>2. CASE CallAccept(p)
    <3>1. PICK to \in {"blocked", "failed"} : Move(p, "accepting", to)
      BY <2>2 DEF CallAccept
    <3>2. /\ UNCHANGED <<globalVars, listening, socket, outlierVars>> /\ packets' \in Nat
      BY <2>0, <2>2 DEF CallAccept, serverVars
    <3>3. "accepting" \notin Marked \cup Control /\ to \notin Marked \cup Control
          /\ to \in Labels /\ to \notin Alarmed \cup Disconnected
      BY DEF Marked, Control, Labels, Alarmed, Disconnected
    <3>4. QED
      BY <2>0, <3>1, <3>2, <3>3, QuietMove
  <2>3. CASE TestFlag(p)
    <3>1. PICK to \in {"closing", "reading"} :
              Move(p, "testing", to) /\ (to = "closing" => shutdown_flag[p])
      BY <2>3 DEF TestFlag
    <3>2. /\ UNCHANGED <<globalVars, listening, socket, outlierVars>> /\ packets' \in Nat
      BY <2>0, <2>3 DEF TestFlag, serverVars
    <3>3. "testing" \notin Marked \cup Control /\ to \notin Marked \cup Control
          /\ to \in Labels /\ to \notin Disconnected /\ (to \in Alarmed => to = "closing")
      BY DEF Marked, Control, Labels, Alarmed, Disconnected
    <3>4. QED
      BY <2>0, <3>1, <3>2, <3>3, QuietMove
  <2>4. CASE \/ Serve(p) \/ WriteResponse(p) \/ WriteThrows(p)
             \/ AcceptInterrupted(p) \/ ReadPacket(p) \/ ReadThrows(p)
    <3>1. PICK from \in {"serving", "writing", "blocked", "reading"},
               to \in {"writing", "testing", "failed", "ordered", "sizing", "serving"} :
              Move(p, from, to)
      BY <2>4 DEF Serve, WriteResponse, WriteThrows, AcceptInterrupted, ReadPacket,
         ReadThrows, Requests
    <3>2. /\ UNCHANGED <<globalVars, listening, socket, outlierVars>> /\ packets' \in Nat
      BY <2>0, <2>4 DEF Serve, WriteResponse, WriteThrows, AcceptInterrupted,
         ReadPacket, ReadThrows, serverVars
    <3>3. from \notin Marked \cup Control /\ to \notin Marked \cup Control
          /\ to \in Labels /\ to \notin Alarmed \cup Disconnected
      BY DEF Marked, Control, Labels, Alarmed, Disconnected
    <3>4. QED
      BY <2>0, <3>1, <3>2, <3>3, QuietMove
  <2>5. CASE CloseConnection(p)
    <3>1. "closing" \notin Marked \cup Control /\ "leaving" \notin Marked \cup Control
          /\ "leaving" \in Labels /\ "closing" \in Alarmed
      BY DEF Marked, Control, Labels, Alarmed
    <3>2. QED
      BY <2>5, <3>1, SocketMove DEF CloseConnection
  <2>6. CASE Accepted(p)
    <3>1. "blocked" \notin Marked \cup Control /\ "testing" \notin Marked \cup Control
          /\ "testing" \in Labels /\ "testing" \notin Alarmed \cup Disconnected
      BY DEF Marked, Control, Labels, Alarmed, Disconnected
    <3>2. QED
      BY <2>6, <3>1, SocketMove DEF Accepted
  <2>7. QED
    BY <1>2, <2>1, <2>2, <2>3, <2>4, <2>5, <2>6 DEF PortalStep, ClientStep
<1>3. ASSUME NEW e \in Executors, ExecutorStops(e) \/ ExecutorThrows(e)
      PROVE  ThreadsTypeOK' /\ ThreadEffect /\ AwayFromControl
  <2>1. e \in Threads /\ e \notin Portals /\ packets \in Nat
    BY IndexFacts, ThreadsDistinct DEF ThreadsTypeOK
  <2>2. PICK to \in {"leaving", "failed"} :
            Move(e, "running", to) /\ (to = "leaving" => shutdown_flag[e])
    BY <1>3 DEF ExecutorStops, ExecutorThrows
  <2>3. /\ UNCHANGED <<globalVars, listening, socket, outlierVars>> /\ packets' \in Nat
    BY <1>3, <2>1 DEF ExecutorStops, ExecutorThrows, serverVars
  <2>4. "running" \notin Marked \cup Control /\ to \notin Marked \cup Control
        /\ to \in Labels /\ (to \in Alarmed => to = "leaving")
    BY DEF Marked, Control, Labels, Alarmed
  <2>5. QED
    BY <2>1, <2>2, <2>3, <2>4, QuietMove
<1>4. QED
  BY <1>1, <1>2, <1>3

(* The control pipeline as seen from the shutdown.                         *)
LEMMA ControlStepEffect ==
  ASSUME ThreadsTypeOK, ControlStep \/ ReportOutlier
  PROVE  ThreadsTypeOK' /\ ThreadEffect
<1>0. ThePortal \in Threads /\ TheExecutor \in Threads /\ TheExecutor \notin Portals
  BY IndexFacts, ThreadsDistinct
<1>1. CASE ControlStep
  <2>1. PICK t \in {ThePortal, TheExecutor},
             from \in {"sizing", "popping", "waiting", "woken", "fetching", "pushing",
                       "pushed"},
             to \in {"writing", "popping", "undefined", "woken", "leaving", "fetching",
                     "pushing", "pushed", "waiting"} :
            /\ Move(t, from, to)
            /\ to = "leaving" => t = TheExecutor /\ shutdown_flag[t]
    <3>1. CASE TestSize \/ PopOutlier
      BY <3>1 DEF TestSize, PopOutlier
    <3>2. CASE TestWoken
      BY <3>2 DEF TestWoken
    <3>3. CASE WaitForOutlier \/ FetchOutlier \/ PushOutlier \/ CountOutlier
      BY <3>3 DEF WaitForOutlier, FetchOutlier, PushOutlier, CountOutlier
    <3>4. QED
      BY <1>1, <3>1, <3>2, <3>3 DEF ControlStep
  <2>2. UNCHANGED <<globalVars, serverVars>>
    BY <1>1 DEF ControlStep, TestSize, PopOutlier, WaitForOutlier, TestWoken,
       FetchOutlier, PushOutlier, CountOutlier
  <2>3. from \notin Marked /\ to \notin Marked /\ to \in Labels
        /\ (to \in Alarmed => to = "leaving") /\ (to \in Disconnected => to = "leaving")
    BY DEF Marked, Labels, Alarmed, Disconnected
  <2>4. UNCHANGED <<socket, listening, packets>> /\ UNCHANGED globalVars
    BY <2>2 DEF serverVars
  <2>5. t \in Threads /\ (to = "leaving" => t \notin Portals)
    BY <1>0, <2>1
  <2>6. ThreadEffect
    BY <2>1, <2>3, <2>4, <2>5, MoveEffect
  <2>7. ThreadsTypeOK'
    BY <2>1, <2>3, <2>4, <2>5, MoveFacts DEF ThreadsTypeOK, globalVars
  <2>8. QED
    BY <2>6, <2>7
<1>2. CASE ReportOutlier
  <2>1. UNCHANGED <<orchestrator, pc, shutdown_flag, binary_shutdown_sem,
                    global_shutdown_flag, global_shutdown_sem, listening, socket, packets>>
    BY <1>2 DEF ReportOutlier, threadVars, globalVars, serverVars
  <2>2. ThreadsTypeOK'
    BY <2>1 DEF ThreadsTypeOK
  <2>3. /\ \A p \in Portals : HasConnection(p)' = HasConnection(p)
        /\ global_shutdown_sem \in Nat /\ Portals \subseteq Threads
    BY <2>1, IndexFacts DEF HasConnection, ThreadsTypeOK
  <2>4. \E v \in Threads : \A u \in Threads : u # v => pc'[u] = pc[u]
    BY <1>0, <2>1
  <2>5. ThreadEffect
    BY <2>1, <2>3, <2>4 DEF ThreadEffect
  <2>6. QED
    BY <2>2, <2>5
<1>3. QED
  BY <1>1, <1>2

--------------------------------------------------------------------------------
(* The invariant of the shutdown *)

(* The orchestrator is past its wait for a report. *)
Past == orchestrator.at \notin {"launch", "wait", "aborted"}

(* It has set the flag of thread t, ...                                    *)
Asked(t) ==
    /\ Past
    /\ \/ Index(t) < orchestrator.i
       \/ Index(t) = orchestrator.i /\ orchestrator.at # "flag"

(* ... and it has come back from waiting for the thread.                   *)
Gone(t) ==
    /\ Past
    /\ \/ Index(t) < orchestrator.i
       \/ /\ Index(t) = orchestrator.i
          /\ orchestrator.at \in {"join_portals", "join_executors", "exited"}

(* Where in the order of the shutdown each stage can be. *)
StageInv ==
    /\ orchestrator.at = "wait" => orchestrator.i = 1
    /\ orchestrator.at \in {"acceptor", "socket"} => orchestrator.i <= P
    /\ orchestrator.at = "trigger" => orchestrator.i > P
    /\ orchestrator.at = "join_portals" => orchestrator.i = P
    /\ orchestrator.at \in {"join_executors", "exited"} => orchestrator.i = N

(* A thread is not born before its turn. *)
UnbornInv ==
    orchestrator.at = "launch" =>
        \A k \in 1 .. N : k >= orchestrator.i => pc[LaunchOrder[k]] = "unborn"

(* The flags that are up are those of the threads asked so far. *)
FlagInv == \A t \in Threads : shutdown_flag[t] <=> Asked(t)

(* A thread that is gone has ended, and the notification of a thread is    *)
(* there from its end until the orchestrator takes it.                     *)
EndInv ==
    \A t \in Threads :
        /\ Gone(t) => pc[t] = "ended"
        /\ binary_shutdown_sem[t] = IF pc[t] = "ended" /\ ~Gone(t) THEN 1 ELSE 0

(* Nothing posts, leaves or is stopped without an alarm. *)
AlarmInv ==
    /\ \A t \in Threads : pc[t] \in Alarmed => global_shutdown_flag
    /\ Past => global_shutdown_flag
    /\ global_shutdown_sem > 0 => global_shutdown_flag

(* A portal that reports or leaves has given up its connection. *)
ConnectionInv ==
    \A p \in Portals : pc[p] \in Disconnected => ~HasConnection(p)

ShutdownInv ==
    /\ ThreadsTypeOK /\ StageInv /\ UnbornInv /\ FlagInv /\ EndInv /\ AlarmInv
    /\ ConnectionInv /\ NoLostReport

(* No step of a thread disturbs it. *)
LEMMA ThreadsKeepShutdownInv ==
  ASSUME ShutdownInv, ThreadsTypeOK', ThreadEffect
  PROVE  ShutdownInv'
<1>1. /\ orchestrator' = orchestrator /\ shutdown_flag' = shutdown_flag
      /\ \A u \in Threads :
          /\ pc[u] = "ended" => pc'[u] = "ended"
          /\ pc[u] = "unborn" <=> pc'[u] = "unborn"
          /\ binary_shutdown_sem'[u] =
                IF pc'[u] = "ended" /\ pc[u] # "ended"
                THEN binary_shutdown_sem[u] + 1 ELSE binary_shutdown_sem[u]
          /\ pc'[u] \in Alarmed =>
                pc[u] \in Alarmed \/ shutdown_flag[u] \/ global_shutdown_flag'
          /\ pc[u] \in {"posting", "order_posting"} =>
                pc'[u] = pc[u] \/ global_shutdown_sem' > 0
  BY DEF ThreadEffect
<1>2. Past' = Past /\ \A t \in Threads : Asked(t)' = Asked(t) /\ Gone(t)' = Gone(t)
  BY <1>1 DEF Past, Asked, Gone
<1>3. StageInv' /\ UnbornInv' /\ FlagInv'
  <2>1. StageInv'
    BY <1>1 DEF ShutdownInv, StageInv
  <2>2. UnbornInv'
    BY <1>1, LaunchFacts DEF ShutdownInv, UnbornInv
  <2>3. FlagInv'
    BY <1>1, <1>2 DEF ShutdownInv, FlagInv
  <2>4. QED
    BY <2>1, <2>2, <2>3
<1>4. EndInv'
  <2>1. \A t \in Threads : (pc[t] = "ended" => pc'[t] = "ended") /\ Gone(t)' = Gone(t)
    BY <1>1, <1>2
  <2>2. \A t \in Threads : binary_shutdown_sem'[t] =
            IF pc'[t] = "ended" /\ ~Gone(t)' THEN 1 ELSE 0
    BY <1>1, <1>2 DEF ShutdownInv, EndInv
  <2>3. QED
    BY <2>1, <2>2 DEF ShutdownInv, EndInv
<1>5. AlarmInv'
  <2>1. global_shutdown_flag => global_shutdown_flag'
    BY DEF ThreadEffect
  <2>2. \A t \in Threads : shutdown_flag[t] => global_shutdown_flag'
    BY <2>1 DEF ShutdownInv, FlagInv, AlarmInv, Asked
  <2>3. \A t \in Threads : pc'[t] \in Alarmed => global_shutdown_flag'
    BY <1>1, <2>1, <2>2 DEF ShutdownInv, AlarmInv
  <2>4. Past' => global_shutdown_flag'
    BY <1>2, <2>1 DEF ShutdownInv, AlarmInv
  <2>5. global_shutdown_sem' > 0 => global_shutdown_flag'
    <3>1. CASE global_shutdown_sem > 0
      BY <2>1, <3>1 DEF ShutdownInv, AlarmInv
    <3>2. CASE global_shutdown_sem' > global_shutdown_sem
      <4>1. PICK u \in Threads : pc[u] \in {"posting", "order_posting"}
        BY <3>2 DEF ThreadEffect
      <4>2. pc[u] \in Alarmed
        BY <4>1 DEF Alarmed
      <4>3. QED
        BY <2>1, <4>2 DEF ShutdownInv, AlarmInv
    <3>3. global_shutdown_sem \in Nat /\ global_shutdown_sem' \in Nat
      BY DEF ShutdownInv, ThreadsTypeOK
    <3>4. QED
      BY <3>1, <3>2, <3>3
  <2>6. QED
    BY <2>3, <2>4, <2>5 DEF AlarmInv
<1>6. ConnectionInv'
  BY DEF ShutdownInv, ConnectionInv, ThreadEffect
<1>7. NoLostReport'
  <2> SUFFICES ASSUME global_shutdown_flag', ~(global_shutdown_sem' > 0),
                      orchestrator'.at \in {"launch", "wait"}
               PROVE  \E t \in Threads : pc'[t] \in {"posting", "order_posting"}
    BY DEF NoLostReport
  <2>1. CASE global_shutdown_flag
    <3>1. ~(global_shutdown_sem > 0)
      BY DEF ThreadEffect, ShutdownInv, ThreadsTypeOK
    <3>2. PICK t \in Threads : pc[t] \in {"posting", "order_posting"}
      BY <2>1, <3>1, <1>1 DEF ShutdownInv, NoLostReport
    <3>3. pc'[t] = pc[t]
      BY <1>1, <3>2
    <3>4. QED
      BY <3>2, <3>3
  <2>2. CASE ~global_shutdown_flag
    BY <2>2 DEF ThreadEffect
  <2>3. QED
    BY <2>1, <2>2
<1>8. QED
  BY <1>3, <1>4, <1>5, <1>6, <1>7 DEF ShutdownInv

--------------------------------------------------------------------------------
(* The orchestrator's steps *)

(* The orchestrator goes from one stage to another, to thread number i. *)
StageStep(from, to, i) ==
    /\ orchestrator.at = from /\ to \in Stages /\ i \in 1 .. N
    /\ orchestrator' \in [at : Stages, i : 1 .. N]
    /\ orchestrator'.at = to /\ orchestrator'.i = i

(* A step to another stage for the same thread. *)
LEMMA SameThread ==
  ASSUME ThreadsTypeOK, NEW from, NEW to \in Stages,
         orchestrator.at = from, OrchestratorGoto(to)
  PROVE  StageStep(from, to, orchestrator.i)
  BY DEF ThreadsTypeOK, OrchestratorGoto, StageStep

(* A step to another thread. *)
LEMMA NextThread ==
  ASSUME NEW from, NEW to \in Stages, NEW i \in 1 .. N,
         orchestrator.at = from, orchestrator' = [at |-> to, i |-> i]
  PROVE  StageStep(from, to, i)
  BY DEF StageStep

(* The graph of the orchestrator's stages. *)
LEMMA StageSteps ==
  ASSUME ThreadsTypeOK, StageInv
  PROVE  /\ LaunchThread =>
               \/ orchestrator.i = N /\ StageStep("launch", "wait", 1)
               \/ orchestrator.i # N /\ StageStep("launch", "launch", orchestrator.i + 1)
         /\ LaunchThrows => StageStep("launch", "aborted", orchestrator.i)
         /\ WaitProcessShutdown => StageStep("wait", "flag", orchestrator.i)
         /\ SetShutdownFlag =>
               \/ orchestrator.i <= P /\ StageStep("flag", "acceptor", orchestrator.i)
               \/ orchestrator.i > P /\ StageStep("flag", "trigger", orchestrator.i)
         /\ CloseAcceptor => StageStep("acceptor", "socket", orchestrator.i)
         /\ ShutdownSocket =>
               \/ StageStep("socket", "crashed", orchestrator.i)
               \/ StageStep("socket", "await", orchestrator.i)
         /\ TriggerExecutor => StageStep("trigger", "await", orchestrator.i)
         /\ WaitShutdown =>
               \/ orchestrator.i = P /\ StageStep("await", "join_portals", orchestrator.i)
               \/ orchestrator.i = N /\ StageStep("await", "join_executors", orchestrator.i)
               \/ /\ orchestrator.i # N
                  /\ StageStep("await", "flag", orchestrator.i + 1)
         /\ Join =>
               \/ orchestrator.i = P /\ StageStep("join_portals", "flag", orchestrator.i + 1)
               \/ orchestrator.i = N /\ StageStep("join_executors", "exited", orchestrator.i)
<1>0. /\ orchestrator \in [at : Stages, i : 1 .. N]
      /\ orchestrator.i \in 1 .. N
      /\ N \in Nat /\ P \in Nat /\ 1 <= P /\ P < N
      /\ Len(LaunchOrder) = N /\ Len(ShutdownOrder) = N /\ Len(PortalOrder) = P
      /\ \A label \in {"launch", "wait", "flag", "acceptor", "socket", "trigger",
                       "await", "join_portals", "join_executors", "exited",
                       "aborted", "crashed"} : label \in Stages
  BY OrderLengths DEF ThreadsTypeOK, N, P, Stages
<1>1. ASSUME LaunchThread
      PROVE  \/ orchestrator.i = N /\ StageStep("launch", "wait", 1)
             \/ orchestrator.i # N /\ StageStep("launch", "launch", orchestrator.i + 1)
  <2>1. CASE orchestrator.i = N
    <3>1. orchestrator.at = "launch" /\ orchestrator' = [at |-> "wait", i |-> 1]
      BY <1>0, <1>1, <2>1 DEF LaunchThread, At
    <3>2. QED
      BY <1>0, <2>1, <3>1, NextThread
  <2>2. CASE orchestrator.i # N
    <3>1. /\ orchestrator.at = "launch"
          /\ orchestrator' = [orchestrator EXCEPT !.i = orchestrator.i + 1]
      BY <1>0, <1>1, <2>2 DEF LaunchThread, At
    <3>2. orchestrator' = [at |-> "launch", i |-> orchestrator.i + 1]
      BY <1>0, <3>1
    <3>3. orchestrator.i + 1 \in 1 .. N
      BY <1>0, <2>2
    <3>4. QED
      BY <1>0, <2>2, <3>1, <3>2, <3>3, NextThread
  <2>3. QED
    BY <2>1, <2>2
<1>2. LaunchThrows => StageStep("launch", "aborted", orchestrator.i)
  BY <1>0, SameThread DEF LaunchThrows, At
<1>3. WaitProcessShutdown => StageStep("wait", "flag", orchestrator.i)
  BY <1>0, SameThread DEF WaitProcessShutdown, At
<1>4. ASSUME SetShutdownFlag
      PROVE  \/ orchestrator.i <= P /\ StageStep("flag", "acceptor", orchestrator.i)
             \/ orchestrator.i > P /\ StageStep("flag", "trigger", orchestrator.i)
  <2>1. Current \in Portals <=> orchestrator.i <= P
    BY <1>0, IndexFacts DEF Current
  <2>2. CASE orchestrator.i <= P
    <3>1. orchestrator.at = "flag" /\ OrchestratorGoto("acceptor")
      BY <1>4, <2>1, <2>2 DEF SetShutdownFlag, At
    <3>2. QED
      BY <1>0, <2>2, <3>1, SameThread
  <2>3. CASE orchestrator.i > P
    <3>1. orchestrator.at = "flag" /\ OrchestratorGoto("trigger")
      BY <1>0, <1>4, <2>1, <2>3 DEF SetShutdownFlag, At
    <3>2. QED
      BY <1>0, <2>3, <3>1, SameThread
  <2>4. QED
    BY <1>0, <2>2, <2>3
<1>5. CloseAcceptor => StageStep("acceptor", "socket", orchestrator.i)
  BY <1>0, SameThread DEF CloseAcceptor, At
<1>6. ShutdownSocket => \/ StageStep("socket", "crashed", orchestrator.i)
                        \/ StageStep("socket", "await", orchestrator.i)
  BY <1>0, SameThread DEF ShutdownSocket, At
<1>7. TriggerExecutor => StageStep("trigger", "await", orchestrator.i)
  BY <1>0, SameThread DEF TriggerExecutor, At
<1>8. ASSUME WaitShutdown
      PROVE  \/ orchestrator.i = P /\ StageStep("await", "join_portals", orchestrator.i)
             \/ orchestrator.i = N /\ StageStep("await", "join_executors", orchestrator.i)
             \/ /\ orchestrator.i # N
                /\ StageStep("await", "flag", orchestrator.i + 1)
  <2>0. orchestrator.at = "await" /\ orchestrator' = AfterWait
    BY <1>8 DEF WaitShutdown, At
  <2>1. CASE orchestrator.i = P
    <3>1. OrchestratorGoto("join_portals")
      BY <1>0, <2>0, <2>1 DEF AfterWait, OrchestratorGoto
    <3>2. QED
      BY <1>0, <2>0, <2>1, <3>1, SameThread
  <2>2. CASE orchestrator.i = N
    <3>1. OrchestratorGoto("join_executors")
      BY <1>0, <2>0, <2>2 DEF AfterWait, OrchestratorGoto
    <3>2. QED
      BY <1>0, <2>0, <2>2, <3>1, SameThread
  <2>3. CASE orchestrator.i # P /\ orchestrator.i # N
    <3>1. orchestrator' = [at |-> "flag", i |-> orchestrator.i + 1]
      BY <1>0, <2>0, <2>3 DEF AfterWait
    <3>2. orchestrator.i + 1 \in 1 .. N
      BY <1>0, <2>3
    <3>3. QED
      BY <1>0, <2>0, <2>3, <3>1, <3>2, NextThread
  <2>4. QED
    BY <2>1, <2>2, <2>3
<1>9. ASSUME Join
      PROVE  \/ orchestrator.i = P /\ StageStep("join_portals", "flag", orchestrator.i + 1)
             \/ orchestrator.i = N /\ StageStep("join_executors", "exited", orchestrator.i)
  <2>1. CASE orchestrator.at = "join_portals"
    <3>1. orchestrator' = [at |-> "flag", i |-> orchestrator.i + 1]
      BY <1>9, <2>1 DEF Join, At
    <3>2. orchestrator.i = P /\ orchestrator.i + 1 \in 1 .. N
      BY <1>0, <2>1 DEF StageInv
    <3>3. QED
      BY <1>0, <2>1, <3>1, <3>2, NextThread
  <2>2. CASE orchestrator.at = "join_executors"
    <3>1. OrchestratorGoto("exited")
      BY <1>9, <2>2 DEF Join, At
    <3>2. orchestrator.i = N
      BY <2>2 DEF StageInv
    <3>3. QED
      BY <1>0, <2>2, <3>1, <3>2, SameThread
  <2>3. QED
    BY <1>9, <2>1, <2>2 DEF Join, At
<1>10. QED
  BY <1>1, <1>2, <1>3, <1>4, <1>5, <1>6, <1>7, <1>8, <1>9

(* The thread of the current stage is the one with that place in the order. *)
LEMMA CurrentThread ==
  ASSUME ThreadsTypeOK
  PROVE  /\ Current \in Threads
         /\ \A t \in Threads : t = Current <=> Index(t) = orchestrator.i
         /\ \A t \in Threads : Index(t) \in Nat
         /\ orchestrator.i \in 1 .. N /\ N \in Nat /\ P \in Nat /\ 1 <= P /\ P < N
  BY SMTT(20), IndexFacts, OrderLengths DEF Current, ThreadsTypeOK

(* Starting a thread: nothing has been reported or asked of it yet.        *)
LEMMA LaunchKeepsShutdownInv ==
  ASSUME ShutdownInv, LaunchThread
  PROVE  ShutdownInv'
<1> DEFINE new == LaunchOrder[orchestrator.i]
           label == FirstLabel(new)
<1>0. /\ ThreadsTypeOK /\ StageInv
      /\ orchestrator.i \in 1 .. N /\ N \in Nat /\ P \in Nat /\ 1 <= P /\ P < N
      /\ new \in Threads
      /\ \A k \in 1 .. N : LaunchOrder[k] = new => k = orchestrator.i
  BY LaunchFacts, CurrentThread DEF ShutdownInv
<1>1. /\ orchestrator.at = "launch" /\ orchestrator' \in [at : Stages, i : 1 .. N]
      /\ \/ orchestrator'.at = "wait" /\ orchestrator'.i = 1
         \/ orchestrator'.at = "launch" /\ orchestrator'.i = orchestrator.i + 1
  BY <1>0, StageSteps DEF StageStep
<1>2. /\ pc' = [pc EXCEPT ![new] = label]
      /\ UNCHANGED <<shutdown_flag, binary_shutdown_sem, global_shutdown_flag,
                     global_shutdown_sem, listening, socket, packets>>
  BY DEF LaunchThread, Goto, globalVars, serverVars
<1>3. /\ label \in {"created", "waiting", "running"} /\ label \in Labels
      /\ label \notin Alarmed /\ label \notin Disconnected
  BY DEF FirstLabel, Labels, Alarmed, Disconnected
<1>4. pc[new] = "unborn"
  BY <1>0, <1>1 DEF ShutdownInv, UnbornInv
<1> HIDE DEF new, label
<1>5. /\ pc' \in [Threads -> Labels] /\ pc'[new] = label
      /\ \A t \in Threads : t # new => pc'[t] = pc[t]
  BY <1>0, <1>2, <1>3 DEF ThreadsTypeOK
<1>6. ~Past /\ ~Past'
  BY <1>1 DEF Past
<1>7. \A t \in Threads : ~Asked(t) /\ ~Asked(t)' /\ ~Gone(t) /\ ~Gone(t)'
  BY <1>6 DEF Asked, Gone
<1>8. ThreadsTypeOK' /\ StageInv'
  BY <1>0, <1>1, <1>2, <1>5 DEF ThreadsTypeOK, StageInv
<1>9. UnbornInv'
  <2> SUFFICES ASSUME orchestrator'.at = "launch", NEW k \in 1 .. N, k >= orchestrator'.i
               PROVE  pc'[LaunchOrder[k]] = "unborn"
    BY DEF UnbornInv
  <2>1. k >= orchestrator.i /\ LaunchOrder[k] # new /\ LaunchOrder[k] \in Threads
    BY <1>0, <1>1, LaunchFacts
  <2>2. pc[LaunchOrder[k]] = "unborn"
    BY <1>1, <2>1 DEF ShutdownInv, UnbornInv
  <2>3. QED
    BY <1>5, <2>1, <2>2
<1>10. FlagInv'
  BY <1>2, <1>7 DEF ShutdownInv, FlagInv
<1>11. EndInv'
  <2>1. \A t \in Threads : pc'[t] = "ended" <=> pc[t] = "ended"
    BY <1>3, <1>4, <1>5
  <2>2. \A t \in Threads : binary_shutdown_sem[t] = IF pc'[t] = "ended" THEN 1 ELSE 0
    BY <1>7, <2>1 DEF ShutdownInv, EndInv
  <2>3. QED
    BY <1>2, <1>7, <2>2 DEF EndInv
<1>12. AlarmInv'
  <2>1. \A t \in Threads : pc'[t] \in Alarmed => pc[t] \in Alarmed
    BY <1>3, <1>5
  <2>2. QED
    BY <1>2, <1>6, <2>1 DEF ShutdownInv, AlarmInv
<1>13. ConnectionInv'
  <2>1. \A t \in Threads : pc'[t] \in Disconnected => pc[t] \in Disconnected
    BY <1>3, <1>5
  <2>2. \A p \in Portals : HasConnection(p)' = HasConnection(p)
    BY <1>2 DEF HasConnection
  <2>3. QED
    BY <2>1, <2>2, IndexFacts DEF ShutdownInv, ConnectionInv
<1>14. NoLostReport'
  <2>1. \A t \in Threads : pc[t] \in {"posting", "order_posting"} => pc'[t] = pc[t]
    BY <1>4, <1>5
  <2>2. QED
    BY <1>1, <1>2, <2>1 DEF ShutdownInv, NoLostReport
<1>15. QED
  BY <1>8, <1>9, <1>10, <1>11, <1>12, <1>13, <1>14 DEF ShutdownInv

(* A stage that changes neither a label, nor a flag, nor a notification,   *)
(* nor whether a portal has a connection, and asks and releases nobody.    *)
LEMMA StageKeepsShutdownInv ==
  ASSUME ShutdownInv, ThreadsTypeOK', StageInv', orchestrator'.at # "launch",
         UNCHANGED <<pc, shutdown_flag, binary_shutdown_sem, global_shutdown_flag>>,
         \A p \in Portals : HasConnection(p)' = HasConnection(p),
         \A t \in Threads : Asked(t)' = Asked(t) /\ Gone(t)' = Gone(t),
         global_shutdown_sem' > 0 => global_shutdown_sem > 0,
         Past' => Past \/ global_shutdown_sem > 0, NoLostReport'
  PROVE  ShutdownInv'
<1>1. UnbornInv' /\ FlagInv' /\ EndInv'
  BY DEF ShutdownInv, UnbornInv, FlagInv, EndInv
<1>2. AlarmInv' /\ ConnectionInv'
  BY DEF ShutdownInv, AlarmInv, ConnectionInv
<1>3. QED
  BY <1>1, <1>2 DEF ShutdownInv

(* The orchestrator keeps the invariant of the shutdown. *)
LEMMA OrchestratorKeepsShutdownInv ==
  ASSUME ShutdownInv, OrchestratorStep
  PROVE  ShutdownInv'
<1>0. /\ ThreadsTypeOK /\ StageInv /\ FlagInv /\ EndInv /\ AlarmInv /\ NoLostReport
      /\ orchestrator.i \in 1 .. N /\ N \in Nat /\ P \in Nat /\ 1 <= P /\ P < N
      /\ \A t \in Threads : Index(t) \in Nat
  BY CurrentThread DEF ShutdownInv
<1>1. CASE LaunchThread
  BY <1>1, LaunchKeepsShutdownInv
<1>2. CASE LaunchThrows
  <2>1. /\ orchestrator.at = "launch" /\ orchestrator' \in [at : Stages, i : 1 .. N]
        /\ orchestrator'.at = "aborted" /\ orchestrator'.i = orchestrator.i
    BY <1>0, <1>2, StageSteps DEF StageStep
  <2>2. UNCHANGED <<pc, shutdown_flag, binary_shutdown_sem, global_shutdown_flag,
                    global_shutdown_sem, listening, socket, packets>>
    BY <1>2 DEF LaunchThrows, threadVars, notThreadVars, globalVars, serverVars
  <2>3. ThreadsTypeOK' /\ StageInv' /\ NoLostReport'
    BY <1>0, <2>1, <2>2 DEF ThreadsTypeOK, StageInv, NoLostReport
  <2>4. ~Past /\ ~Past'
    BY <2>1 DEF Past
  <2>5. \A t \in Threads : Asked(t)' = Asked(t) /\ Gone(t)' = Gone(t)
    BY <2>4 DEF Asked, Gone
  <2>6. \A p \in Portals : HasConnection(p)' = HasConnection(p)
    BY <2>2 DEF HasConnection
  <2>7. QED
    BY <2>1, <2>2, <2>3, <2>4, <2>5, <2>6, StageKeepsShutdownInv
<1>3. CASE WaitProcessShutdown
  <2>1. /\ orchestrator.at = "wait" /\ orchestrator' \in [at : Stages, i : 1 .. N]
        /\ orchestrator'.at = "flag" /\ orchestrator'.i = orchestrator.i
        /\ orchestrator.i = 1
    BY <1>0, <1>3, StageSteps DEF StageStep, StageInv
  <2>2. /\ UNCHANGED <<pc, shutdown_flag, binary_shutdown_sem, global_shutdown_flag,
                       listening, socket, packets>>
        /\ global_shutdown_sem > 0 /\ global_shutdown_sem' = global_shutdown_sem - 1
    BY <1>3 DEF WaitProcessShutdown, threadVars, serverVars
  <2>3. ThreadsTypeOK' /\ StageInv' /\ NoLostReport'
    BY <1>0, <2>1, <2>2 DEF ThreadsTypeOK, StageInv, NoLostReport
  <2>4. \A t \in Threads : Index(t) \in 1 .. N
    BY IndexFacts
  <2>5. \A t \in Threads : Asked(t)' = Asked(t) /\ Gone(t)' = Gone(t)
    BY <1>0, <2>1, <2>4 DEF Asked, Gone, Past
  <2>6. \A p \in Portals : HasConnection(p)' = HasConnection(p)
    BY <2>2 DEF HasConnection
  <2>7. QED
    BY <2>1, <2>2, <2>3, <2>5, <2>6, StageKeepsShutdownInv
<1>4. CASE SetShutdownFlag
  <2>1. /\ orchestrator.at = "flag" /\ orchestrator' \in [at : Stages, i : 1 .. N]
        /\ \/ orchestrator.i <= P /\ orchestrator'.at = "acceptor"
           \/ orchestrator.i > P /\ orchestrator'.at = "trigger"
        /\ orchestrator'.i = orchestrator.i
    BY <1>0, <1>4, StageSteps DEF StageStep
  <2>2. /\ UNCHANGED <<pc, binary_shutdown_sem, global_shutdown_flag,
                       global_shutdown_sem, listening, socket, packets>>
        /\ shutdown_flag' = [shutdown_flag EXCEPT ![Current] = TRUE]
    BY <1>4 DEF SetShutdownFlag, notThreadVars, globalVars, serverVars
  <2>3. /\ shutdown_flag' \in [Threads -> BOOLEAN]
        /\ \A t \in Threads : shutdown_flag'[t] <=> (shutdown_flag[t] \/ t = Current)
    BY <1>0, <2>2, CurrentThread DEF ThreadsTypeOK
  <2>4. ThreadsTypeOK' /\ StageInv' /\ NoLostReport'
    BY <1>0, <2>1, <2>2, <2>3 DEF ThreadsTypeOK, StageInv, NoLostReport
  <2>5. Past /\ Past'
    BY <2>1 DEF Past
  <2>6. /\ \A t \in Threads : Asked(t)' <=> (Asked(t) \/ t = Current)
        /\ \A t \in Threads : Gone(t)' <=> Gone(t)
    BY <1>0, <2>1, <2>5, CurrentThread DEF Asked, Gone
  <2>7. UnbornInv' /\ FlagInv' /\ EndInv'
    <3>1. UnbornInv'
      BY <2>1 DEF UnbornInv
    <3>2. FlagInv'
      BY <1>0, <2>3, <2>6 DEF FlagInv
    <3>3. EndInv'
      BY <1>0, <2>2, <2>6 DEF EndInv
    <3>4. QED
      BY <3>1, <3>2, <3>3
  <2>8. AlarmInv' /\ ConnectionInv'
    BY <2>2, <2>5 DEF ShutdownInv, AlarmInv, ConnectionInv, HasConnection
  <2>9. QED
    BY <2>4, <2>7, <2>8 DEF ShutdownInv
<1>5. CASE CloseAcceptor \/ ShutdownSocket \/ TriggerExecutor
  <2>1. /\ orchestrator' \in [at : Stages, i : 1 .. N]
        /\ \/ orchestrator.at = "acceptor" /\ orchestrator'.at = "socket"
           \/ orchestrator.at = "socket" /\ orchestrator'.at \in {"crashed", "await"}
           \/ orchestrator.at = "trigger" /\ orchestrator'.at = "await"
        /\ orchestrator'.i = orchestrator.i
    BY <1>0, <1>5, StageSteps DEF StageStep
  <2>2. UNCHANGED <<pc, shutdown_flag, binary_shutdown_sem, global_shutdown_flag,
                    global_shutdown_sem, packets>>
    BY <1>5 DEF CloseAcceptor, ShutdownSocket, TriggerExecutor, threadVars, globalVars,
       serverVars
  <2>3. listening' \in [Portals -> BOOLEAN]
    <3>1. CASE CloseAcceptor
      BY <1>0, <3>1 DEF CloseAcceptor, ThreadsTypeOK
    <3>2. CASE ShutdownSocket \/ TriggerExecutor
      BY <1>0, <3>2 DEF ShutdownSocket, TriggerExecutor, ThreadsTypeOK, serverVars
    <3>3. QED
      BY <1>5, <3>1, <3>2
  <2>4. /\ socket' \in [Portals -> {"null", "fresh", "open", "shut", "closed"}]
        /\ \A p \in Portals : HasConnection(p)' = HasConnection(p)
    <3>1. CASE CloseAcceptor \/ TriggerExecutor
      BY <1>0, <3>1 DEF CloseAcceptor, TriggerExecutor, ThreadsTypeOK, serverVars,
         HasConnection
    <3>2. CASE ShutdownSocket
      <4>1. CASE socket[Current] = "open"
        <5>1. socket' = [socket EXCEPT ![Current] = "shut"]
          BY <3>2, <4>1 DEF ShutdownSocket
        <5>2. /\ socket' \in [Portals -> {"null", "fresh", "open", "shut", "closed"}]
              /\ \A p \in Portals :
                    socket'[p] = IF p = Current THEN "shut" ELSE socket[p]
          BY <1>0, <5>1 DEF ThreadsTypeOK
        <5>3. QED
          BY <4>1, <5>2 DEF HasConnection
      <4>2. CASE socket[Current] # "open"
        BY <1>0, <3>2, <4>2 DEF ShutdownSocket, ThreadsTypeOK, HasConnection
      <4>3. QED
        BY <4>1, <4>2
    <3>3. QED
      BY <1>5, <3>1, <3>2
  <2>5. ThreadsTypeOK' /\ StageInv' /\ NoLostReport'
    BY <1>0, <2>1, <2>2, <2>3, <2>4 DEF ThreadsTypeOK, StageInv, NoLostReport
  <2>6. Past /\ Past'
    BY <2>1 DEF Past
  <2>7. \A t \in Threads : Asked(t)' = Asked(t) /\ Gone(t)' = Gone(t)
    BY <2>1, <2>6 DEF Asked, Gone
  <2>8. QED
    BY <2>1, <2>2, <2>4, <2>5, <2>6, <2>7, StageKeepsShutdownInv
<1>6. CASE WaitShutdown
  <2>1. /\ orchestrator.at = "await" /\ orchestrator' \in [at : Stages, i : 1 .. N]
        /\ \/ /\ orchestrator.i = P /\ orchestrator'.at = "join_portals"
              /\ orchestrator'.i = orchestrator.i
           \/ /\ orchestrator.i = N /\ orchestrator'.at = "join_executors"
              /\ orchestrator'.i = orchestrator.i
           \/ orchestrator'.at = "flag" /\ orchestrator'.i = orchestrator.i + 1
    BY <1>0, <1>6, StageSteps DEF StageStep
  <2>2. /\ UNCHANGED <<pc, shutdown_flag, global_shutdown_flag,
                       global_shutdown_sem, listening, socket, packets>>
        /\ binary_shutdown_sem[Current] > 0
        /\ binary_shutdown_sem' =
              [binary_shutdown_sem EXCEPT ![Current] = binary_shutdown_sem[Current] - 1]
    BY <1>6 DEF WaitShutdown, notThreadVars, globalVars, serverVars
  <2>3. Current \in Threads /\ binary_shutdown_sem[Current] = 1 /\ pc[Current] = "ended"
    BY <1>0, <2>2, CurrentThread DEF EndInv
  <2>4. /\ binary_shutdown_sem' \in [Threads -> Nat]
        /\ binary_shutdown_sem'[Current] = 0
        /\ \A t \in Threads : t # Current => binary_shutdown_sem'[t] = binary_shutdown_sem[t]
    BY <1>0, <2>2, <2>3 DEF ThreadsTypeOK
  <2>5. ThreadsTypeOK' /\ StageInv' /\ NoLostReport'
    BY <1>0, <2>1, <2>2, <2>4 DEF ThreadsTypeOK, StageInv, NoLostReport
  <2>6. Past /\ Past'
    BY <2>1 DEF Past
  <2>7. /\ \A t \in Threads : Asked(t)' <=> Asked(t)
        /\ \A t \in Threads : Gone(t)' <=> (Gone(t) \/ t = Current)
    BY <1>0, <2>1, <2>6, CurrentThread DEF Asked, Gone
  <2>8. UnbornInv' /\ FlagInv' /\ EndInv'
    <3>1. UnbornInv'
      BY <2>1 DEF UnbornInv
    <3>2. FlagInv'
      BY <1>0, <2>2, <2>7 DEF FlagInv
    <3>3. EndInv'
      BY <1>0, <2>2, <2>3, <2>4, <2>7 DEF EndInv
    <3>4. QED
      BY <3>1, <3>2, <3>3
  <2>9. AlarmInv' /\ ConnectionInv'
    BY <2>2, <2>6 DEF ShutdownInv, AlarmInv, ConnectionInv, HasConnection
  <2>10. QED
    BY <2>5, <2>8, <2>9 DEF ShutdownInv
<1>7. CASE Join
  <2>1. /\ orchestrator' \in [at : Stages, i : 1 .. N]
        /\ \/ /\ orchestrator.at = "join_portals" /\ orchestrator'.at = "flag"
              /\ orchestrator'.i = orchestrator.i + 1
           \/ /\ orchestrator.at = "join_executors" /\ orchestrator'.at = "exited"
              /\ orchestrator'.i = orchestrator.i /\ orchestrator.i = N
    BY <1>0, <1>7, StageSteps DEF StageStep
  <2>2. UNCHANGED <<pc, shutdown_flag, binary_shutdown_sem, global_shutdown_flag,
                    global_shutdown_sem, listening, socket, packets>>
    BY <1>7 DEF Join, threadVars, notThreadVars, globalVars, serverVars
  <2>3. ThreadsTypeOK' /\ StageInv' /\ NoLostReport'
    BY <1>0, <2>1, <2>2 DEF ThreadsTypeOK, StageInv, NoLostReport
  <2>4. Past /\ Past'
    BY <2>1 DEF Past
  <2>5. \A t \in Threads : Asked(t)' = Asked(t) /\ Gone(t)' = Gone(t)
    BY <1>0, <2>1, <2>4 DEF Asked, Gone
  <2>6. \A p \in Portals : HasConnection(p)' = HasConnection(p)
    BY <2>2 DEF HasConnection
  <2>7. QED
    BY <2>1, <2>2, <2>3, <2>4, <2>5, <2>6, StageKeepsShutdownInv
<1>8. QED
  BY <1>1, <1>2, <1>3, <1>4, <1>5, <1>6, <1>7 DEF OrchestratorStep

--------------------------------------------------------------------------------
(* The theorems about the shutdown *)

(* The shutdown's invariant holds initially. *)
LEMMA ShutdownInvInit ==
  ASSUME Init
  PROVE  ShutdownInv
<1>0. /\ orchestrator = [at |-> "launch", i |-> 1]
      /\ pc = [t \in Threads |-> "unborn"]
      /\ shutdown_flag = [t \in Threads |-> FALSE]
      /\ binary_shutdown_sem = [t \in Threads |-> 0]
      /\ global_shutdown_flag = FALSE /\ global_shutdown_sem = 0
      /\ listening = [p \in Portals |-> TRUE]
      /\ socket = [p \in Portals |-> "null"]
      /\ packets = 0
      /\ N \in Nat /\ 1 <= N
  BY OrderLengths DEF Init
<1>1. ThreadsTypeOK
  <2>1. orchestrator \in [at : Stages, i : 1 .. N]
    BY <1>0 DEF Stages
  <2>2. pc \in [Threads -> Labels]
    BY <1>0 DEF Labels
  <2>3. QED
    BY <1>0, <2>1, <2>2 DEF ThreadsTypeOK
<1>2. ~Past /\ \A t \in Threads : ~Asked(t) /\ ~Gone(t)
  BY <1>0 DEF Past, Asked, Gone
<1>3. StageInv /\ UnbornInv
  BY <1>0, LaunchFacts DEF StageInv, UnbornInv
<1>4. FlagInv /\ EndInv
  BY <1>0, <1>2 DEF FlagInv, EndInv
<1>5. AlarmInv /\ ConnectionInv /\ NoLostReport
  BY <1>0, <1>2, IndexFacts DEF AlarmInv, Alarmed, ConnectionInv, HasConnection,
     NoLostReport
<1>6. QED
  BY <1>1, <1>3, <1>4, <1>5 DEF ShutdownInv

(* A step of the engine is a step of a thread or one of the orchestrator.  *)
LEMMA StepKinds ==
  ASSUME ThreadsTypeOK, Next
  PROVE  \/ ThreadsTypeOK' /\ ThreadEffect
         \/ OrchestratorStep
  BY ThreadStepEffect, ControlStepEffect DEF Next

(* The invariant of the shutdown is kept by every step.                    *)
LEMMA ShutdownInvStep ==
  ASSUME ShutdownInv, [Next]_vars
  PROVE  ShutdownInv'
<1>1. CASE Next
  BY <1>1, StepKinds, ThreadsKeepShutdownInv, OrchestratorKeepsShutdownInv
     DEF ShutdownInv
<1>2. CASE UNCHANGED vars
  <2>1. UNCHANGED <<orchestrator, pc, shutdown_flag, binary_shutdown_sem,
                    global_shutdown_flag, global_shutdown_sem, listening, socket, packets>>
    BY <1>2 DEF vars, threadVars, globalVars, serverVars
  <2>2. \A t \in Threads : Asked(t)' = Asked(t) /\ Gone(t)' = Gone(t)
    BY <2>1 DEF Asked, Gone, Past
  <2>3. \A p \in Portals : HasConnection(p)' = HasConnection(p)
    BY <2>1 DEF HasConnection
  <2>4. ThreadsTypeOK' /\ StageInv' /\ UnbornInv' /\ NoLostReport'
    BY <2>1 DEF ShutdownInv, ThreadsTypeOK, StageInv, UnbornInv, NoLostReport
  <2>5. FlagInv' /\ EndInv'
    BY <2>1, <2>2 DEF ShutdownInv, FlagInv, EndInv
  <2>6. AlarmInv' /\ ConnectionInv'
    BY <2>1, <2>3 DEF ShutdownInv, AlarmInv, Past, ConnectionInv
  <2>7. QED
    BY <2>4, <2>5, <2>6 DEF ShutdownInv
<1>3. QED
  BY <1>1, <1>2

(* The invariant from which the properties of the shutdown follow. *)
THEOREM ShutdownInvariant == Spec => []ShutdownInv
<1>1. Init => ShutdownInv
  BY ShutdownInvInit
<1>2. ShutdownInv /\ [Next]_vars => ShutdownInv'
  BY ShutdownInvStep
<1>3. QED
  BY <1>1, <1>2, PTL DEF Spec

(* A fatal error that raised the flag reaches the orchestrator: it is not  *)
(* lost between the flag and the semaphore, in whichever thread.           *)
THEOREM ReportsReach == Spec => []NoLostReport
  BY ShutdownInvariant, PTL DEF ShutdownInv

(* When an executor is asked to stop, every portal has ended. *)
LEMMA PortalsEndFirst ==
  ASSUME ShutdownInv, NEW e \in Executors, shutdown_flag[e], NEW p \in Portals
  PROVE  pc[p] = "ended"
<1>1. /\ e \in Threads /\ p \in Threads /\ Index(e) > P /\ Index(p) <= P
      /\ Index(e) \in Nat /\ Index(p) \in Nat
      /\ orchestrator.i \in Nat /\ P \in Nat
  BY IndexFacts, OrderLengths, CurrentThread DEF ShutdownInv
<1>2. Past /\ Index(p) < orchestrator.i
  BY <1>1 DEF ShutdownInv, FlagInv, Asked
<1>3. QED
  BY <1>1, <1>2 DEF ShutdownInv, EndInv, Gone

(* While a portal is inside a call of its executor, no executor has been   *)
(* asked to stop.                                                          *)
THEOREM CallsCorrect == Spec => []CallsServed
<1>1. ShutdownInv => CallsServed
  BY PortalsEndFirst DEF CallsServed, ShutdownInv, ThreadsTypeOK, FlagInv
<1>2. QED
  BY <1>1, ShutdownInvariant, PTL

(* exit(0) at the end of a shutdown finds every thread ended, every        *)
(* connection closed and every notification taken.                         *)
THEOREM ExitCorrect == Spec => []CleanExit
<1>1. ShutdownInv => CleanExit
  <2> SUFFICES ASSUME ShutdownInv, At("exited") PROVE CleanExit
    BY DEF CleanExit
  <2>1. orchestrator.i = N /\ Past /\ orchestrator.at = "exited"
    BY DEF ShutdownInv, StageInv, Past, At
  <2>2. \A t \in Threads : Gone(t)
    BY <2>1, IndexFacts, OrderLengths DEF Gone
  <2>3. \A t \in Threads : pc[t] = "ended" /\ binary_shutdown_sem[t] = 0
    BY <2>2 DEF ShutdownInv, EndInv
  <2>4. \A p \in Portals : ~HasConnection(p)
    BY <2>3, IndexFacts DEF ShutdownInv, ConnectionInv, Disconnected
  <2>5. QED
    BY <2>3, <2>4 DEF CleanExit
<1>2. QED
  BY <1>1, ShutdownInvariant, PTL

--------------------------------------------------------------------------------
(* The engine implements Supervision *)

(* PassedBy in terms of the place of the thread, before and after a step.  *)
LEMMA PassedByGone ==
  ASSUME NEW t \in Threads
  PROVE  /\ ThreadsTypeOK => (PassedBy(t) <=> Gone(t))
         /\ ThreadsTypeOK' => (PassedBy(t)' <=> Gone(t)')
<1>1. /\ Index(t) \in 1 .. N /\ ShutdownOrder[Index(t)] = t
      /\ \A k \in 1 .. N : ShutdownOrder[k] = t => k = Index(t)
      /\ DOMAIN ShutdownOrder = 1 .. N /\ N \in Nat
  BY IndexFacts, OrderLengths
<1>2. ThreadsTypeOK => (PassedBy(t) <=> Gone(t))
  <2> SUFFICES ASSUME ThreadsTypeOK PROVE PassedBy(t) <=> Gone(t)
    OBVIOUS
  <2>1. orchestrator.i \in 1 .. N
    BY DEF ThreadsTypeOK
  <2>2. QED
    BY <1>1, <2>1 DEF PassedBy, Gone, Past, At
<1>3. ThreadsTypeOK' => (PassedBy(t)' <=> Gone(t)')
  <2> SUFFICES ASSUME ThreadsTypeOK' PROVE PassedBy(t)' <=> Gone(t)'
    OBVIOUS
  <2>1. orchestrator'.i \in 1 .. N
    BY DEF ThreadsTypeOK
  <2>2. QED
    BY <1>1, <2>1 DEF PassedBy, Gone, Past, At
<1>4. QED
  BY <1>2, <1>3

(* Whom the orchestrator asks and releases: setting a flag asks the        *)
(* current thread, coming back from its wait releases it, and no other     *)
(* step does either.                                                       *)
LEMMA AskedAndGone ==
  ASSUME ShutdownInv, OrchestratorStep
  PROVE  \/ /\ \A t \in Threads : Asked(t)' <=> Asked(t)
            /\ \A t \in Threads : Gone(t)' <=> Gone(t)
         \/ /\ SetShutdownFlag
            /\ \A t \in Threads : Asked(t)' <=> (Asked(t) \/ t = Current)
            /\ \A t \in Threads : Gone(t)' <=> Gone(t)
         \/ /\ WaitShutdown /\ Asked(Current)
            /\ \A t \in Threads : Asked(t)' <=> Asked(t)
            /\ \A t \in Threads : Gone(t)' <=> (Gone(t) \/ t = Current)
<1>0. /\ ThreadsTypeOK /\ StageInv
      /\ orchestrator.i \in 1 .. N /\ N \in Nat /\ P \in Nat /\ 1 <= P /\ P < N
      /\ \A t \in Threads : Index(t) \in Nat
  BY CurrentThread DEF ShutdownInv
<1>1. CASE LaunchThread \/ LaunchThrows
  <2>1. orchestrator.at = "launch" /\ orchestrator'.at \in {"launch", "wait", "aborted"}
    BY <1>0, <1>1, StageSteps DEF StageStep
  <2>2. QED
    BY <2>1 DEF Asked, Gone, Past
<1>2. CASE WaitProcessShutdown
  <2>1. /\ orchestrator.at = "wait" /\ orchestrator'.at = "flag"
        /\ orchestrator'.i = orchestrator.i /\ orchestrator.i = 1
    BY <1>0, <1>2, StageSteps DEF StageStep, StageInv
  <2>2. \A t \in Threads : Index(t) \in 1 .. N
    BY IndexFacts
  <2>3. QED
    BY <1>0, <2>1, <2>2 DEF Asked, Gone, Past
<1>3. CASE SetShutdownFlag
  <2>1. /\ orchestrator.at = "flag" /\ orchestrator'.at \in {"acceptor", "trigger"}
        /\ orchestrator'.i = orchestrator.i
    BY <1>0, <1>3, StageSteps DEF StageStep
  <2>2. /\ \A t \in Threads : Asked(t)' <=> (Asked(t) \/ t = Current)
        /\ \A t \in Threads : Gone(t)' <=> Gone(t)
    BY <1>0, <2>1, CurrentThread DEF Asked, Gone, Past
  <2>3. QED
    BY <1>3, <2>2
<1>4. CASE CloseAcceptor \/ ShutdownSocket \/ TriggerExecutor
  <2>1. /\ orchestrator.at \in {"acceptor", "socket", "trigger"}
        /\ orchestrator'.at \in {"socket", "crashed", "await"}
        /\ orchestrator'.i = orchestrator.i
    BY <1>0, <1>4, StageSteps DEF StageStep
  <2>2. QED
    BY <2>1 DEF Asked, Gone, Past
<1>5. CASE WaitShutdown
  <2>1. /\ orchestrator.at = "await"
        /\ \/ /\ orchestrator'.at \in {"join_portals", "join_executors"}
              /\ orchestrator'.i = orchestrator.i
           \/ orchestrator'.at = "flag" /\ orchestrator'.i = orchestrator.i + 1
    BY <1>0, <1>5, StageSteps DEF StageStep
  <2>2. /\ Asked(Current)
        /\ \A t \in Threads : Asked(t)' <=> Asked(t)
        /\ \A t \in Threads : Gone(t)' <=> (Gone(t) \/ t = Current)
    BY <1>0, <2>1, CurrentThread DEF Asked, Gone, Past
  <2>3. QED
    BY <1>5, <2>2
<1>6. CASE Join
  <2>1. /\ \/ /\ orchestrator.at = "join_portals" /\ orchestrator'.at = "flag"
              /\ orchestrator'.i = orchestrator.i + 1
           \/ /\ orchestrator.at = "join_executors" /\ orchestrator'.at = "exited"
              /\ orchestrator'.i = orchestrator.i
    BY <1>0, <1>6, StageSteps DEF StageStep
  <2>2. QED
    BY <1>0, <2>1 DEF Asked, Gone, Past
<1>7. QED
  BY <1>1, <1>2, <1>3, <1>4, <1>5, <1>6 DEF OrchestratorStep

(* The threads that run, were asked, and are known to have stopped. *)
RunningNow == {t \in Threads : pc[t] # "ended"}
AskedNow == {t \in Threads : shutdown_flag[t]}
StoppedNow == {t \in Threads : PassedBy(t)}

(* A step of a thread is an alarm, an end or no step of Supervision.       *)
LEMMA ThreadsSupervised ==
  ASSUME ShutdownInv, ShutdownInv', ThreadEffect
  PROVE  \/ Supervisor!Alarm
         \/ \E t \in Threads : Supervisor!End(t)
         \/ UNCHANGED <<global_shutdown_flag, RunningNow, AskedNow, StoppedNow>>
<1>1. /\ orchestrator' = orchestrator /\ shutdown_flag' = shutdown_flag
      /\ global_shutdown_flag \in BOOLEAN /\ global_shutdown_flag' \in BOOLEAN
      /\ global_shutdown_flag => global_shutdown_flag'
  BY DEF ThreadEffect, ShutdownInv, ThreadsTypeOK
<1>2. AskedNow' = AskedNow /\ StoppedNow' = StoppedNow
  <2>1. \A t \in Threads : PassedBy(t)' = PassedBy(t)
    BY <1>1 DEF PassedBy, At
  <2>2. QED
    BY <1>1, <2>1 DEF AskedNow, StoppedNow
<1>3. CASE global_shutdown_flag' /\ ~global_shutdown_flag
  <2>1. \A t \in Threads : pc'[t] = "ended" <=> pc[t] = "ended"
    BY <1>3 DEF ThreadEffect
  <2>2. RunningNow' = RunningNow
    BY <2>1 DEF RunningNow
  <2>3. QED
    BY <1>1, <1>2, <1>3, <2>2 DEF Supervisor!Alarm, RunningNow, AskedNow, StoppedNow
<1>4. CASE global_shutdown_flag' = global_shutdown_flag
  <2>1. PICK t \in Threads : \A u \in Threads : u # t => pc'[u] = pc[u]
    BY DEF ThreadEffect
  <2>2. pc[t] = "ended" => pc'[t] = "ended"
    BY DEF ThreadEffect
  <2>3. CASE pc'[t] = "ended" /\ pc[t] # "ended"
    <3>1. RunningNow' = RunningNow \ {t}
      BY <2>1, <2>3 DEF RunningNow
    <3>2. global_shutdown_flag
      BY <1>4, <2>3 DEF ShutdownInv, AlarmInv, Alarmed
    <3>3. QED
      BY <1>2, <1>4, <3>1, <3>2 DEF Supervisor!End, RunningNow, AskedNow, StoppedNow
  <2>4. CASE pc'[t] # "ended" \/ pc[t] = "ended"
    <3>1. RunningNow' = RunningNow
      BY <2>1, <2>2, <2>4 DEF RunningNow
    <3>2. QED
      BY <1>2, <1>4, <3>1
  <2>5. QED
    BY <2>3, <2>4
<1>5. QED
  BY <1>1, <1>3, <1>4

(* A step of the orchestrator asks, stops or is no step of Supervision.    *)
LEMMA OrchestratorSupervised ==
  ASSUME ShutdownInv, ShutdownInv', OrchestratorStep
  PROVE  \/ \E t \in Threads : Supervisor!Ask(t) \/ Supervisor!Stop(t)
         \/ UNCHANGED <<global_shutdown_flag, RunningNow, AskedNow, StoppedNow>>
<1>1. global_shutdown_flag' = global_shutdown_flag
  BY DEF OrchestratorStep, LaunchThread, LaunchThrows, WaitProcessShutdown,
     SetShutdownFlag, CloseAcceptor, ShutdownSocket, TriggerExecutor, WaitShutdown, Join,
     notThreadVars, globalVars
<1>2. RunningNow' = RunningNow
  <2>1. CASE LaunchThread
    <3>1. /\ LaunchOrder[orchestrator.i] \in Threads
          /\ pc[LaunchOrder[orchestrator.i]] = "unborn"
      BY <2>1, LaunchFacts, CurrentThread DEF LaunchThread, At, ShutdownInv, UnbornInv
    <3>2. /\ pc' = [pc EXCEPT ![LaunchOrder[orchestrator.i]]
                       = FirstLabel(LaunchOrder[orchestrator.i])]
          /\ FirstLabel(LaunchOrder[orchestrator.i]) # "ended"
      BY <2>1 DEF LaunchThread, Goto, FirstLabel
    <3>3. \A t \in Threads : pc'[t] # "ended" <=> pc[t] # "ended"
      BY <3>1, <3>2 DEF ShutdownInv, ThreadsTypeOK
    <3>4. QED
      BY <3>3 DEF RunningNow
  <2>2. CASE ~LaunchThread
    <3>1. pc' = pc
      BY <2>2 DEF OrchestratorStep, LaunchThrows, WaitProcessShutdown,
         SetShutdownFlag, CloseAcceptor, ShutdownSocket, TriggerExecutor, WaitShutdown,
         Join, threadVars
    <3>2. QED
      BY <3>1 DEF RunningNow
  <2>3. QED
    BY <2>1, <2>2
<1>3. /\ AskedNow = {t \in Threads : Asked(t)} /\ AskedNow' = {t \in Threads : Asked(t)'}
      /\ StoppedNow = {t \in Threads : Gone(t)} /\ StoppedNow' = {t \in Threads : Gone(t)'}
  <2>1. /\ \A t \in Threads : shutdown_flag[t] <=> Asked(t)
        /\ \A t \in Threads : shutdown_flag'[t] <=> Asked(t)'
    BY DEF ShutdownInv, FlagInv
  <2>2. \A t \in Threads : PassedBy(t) <=> Gone(t)
    BY PassedByGone DEF ShutdownInv
  <2>3. \A t \in Threads : PassedBy(t)' <=> Gone(t)'
    BY PassedByGone DEF ShutdownInv
  <2>4. QED
    BY <2>1, <2>2, <2>3 DEF AskedNow, StoppedNow
<1>4. PICK c \in Threads : c = Current
  BY CurrentThread DEF ShutdownInv
<1>5. CASE /\ \A t \in Threads : Asked(t)' <=> Asked(t)
           /\ \A t \in Threads : Gone(t)' <=> Gone(t)
  BY <1>1, <1>2, <1>3, <1>5
<1>6. CASE /\ SetShutdownFlag
           /\ \A t \in Threads : Asked(t)' <=> (Asked(t) \/ t = Current)
           /\ \A t \in Threads : Gone(t)' <=> Gone(t)
  <2>1. AskedNow' = AskedNow \cup {c} /\ StoppedNow' = StoppedNow
    BY <1>3, <1>4, <1>6
  <2>2. global_shutdown_flag
    BY <1>6 DEF SetShutdownFlag, At, ShutdownInv, AlarmInv, Past
  <2>3. Supervisor!Ask(c)
    BY <1>1, <1>2, <2>1, <2>2 DEF Supervisor!Ask, RunningNow, AskedNow, StoppedNow
  <2>4. QED
    BY <2>3
<1>7. CASE /\ WaitShutdown /\ Asked(Current)
           /\ \A t \in Threads : Asked(t)' <=> Asked(t)
           /\ \A t \in Threads : Gone(t)' <=> (Gone(t) \/ t = Current)
  <2>1. AskedNow' = AskedNow /\ StoppedNow' = StoppedNow \cup {c}
    BY <1>3, <1>4, <1>7
  <2>2. pc[c] = "ended"
    BY <1>4, <1>7 DEF WaitShutdown, ShutdownInv, EndInv
  <2>3. c \in AskedNow \ RunningNow
    BY <1>3, <1>4, <1>7, <2>2 DEF RunningNow
  <2>4. Supervisor!Stop(c)
    BY <1>1, <1>2, <2>1, <2>3 DEF Supervisor!Stop, RunningNow, AskedNow, StoppedNow
  <2>5. QED
    BY <1>4, <2>4
<1>8. QED
  BY <1>5, <1>6, <1>7, AskedAndGone

(* No thread ends, and none is asked to stop, before an error was reported, *)
(* and the orchestrator goes on from a thread only when it has ended: the  *)
(* engine implements Supervision, whatever its portals and executors.      *)
THEOREM SupervisionImplemented == Spec => ImplementsSupervision
<1>1. Init => Supervisor!Init
  <2> SUFFICES ASSUME Init PROVE Supervisor!Init
    OBVIOUS
  <2>1. /\ global_shutdown_flag = FALSE
        /\ \A t \in Threads : pc[t] = "unborn" /\ ~shutdown_flag[t] /\ ~PassedBy(t)
    BY DEF Init, PassedBy, At
  <2>2. QED
    BY <2>1 DEF Supervisor!Init
<1>2. ShutdownInv /\ ShutdownInv' /\ [Next]_vars => [Supervisor!Next]_(Supervisor!supervisionVars)
  <2> SUFFICES ASSUME ShutdownInv, ShutdownInv', [Next]_vars
               PROVE  \/ Supervisor!Next
                      \/ UNCHANGED <<global_shutdown_flag, RunningNow, AskedNow, StoppedNow>>
    BY DEF Supervisor!supervisionVars, RunningNow, AskedNow, StoppedNow
  <2>1. CASE UNCHANGED vars
    <3>1. UNCHANGED <<orchestrator, pc, shutdown_flag, global_shutdown_flag>>
      BY <2>1 DEF vars, threadVars, globalVars
    <3>2. \A t \in Threads : PassedBy(t)' = PassedBy(t)
      BY <3>1 DEF PassedBy, At
    <3>3. QED
      BY <3>1, <3>2 DEF RunningNow, AskedNow, StoppedNow
  <2>2. CASE Next
    BY <2>2, StepKinds, ThreadsSupervised, OrchestratorSupervised
       DEF Supervisor!Next, ShutdownInv
  <2>3. QED
    BY <2>1, <2>2
<1>3. QED
  BY <1>1, <1>2, ShutdownInvariant, PTL DEF Spec, ImplementsSupervision, Supervisor!Spec

--------------------------------------------------------------------------------
(* The control pipeline *)

One(holds) == IF holds THEN 1 ELSE 0

(* The permit of the control executor's shutdown has been posted. *)
Triggered ==
    orchestrator.i = N /\ orchestrator.at \in {"await", "join_executors", "exited"}

(* The size is counted after the push, and before the pop of the only      *)
(* thread that takes outliers off the queue.                               *)
SizeInv ==
    /\ outlier_queue_size + One(pc[TheExecutor] = "pushed") = Len(outlier_queue)
    /\ pc[ThePortal] = "popping" => outlier_queue_size >= 1

(* Until the executor leaves its loop, a permit stands for one high outlier *)
(* in the store, for a low one or for the shutdown, and an executor that    *)
(* fetches took the permit of an outlier.                                   *)
OutlierPermits ==
    /\ pc[TheExecutor] \in {"unborn", "waiting", "woken", "fetching", "pushing", "pushed"} =>
          Len(store_outliers) + low_outliers + One(Triggered)
          = outlier_queue_sem + One(pc[TheExecutor] \in {"woken", "fetching"})
    /\ pc[TheExecutor] = "fetching" /\ Triggered => outlier_queue_sem >= 1

(* The executor holds one outlier on the way from the store's queue to its *)
(* own, and none elsewhere.                                                *)
HeldInv ==
    /\ pc[TheExecutor] # "pushing" => outlier = <<>>
    /\ pc[TheExecutor] = "pushing" => Len(outlier) = 1

OutlierInv ==
    OutliersTypeOK /\ SizeInv /\ OutlierPermits /\ HeldInv /\ PopsQueuedOnly
    /\ OutliersInOrder

(* The lengths of the two queues, and when they are empty. *)
LEMMA QueueLengths ==
  ASSUME NEW q \in Seq(Nat), NEW e \in Nat
  PROVE  /\ Len(q) \in Nat /\ (q = <<>> <=> Len(q) = 0)
         /\ Append(q, e) \in Seq(Nat) /\ Len(Append(q, e)) = Len(q) + 1
         /\ q # <<>> => /\ Head(q) \in Nat /\ Tail(q) \in Seq(Nat)
                        /\ Len(Tail(q)) = Len(q) - 1
  BY LenProperties, EmptySeq, AppendProperties, HeadTailProperties

(* The order is that of the numbers 1 to reported.                         *)
LEMMA OrderIsUpTo ==
  /\ OutliersInOrder <=>
        delivered \o outlier_queue \o outlier \o store_outliers = UpTo(reported)
  /\ OutliersInOrder' <=>
        (delivered \o outlier_queue \o outlier \o store_outliers)' = UpTo(reported')
  BY DEF OutliersInOrder, UpTo

(* Steps that leave the outliers alone, and the two threads of the control *)
(* pipeline where they are in it, keep the invariant.                      *)
LEMMA AwayKeepsOutlierInv ==
  ASSUME OutlierInv, UNCHANGED outlierVars, Triggered' = Triggered,
         \A u \in Threads :
             \/ pc'[u] = pc[u]
             \/ pc[u] \notin Control /\ pc'[u] \notin Control
             \/ pc[u] = "unborn" /\ pc'[u] = "waiting",
         \A u \in Threads : pc'[u] = "unborn" => pc[u] = "unborn"
  PROVE  OutlierInv'
<1>1. ThePortal \in Threads /\ TheExecutor \in Threads
  BY IndexFacts
<1>2. UNCHANGED <<reported, low_outliers, store_outliers, outlier_queue_sem, outlier,
                  outlier_queue, outlier_queue_size, delivered>>
  BY DEF outlierVars
<1>3. OutliersTypeOK' /\ OutliersInOrder'
  BY <1>2 DEF OutlierInv, OutliersTypeOK, OutliersInOrder
<1>4. /\ pc'[TheExecutor] = "pushed" <=> pc[TheExecutor] = "pushed"
      /\ pc'[ThePortal] = "popping" => pc[ThePortal] = "popping"
      /\ pc'[TheExecutor] = "pushing" <=> pc[TheExecutor] = "pushing"
      /\ pc'[TheExecutor] = "fetching" => pc[TheExecutor] = "fetching"
      /\ pc'[TheExecutor] \in {"woken", "fetching"} <=> pc[TheExecutor] \in {"woken", "fetching"}
      /\ pc'[TheExecutor] \in {"unborn", "waiting", "woken", "fetching", "pushing", "pushed"} =>
         pc[TheExecutor] \in {"unborn", "waiting", "woken", "fetching", "pushing", "pushed"}
      /\ \A u \in Threads : pc'[u] = "undefined" => pc[u] = "undefined"
  BY <1>1 DEF Control
<1>5. SizeInv' /\ HeldInv'
  BY <1>2, <1>4 DEF OutlierInv, SizeInv, HeldInv, One
<1>6. OutlierPermits'
  BY <1>2, <1>4 DEF OutlierInv, OutlierPermits, One
<1>7. PopsQueuedOnly'
  BY <1>1, <1>2, <1>4 DEF OutlierInv, PopsQueuedOnly
<1>8. QED
  BY <1>3, <1>5, <1>6, <1>7 DEF OutlierInv

(* The steps of the control pipeline itself. *)
LEMMA ControlKeepsOutlierInv ==
  ASSUME ShutdownInv, OutlierInv, ControlStep \/ ReportOutlier
  PROVE  OutlierInv'
<1>0. /\ ThePortal \in Threads /\ TheExecutor \in Threads /\ ThePortal # TheExecutor
      /\ pc \in [Threads -> Labels] /\ ThreadsTypeOK
      /\ orchestrator' = orchestrator
      /\ \A label \in {"writing", "popping", "undefined", "woken", "leaving", "fetching",
                       "pushing", "pushed", "waiting"} : label \in Labels
  BY IndexFacts, ThreadsDistinct, ControlStepEffect
     DEF ShutdownInv, ThreadsTypeOK, ThreadEffect, Labels
<1>1. /\ OutliersTypeOK /\ SizeInv /\ OutlierPermits /\ HeldInv /\ OutliersInOrder
      /\ PopsQueuedOnly
  BY DEF OutlierInv
<1>2. /\ reported \in Nat /\ low_outliers \in Nat
      /\ store_outliers \in Seq(Nat) /\ outlier_queue_sem \in Nat
      /\ outlier \in Seq(Nat) /\ outlier_queue \in Seq(Nat) /\ outlier_queue_size \in Nat
      /\ delivered \in Seq(Nat)
      /\ Len(outlier_queue) \in Nat /\ Len(store_outliers) \in Nat
      /\ delivered \o outlier_queue \in Seq(Nat)
  BY <1>1, LenProperties, ConcatProperties DEF OutliersTypeOK
<1>3. Triggered' = Triggered
  BY <1>0 DEF Triggered
<1>4. CASE TestSize
  <2>1. PICK to \in {"writing", "popping"} :
            /\ Move(ThePortal, "sizing", to)
            /\ to = "popping" => outlier_queue_size # 0
    BY <1>4 DEF TestSize
  <2>2. UNCHANGED <<reported, low_outliers, store_outliers, outlier_queue_sem, outlier,
                    outlier_queue, outlier_queue_size, delivered>>
    BY <1>4 DEF TestSize, outlierVars
  <2>3. to \in Labels /\ to # "undefined"
    BY <1>0
  <2>4. pc'[ThePortal] = to /\ \A u \in Threads : u # ThePortal => pc'[u] = pc[u]
    BY <1>0, <2>1, <2>3, MoveFacts
  <2>5. OutliersTypeOK' /\ OutliersInOrder'
    BY <1>1, <2>2 DEF OutliersTypeOK, OutliersInOrder
  <2>6. SizeInv' /\ HeldInv'
    BY <1>0, <1>1, <1>2, <2>1, <2>2, <2>4 DEF SizeInv, HeldInv, One
  <2>7. OutlierPermits'
    BY <1>0, <1>1, <1>3, <2>2, <2>4 DEF OutlierPermits, One
  <2>8. PopsQueuedOnly'
    BY <1>0, <1>1, <2>2, <2>3, <2>4 DEF PopsQueuedOnly
  <2>9. QED
    BY <2>5, <2>6, <2>7, <2>8 DEF OutlierInv
<1>5. CASE PopOutlier
  <2>1. pc[ThePortal] = "popping" /\ pc[TheExecutor] # "pushed"
    BY <1>5 DEF PopOutlier, Move, MutexFree
  <2>2. outlier_queue # <<>> /\ outlier_queue_size = Len(outlier_queue)
        /\ outlier_queue_size >= 1
    BY <1>1, <1>2, <2>1, QueueLengths DEF SizeInv, One
  <2>3. /\ Move(ThePortal, "popping", "writing")
        /\ delivered' = Append(delivered, Head(outlier_queue))
        /\ outlier_queue' = Tail(outlier_queue)
        /\ outlier_queue_size' = outlier_queue_size - 1
        /\ UNCHANGED <<reported, low_outliers, store_outliers, outlier_queue_sem, outlier>>
    BY <1>5, <2>2 DEF PopOutlier
  <2>4. pc'[ThePortal] = "writing" /\ \A u \in Threads : u # ThePortal => pc'[u] = pc[u]
    BY <1>0, <2>3, MoveFacts
  <2>5. /\ delivered' \in Seq(Nat) /\ outlier_queue' \in Seq(Nat)
        /\ Len(outlier_queue') = Len(outlier_queue) - 1
        /\ outlier_queue_size' \in Nat
    BY <1>2, <2>2, <2>3, QueueLengths
  <2>6. OutliersTypeOK'
    BY <1>1, <2>3, <2>5 DEF OutliersTypeOK
  <2>7. SizeInv' /\ HeldInv'
    BY <1>0, <1>1, <2>1, <2>2, <2>3, <2>4, <2>5 DEF SizeInv, HeldInv, One
  <2>8. OutlierPermits'
    BY <1>0, <1>1, <1>3, <2>3, <2>4 DEF OutlierPermits, One
  <2>9. PopsQueuedOnly'
    BY <1>0, <1>1, <2>3, <2>4 DEF PopsQueuedOnly
  <2>10. OutliersInOrder'
    <3>1. delivered' \o outlier_queue' = delivered \o outlier_queue
      BY <1>2, <2>2, <2>3, MoveHead
    <3>2. QED
      BY <1>1, <2>3, <3>1, OrderIsUpTo
  <2>11. QED
    BY <2>6, <2>7, <2>8, <2>9, <2>10 DEF OutlierInv
<1>6. CASE WaitForOutlier
  <2>1. /\ Move(TheExecutor, "waiting", "woken")
        /\ outlier_queue_sem > 0 /\ outlier_queue_sem' = outlier_queue_sem - 1
        /\ UNCHANGED <<reported, low_outliers, store_outliers, outlier, outlier_queue,
                       outlier_queue_size, delivered>>
    BY <1>6 DEF WaitForOutlier
  <2>2. /\ pc[TheExecutor] = "waiting" /\ pc'[TheExecutor] = "woken"
        /\ \A u \in Threads : u # TheExecutor => pc'[u] = pc[u]
    BY <1>0, <2>1, MoveFacts
  <2>3. OutliersTypeOK' /\ OutliersInOrder'
    BY <1>1, <1>2, <2>1 DEF OutliersTypeOK, OutliersInOrder
  <2>4. SizeInv' /\ HeldInv'
    BY <1>0, <1>1, <2>1, <2>2 DEF SizeInv, HeldInv, One
  <2>5. OutlierPermits'
    <3>1. /\ pc[TheExecutor] = "waiting" /\ pc'[TheExecutor] = "woken"
          /\ outlier_queue_sem \in Nat /\ outlier_queue_sem > 0
          /\ outlier_queue_sem' = outlier_queue_sem - 1
          /\ UNCHANGED <<store_outliers, low_outliers>>
      BY <1>2, <2>1, <2>2
    <3>2. Len(store_outliers) + low_outliers + One(Triggered) = outlier_queue_sem
      BY <1>1, <1>2, <3>1 DEF OutlierPermits, One
    <3>3. QED
      BY <1>3, <3>1, <3>2 DEF OutlierPermits, One
  <2>6. PopsQueuedOnly'
    BY <1>0, <1>1, <2>1, <2>2 DEF PopsQueuedOnly
  <2>7. QED
    BY <2>3, <2>4, <2>5, <2>6 DEF OutlierInv
<1>7. CASE TestWoken
  <2>1. PICK to \in {"leaving", "fetching"} :
            /\ Move(TheExecutor, "woken", to)
            /\ to = "leaving" <=> shutdown_flag[TheExecutor]
    BY <1>7 DEF TestWoken
  <2>2. UNCHANGED <<reported, low_outliers, store_outliers, outlier_queue_sem, outlier,
                    outlier_queue, outlier_queue_size, delivered>>
    BY <1>7 DEF TestWoken, outlierVars
  <2>3. to \in Labels /\ to # "undefined"
    BY <1>0
  <2>4. /\ pc[TheExecutor] = "woken" /\ pc'[TheExecutor] = to
        /\ \A u \in Threads : u # TheExecutor => pc'[u] = pc[u]
    BY <1>0, <2>1, <2>3, MoveFacts
  <2>5. Triggered => shutdown_flag[TheExecutor]
    BY <1>0, IndexFacts DEF Triggered, ShutdownInv, FlagInv, Asked, Past
  <2>6. OutliersTypeOK' /\ OutliersInOrder'
    BY <1>1, <2>2 DEF OutliersTypeOK, OutliersInOrder
  <2>7. SizeInv' /\ HeldInv'
    BY <1>0, <1>1, <2>2, <2>4 DEF SizeInv, HeldInv, One
  <2>8. OutlierPermits'
    BY <1>1, <1>3, <2>1, <2>2, <2>4, <2>5 DEF OutlierPermits, One
  <2>9. PopsQueuedOnly'
    BY <1>0, <1>1, <2>2, <2>3, <2>4 DEF PopsQueuedOnly
  <2>10. QED
    BY <2>6, <2>7, <2>8, <2>9 DEF OutlierInv
<1>8. CASE FetchOutlier
  <2>1. pc[TheExecutor] = "fetching" /\ outlier = <<>>
    BY <1>1, <1>8 DEF FetchOutlier, Move, HeldInv
  <2>2. CASE store_outliers = <<>>
    <3>1. /\ Move(TheExecutor, "fetching", "undefined")
          /\ UNCHANGED outlierVars
      BY <1>8, <2>2 DEF FetchOutlier, outlierVars
    <3>2. UNCHANGED <<reported, low_outliers, store_outliers, outlier_queue_sem, outlier,
                      outlier_queue, outlier_queue_size, delivered>>
      BY <3>1 DEF outlierVars
    <3>3. /\ pc'[TheExecutor] = "undefined"
          /\ \A u \in Threads : u # TheExecutor => pc'[u] = pc[u]
      BY <1>0, <3>1, MoveFacts
    <3>4. Len(store_outliers) = 0
      BY <2>2
    <3>5. low_outliers > 0
      BY <1>1, <1>2, <2>1, <3>4 DEF OutlierPermits, One
    <3>6. OutliersTypeOK' /\ OutliersInOrder'
      BY <1>1, <3>2 DEF OutliersTypeOK, OutliersInOrder
    <3>7. SizeInv' /\ HeldInv'
      BY <1>0, <1>1, <2>1, <3>2, <3>3 DEF SizeInv, HeldInv, One
    <3>8. OutlierPermits'
      BY <3>3 DEF OutlierPermits
    <3>9. PopsQueuedOnly'
      BY <1>0, <1>1, <3>2, <3>3, <3>5 DEF PopsQueuedOnly
    <3>10. QED
      BY <3>6, <3>7, <3>8, <3>9 DEF OutlierInv
  <2>3. CASE store_outliers # <<>>
    <3>1. /\ Move(TheExecutor, "fetching", "pushing")
          /\ outlier' = <<Head(store_outliers)>>
          /\ store_outliers' = Tail(store_outliers)
          /\ UNCHANGED <<reported, low_outliers, outlier_queue_sem, outlier_queue,
                         outlier_queue_size, delivered>>
      BY <1>8, <2>3 DEF FetchOutlier
    <3>2. /\ pc'[TheExecutor] = "pushing"
          /\ \A u \in Threads : u # TheExecutor => pc'[u] = pc[u]
      BY <1>0, <3>1, MoveFacts
    <3>3. /\ store_outliers' \in Seq(Nat) /\ Len(store_outliers') = Len(store_outliers) - 1
          /\ Head(store_outliers) \in Nat
      BY <1>2, <2>3, <3>1, QueueLengths
    <3>4. OutliersTypeOK'
      BY <1>1, <3>1, <3>3 DEF OutliersTypeOK
    <3>5. SizeInv' /\ HeldInv'
      BY <1>0, <1>1, <2>1, <3>1, <3>2 DEF SizeInv, HeldInv, One
    <3>6. OutlierPermits'
      BY <1>1, <1>2, <1>3, <2>1, <3>1, <3>2, <3>3 DEF OutlierPermits, One
    <3>7. PopsQueuedOnly'
      BY <1>0, <1>1, <3>1, <3>2 DEF PopsQueuedOnly
    <3>8. OutliersInOrder'
      <4>1. (delivered \o outlier_queue) \o <<Head(store_outliers)>> \o Tail(store_outliers)
            = (delivered \o outlier_queue) \o <<>> \o store_outliers
        BY <1>2, <2>3, TakeHead
      <4>2. QED
        BY <1>1, <2>1, <3>1, <4>1, OrderIsUpTo
    <3>9. QED
      BY <3>4, <3>5, <3>6, <3>7, <3>8 DEF OutlierInv
  <2>4. QED
    BY <2>2, <2>3
<1>9. CASE PushOutlier
  <2>1. /\ Move(TheExecutor, "pushing", "pushed")
        /\ outlier_queue' = outlier_queue \o outlier /\ outlier' = <<>>
        /\ UNCHANGED <<reported, low_outliers, store_outliers, outlier_queue_sem, outlier_queue_size,
                       delivered>>
    BY <1>9 DEF PushOutlier
  <2>2. /\ pc[TheExecutor] = "pushing" /\ pc'[TheExecutor] = "pushed"
        /\ \A u \in Threads : u # TheExecutor => pc'[u] = pc[u]
    BY <1>0, <2>1, MoveFacts
  <2>3. outlier_queue' \in Seq(Nat) /\ Len(outlier_queue') = Len(outlier_queue) + 1
    <3>1. /\ outlier_queue \o outlier \in Seq(Nat)
          /\ Len(outlier_queue \o outlier) = Len(outlier_queue) + Len(outlier)
      BY <1>2, PutDown
    <3>2. Len(outlier) = 1
      BY <1>1, <2>2 DEF HeldInv
    <3>3. QED
      BY <2>1, <3>1, <3>2
  <2>4. <<>> \in Seq(Nat)
    OBVIOUS
  <2>5. OutliersTypeOK'
    BY <1>1, <2>1, <2>3, <2>4 DEF OutliersTypeOK
  <2>6. SizeInv' /\ HeldInv'
    BY <1>0, <1>1, <1>2, <2>1, <2>2, <2>3 DEF SizeInv, HeldInv, One
  <2>7. OutlierPermits'
    BY <1>1, <1>3, <2>1, <2>2 DEF OutlierPermits, One
  <2>8. PopsQueuedOnly'
    BY <1>0, <1>1, <2>1, <2>2 DEF PopsQueuedOnly
  <2>9. OutliersInOrder'
    <3>1. delivered \o (outlier_queue \o outlier) \o <<>>
          = delivered \o outlier_queue \o outlier
      <4>1. /\ outlier \in Seq(Nat) /\ outlier_queue \in Seq(Nat) /\ delivered \in Seq(Nat)
        BY <1>2
      <4>2. QED
        BY ONLY <4>1, PutDown
    <3>2. QED
      BY <1>1, <2>1, <3>1, OrderIsUpTo
  <2>10. QED
    BY <2>5, <2>6, <2>7, <2>8, <2>9 DEF OutlierInv
<1>10. CASE CountOutlier
  <2>1. /\ Move(TheExecutor, "pushed", "waiting")
        /\ outlier_queue_size' = outlier_queue_size + 1
        /\ UNCHANGED <<reported, low_outliers, store_outliers, outlier_queue_sem, outlier,
                       outlier_queue, delivered>>
    BY <1>10 DEF CountOutlier
  <2>2. /\ pc[TheExecutor] = "pushed" /\ pc'[TheExecutor] = "waiting"
        /\ \A u \in Threads : u # TheExecutor => pc'[u] = pc[u]
    BY <1>0, <2>1, MoveFacts
  <2>3. OutliersTypeOK' /\ OutliersInOrder'
    BY <1>1, <1>2, <2>1 DEF OutliersTypeOK, OutliersInOrder
  <2>4. SizeInv' /\ HeldInv'
    BY <1>0, <1>1, <1>2, <2>1, <2>2 DEF SizeInv, HeldInv, One
  <2>5. OutlierPermits'
    BY <1>1, <1>3, <2>1, <2>2 DEF OutlierPermits, One
  <2>6. PopsQueuedOnly'
    BY <1>0, <1>1, <2>1, <2>2 DEF PopsQueuedOnly
  <2>7. QED
    BY <2>3, <2>4, <2>5, <2>6 DEF OutlierInv
<1>11. CASE ReportOutlier
  <2>1. /\ outlier_queue_sem' = outlier_queue_sem + 1
        /\ UNCHANGED <<pc, outlier, outlier_queue, outlier_queue_size, delivered>>
    BY <1>11 DEF ReportOutlier, threadVars
  <2>2. CASE /\ reported' = reported + 1
             /\ store_outliers' = Append(store_outliers, reported + 1)
             /\ low_outliers' = low_outliers
    <3>1. /\ store_outliers' \in Seq(Nat)
          /\ Len(store_outliers') = Len(store_outliers) + 1
          /\ reported + 1 \in Nat
      BY <1>2, <2>2, QueueLengths
    <3>2. OutliersTypeOK'
      BY <1>1, <1>2, <2>1, <2>2, <3>1 DEF OutliersTypeOK
    <3>3. SizeInv' /\ HeldInv' /\ PopsQueuedOnly'
      BY <1>1, <2>1, <2>2 DEF SizeInv, HeldInv, PopsQueuedOnly
    <3>4. OutlierPermits'
      BY <1>1, <1>2, <1>3, <2>1, <2>2, <3>1 DEF OutlierPermits, One
    <3>5. OutliersInOrder'
      <4>1. (delivered \o outlier_queue) \o outlier \o Append(store_outliers, reported + 1)
            = ((delivered \o outlier_queue) \o outlier \o store_outliers) \o <<reported + 1>>
        <5> DEFINE h == delivered \o outlier_queue
                   e == reported + 1
        <5>1. h \in Seq(Nat) /\ outlier \in Seq(Nat) /\ store_outliers \in Seq(Nat) /\ e \in Nat
          BY <1>2, <3>1
        <5> HIDE DEF h, e
        <5>2. h \o outlier \o Append(store_outliers, e) = (h \o outlier \o store_outliers) \o <<e>>
          BY ONLY <5>1, AppendLast
        <5>3. QED
          BY <5>2 DEF h, e
      <4>2. UpTo(reported) \o <<reported + 1>> = UpTo(reported + 1)
        BY <1>2, UpToNext
      <4>3. QED
        BY <1>1, <2>1, <2>2, <4>1, <4>2, OrderIsUpTo
    <3>6. QED
      BY <3>2, <3>3, <3>4, <3>5 DEF OutlierInv
  <2>3. CASE /\ low_outliers' = low_outliers + 1
             /\ UNCHANGED <<reported, store_outliers>>
    <3>1. OutliersTypeOK' /\ OutliersInOrder'
      BY <1>1, <1>2, <2>1, <2>3 DEF OutliersTypeOK, OutliersInOrder
    <3>2. SizeInv' /\ HeldInv' /\ PopsQueuedOnly'
      BY <1>1, <1>2, <2>1, <2>3 DEF SizeInv, HeldInv, PopsQueuedOnly
    <3>3. OutlierPermits'
      BY <1>1, <1>2, <1>3, <2>1, <2>3 DEF OutlierPermits, One
    <3>4. QED
      BY <3>1, <3>2, <3>3 DEF OutlierInv
  <2>4. QED
    BY <1>11, <2>2, <2>3 DEF ReportOutlier
<1>12. QED
  BY <1>4, <1>5, <1>6, <1>7, <1>8, <1>9, <1>10, <1>11 DEF ControlStep

(* The orchestrator starts the two threads and posts the last permit. *)
LEMMA OrchestratorKeepsOutlierInv ==
  ASSUME ShutdownInv, OutlierInv, OrchestratorStep
  PROVE  OutlierInv'
<1>0. /\ ThreadsTypeOK /\ StageInv
      /\ orchestrator.i \in 1 .. N /\ N \in Nat /\ P \in Nat /\ 1 <= P /\ P < N
  BY CurrentThread DEF ShutdownInv
<1>1. CASE LaunchThread
  <2> DEFINE new == LaunchOrder[orchestrator.i]
  <2>1. /\ orchestrator.at = "launch" /\ orchestrator'.at \in {"launch", "wait"}
        /\ new \in Threads /\ pc[new] = "unborn"
    BY <1>0, <1>1, StageSteps, LaunchFacts DEF StageStep, ShutdownInv, UnbornInv
  <2>2. pc' = [pc EXCEPT ![new] = FirstLabel(new)] /\ UNCHANGED outlierVars
    BY <1>1 DEF LaunchThread, Goto
  <2>3. FirstLabel(new) \in {"created", "waiting", "running"}
    BY DEF FirstLabel
  <2> HIDE DEF new
  <2>4. /\ pc'[new] = FirstLabel(new)
        /\ \A u \in Threads : u # new => pc'[u] = pc[u]
    BY <1>0, <2>1, <2>2 DEF ThreadsTypeOK
  <2>5. "unborn" \notin Control /\ "created" \notin Control /\ "running" \notin Control
    BY DEF Control
  <2>6. \A u \in Threads :
             /\ \/ pc'[u] = pc[u]
                \/ pc[u] \notin Control /\ pc'[u] \notin Control
                \/ pc[u] = "unborn" /\ pc'[u] = "waiting"
             /\ pc'[u] = "unborn" => pc[u] = "unborn"
    BY <2>1, <2>3, <2>4, <2>5
  <2>7. Triggered' = Triggered
    BY <2>1 DEF Triggered
  <2>8. QED
    BY <2>2, <2>6, <2>7, AwayKeepsOutlierInv
<1>2. CASE TriggerExecutor
  <2>1. /\ orchestrator.at = "trigger" /\ orchestrator'.at = "await"
        /\ orchestrator'.i = orchestrator.i
    BY <1>0, <1>2, StageSteps DEF StageStep
  <2>2. /\ UNCHANGED <<pc, reported, low_outliers, store_outliers, outlier, outlier_queue,
                       outlier_queue_size, delivered>>
        /\ outlier_queue_sem' = outlier_queue_sem + One(Current = TheExecutor)
    BY <1>2 DEF TriggerExecutor, threadVars, One
  <2>3. /\ ~Triggered /\ (Triggered' <=> Current = TheExecutor)
        /\ outlier_queue_sem \in Nat /\ outlier_queue_sem' \in Nat
    BY <1>0, <2>1, <2>2, IndexFacts, CurrentThread
       DEF Triggered, OutlierInv, OutliersTypeOK, One
  <2>4. OutliersTypeOK' /\ OutliersInOrder' /\ SizeInv' /\ HeldInv' /\ PopsQueuedOnly'
    BY <2>2, <2>3 DEF OutlierInv, OutliersTypeOK, OutliersInOrder, SizeInv, HeldInv,
       PopsQueuedOnly
  <2>5. OutlierPermits'
    <3>1. Len(store_outliers) \in Nat /\ low_outliers \in Nat
      BY LenProperties DEF OutlierInv, OutliersTypeOK
    <3>2. QED
      BY <2>2, <2>3, <3>1 DEF OutlierInv, OutlierPermits, One
  <2>6. QED
    BY <2>4, <2>5 DEF OutlierInv
<1>3. CASE ~LaunchThread /\ ~TriggerExecutor
  <2>1. UNCHANGED outlierVars /\ pc' = pc
    BY <1>3 DEF OrchestratorStep, LaunchThrows, WaitProcessShutdown, SetShutdownFlag,
       CloseAcceptor, ShutdownSocket, WaitShutdown, Join, threadVars, notThreadVars
  <2>2. Triggered' = Triggered
    <3>1. \/ /\ orchestrator'.i = orchestrator.i
             /\ \/ /\ orchestrator.at \in {"launch", "wait", "flag", "acceptor"}
                   /\ orchestrator'.at \in {"aborted", "flag", "acceptor", "trigger", "socket"}
                \/ orchestrator.at = "socket" /\ orchestrator'.at \in {"crashed", "await"}
                   /\ orchestrator.i # N
                \/ orchestrator.at = "await" /\ orchestrator'.at = "join_portals"
                   /\ orchestrator.i # N
                \/ orchestrator.at = "await" /\ orchestrator'.at = "join_executors"
                \/ orchestrator.at = "join_executors" /\ orchestrator'.at = "exited"
          \/ /\ orchestrator.i # N /\ orchestrator'.at = "flag"
      BY <1>0, <1>3, StageSteps DEF OrchestratorStep, StageStep, StageInv
    <3>2. QED
      BY <3>1 DEF Triggered
  <2>3. QED
    BY <2>1, <2>2, AwayKeepsOutlierInv
<1>4. QED
  BY <1>1, <1>2, <1>3

(* The invariant of the control pipeline is kept by every step. *)
LEMMA OutlierInvStep ==
  ASSUME ShutdownInv, OutlierInv, [Next]_vars
  PROVE  OutlierInv'
<1>1. CASE UNCHANGED vars
  <2>1. UNCHANGED outlierVars /\ UNCHANGED <<orchestrator, pc>>
    BY <1>1 DEF vars, threadVars
  <2>2. Triggered' = Triggered
    BY <2>1 DEF Triggered
  <2>3. QED
    BY <2>1, <2>2, AwayKeepsOutlierInv
<1>2. CASE ControlStep \/ ReportOutlier
  BY <1>2, ControlKeepsOutlierInv
<1>3. CASE OrchestratorStep
  BY <1>3, OrchestratorKeepsOutlierInv
<1>4. CASE \/ \E t \in Threads : ErrorStep(t)
           \/ \E p \in Portals : PortalStep(p) \/ Serve(p) \/ ClientStep(p)
           \/ \E e \in Executors : ExecutorStops(e) \/ ExecutorThrows(e)
  <2>1. ThreadEffect /\ AwayFromControl
    BY <1>4, ThreadStepEffect DEF ShutdownInv
  <2>2. Triggered' = Triggered
    BY <2>1 DEF ThreadEffect, Triggered
  <2>3. \A u \in Threads : pc'[u] = "unborn" => pc[u] = "unborn"
    BY <2>1 DEF ThreadEffect
  <2>4. QED
    BY <2>1, <2>2, <2>3, AwayKeepsOutlierInv DEF AwayFromControl
<1>5. QED
  BY <1>1, <1>2, <1>3, <1>4 DEF Next

(* The invariant of the control pipeline. *)
THEOREM OutlierInvariant == Spec => []OutlierInv
<1>1. Init => OutlierInv
  <2> SUFFICES ASSUME Init PROVE OutlierInv
    OBVIOUS
  <2>1. /\ reported = 0 /\ low_outliers = 0 /\ store_outliers = <<>>
        /\ outlier_queue_sem = 0
        /\ outlier = <<>> /\ outlier_queue = <<>> /\ outlier_queue_size = 0
        /\ delivered = <<>> /\ orchestrator.at = "launch"
        /\ \A t \in Threads : pc[t] = "unborn"
        /\ ThePortal \in Threads /\ TheExecutor \in Threads
    BY IndexFacts DEF Init
  <2>2. <<>> \in Seq(Nat) /\ Len(<<>>) = 0 /\ <<>> \o <<>> \o <<>> \o <<>> = UpTo(0)
    BY DEF UpTo
  <2>3. OutliersTypeOK
    BY <2>1, <2>2 DEF OutliersTypeOK
  <2>4. SizeInv /\ HeldInv /\ OutlierPermits
    BY <2>1, <2>2 DEF SizeInv, HeldInv, OutlierPermits, One, Triggered
  <2>5. PopsQueuedOnly
    BY <2>1 DEF PopsQueuedOnly
  <2>6. OutliersInOrder
    BY <2>1, <2>2, OrderIsUpTo
  <2>7. QED
    BY <2>3, <2>4, <2>5, <2>6 DEF OutlierInv
<1>2. ShutdownInv /\ OutlierInv /\ [Next]_vars => OutlierInv'
  BY OutlierInvStep
<1>3. QED
  BY <1>1, <1>2, ShutdownInvariant, PTL DEF Spec

(* Neither end of the control pipeline pops an empty queue, as long as no  *)
(* low outlier was reported.                                               *)
THEOREM QueuedOnlyCorrect == Spec => []PopsQueuedOnly
  BY OutlierInvariant, PTL DEF OutlierInv

(* High outliers reach the client of the control portal in the order in    *)
(* which the store queued them, once each.                                 *)
THEOREM OutlierOrderCorrect == Spec => []OutliersInOrder
  BY OutlierInvariant, PTL DEF OutlierInv

================================================================================
