------------------------- MODULE IngestionPipelineProofs -------------------------
(***************************************************************************)
(* Proofs about IngestionPipeline for any number of requests: a permit of  *)
(* ingestion_queue_sem stands for a queued request or for the shutdown,    *)
(* the executor never pops an empty queue, and requests are handled in     *)
(* order, once each.                                                       *)
(***************************************************************************)
EXTENDS IngestionPipeline, SequenceLemmas

One(holds) == IF holds THEN 1 ELSE 0

(* The type invariant of the pipeline. *)
PipelineTypeOK ==
    /\ portal \in {"created", "accepting", "blocked", "test", "reading", "locking",
                   "pushed", "posted", "stopped"}
    /\ executor \in {"waiting", "woken", "popping", "handling", "leaving",
                     "stopped", "undefined", "crashed"}
    /\ ingestion_queue \in Seq(Nat)
    /\ permits \in Nat
    /\ waiting \in SUBSET {"executor"}
    /\ ingestion \in Seq(Nat)
    /\ portal_flag \in BOOLEAN
    /\ shutdown_flag \in BOOLEAN
    /\ orchestrator \in {"running", "acceptor", "socket", "closing", "crashed", "others",
                         "portals", "flagged", "posted", "done"}
    /\ global_shutdown \in BOOLEAN
    /\ received \in 0 .. MaxRequests
    /\ handled \in Seq(Nat)

(* The executor's flag is up from the moment shutdown sets it, and so      *)
(* before the permit of the shutdown exists.                               *)
FlagBeforePermit ==
    shutdown_flag <=> orchestrator \in {"flagged", "posted", "done"}

(* An executor that is about to pop took the permit of a request: it saw   *)
(* the flag down, so the permit of the shutdown, if there is one, is still *)
(* in the semaphore.                                                       *)
ShutdownPermitLeft ==
    executor = "popping" /\ orchestrator \in {"posted", "done"} => permits >= 1

(* The executor holds a request only while it handles it, or failed to.    *)
HoldsOnlyHandled ==
    executor \in {"waiting", "woken", "popping", "undefined"} => ingestion = <<>>

(* What is read and not yet pushed is request number received. *)
ReadBeforePush == portal = "locking" => received >= 1

(* The request the portal has read and not yet pushed does not count. *)
Queued == received - One(portal = "locking")

(* PermitsMatchQueue with its local definition made global. *)
PermitsMatch ==
    executor \in {"waiting", "woken", "popping", "handling"} =>
        Len(ingestion_queue) + One(orchestrator \in {"posted", "done"})
        = permits + One(executor \in {"woken", "popping"}) + One(portal = "pushed")

PermitInv ==
    PipelineTypeOK /\ FlagBeforePermit /\ ShutdownPermitLeft /\ PermitsMatch /\ PopsQueued

OrderInv == HoldsOnlyHandled /\ ReadBeforePush /\ InOrderOnce

--------------------------------------------------------------------------------
(* What each action does to the semaphore *)

(* The executor takes a permit, or one is added, or none moves. *)
LEMMA PermitSteps ==
  ASSUME PipelineTypeOK
  PROVE  /\ Sem!Post("portal") => permits' = permits + 1 /\ waiting' = waiting
         /\ Sem!Post("orchestrator") => permits' = permits + 1 /\ waiting' = waiting
         /\ Sem!Suspend("executor") =>
               permits' = permits /\ waiting' \in SUBSET {"executor"}
         /\ Sem!Pass("executor") \/ Sem!Resume("executor") =>
               /\ permits > 0 /\ permits' = permits - 1
               /\ waiting' \in SUBSET {"executor"}
  BY DEF PipelineTypeOK, Sem!Post, Sem!Suspend, Sem!Pass, Sem!Resume

--------------------------------------------------------------------------------

(* Every variable of the pipeline stays in its type. *)
LEMMA PipelineTypeStep ==
  ASSUME PipelineTypeOK, ReadBeforePush, [Next]_vars
  PROVE  PipelineTypeOK'
<1>0. /\ permits \in Nat
      /\ Sem!Post("portal") \/ Sem!Post("orchestrator") =>
            permits' \in Nat /\ waiting' = waiting
      /\ Sem!Suspend("executor") => permits' \in Nat /\ waiting' \in SUBSET {"executor"}
      /\ Sem!Pass("executor") \/ Sem!Resume("executor") =>
            permits' \in Nat /\ waiting' \in SUBSET {"executor"}
  <2>1. permits \in Nat
    BY DEF PipelineTypeOK
  <2>2. QED
    BY <2>1, PermitSteps
<1> USE PipelineAssumption DEF PipelineTypeOK, notExecutorVars, semVars, shutdownVars,
                              othersUnchanged
<1>1. CASE PortalStep
  <2>1. CASE TestPortalFlag
    BY <2>1 DEF TestPortalFlag
  <2>2. CASE Push
    <3>1. ingestion_queue' = Append(ingestion_queue, received) /\ received \in Nat
      BY <2>2 DEF Push, Pushed
    <3>2. ingestion_queue' \in Seq(Nat)
      BY <3>1, AppendProperties
    <3>3. QED
      BY <2>2, <3>2 DEF Push
  <2>3. CASE PostRequest
    BY <2>3, <1>0 DEF PostRequest
  <2>4. CASE Acknowledge
    BY <2>4 DEF Acknowledge
  <2>5. CASE MakeSocket
    BY <2>5 DEF MakeSocket
  <2>6. CASE CallAccept
    BY <2>6 DEF CallAccept
  <2>7. QED
    BY <1>1, <2>1, <2>2, <2>3, <2>4, <2>5, <2>6 DEF PortalStep
<1>2. CASE ReadPacket \/ Accepted
  <2>1. CASE ReadPacket
    BY <2>1 DEF ReadPacket
  <2>2. CASE Accepted
    BY <2>2 DEF Accepted
  <2>3. QED
    BY <1>2, <2>1, <2>2
<1>3. CASE SocketError
  BY <1>3 DEF SocketError
<1>4. CASE ExecutorStep
  <2>1. CASE TakePermit
    BY <2>1, <1>0 DEF TakePermit
  <2>2. CASE TestShutdown
    BY <2>2 DEF TestShutdown
  <2>3. CASE Pop
    <3>1. CASE ingestion_queue = <<>>
      BY <2>3, <3>1 DEF Pop
    <3>2. CASE ingestion_queue # <<>>
      <4>1. Head(ingestion_queue) \in Nat /\ Tail(ingestion_queue) \in Seq(Nat)
        BY <3>2, HeadTailProperties
      <4>2. /\ ingestion' = <<Head(ingestion_queue)>>
            /\ ingestion_queue' = Tail(ingestion_queue)
        BY <2>3, <3>2 DEF Pop
      <4>3. ingestion' \in Seq(Nat) /\ ingestion_queue' \in Seq(Nat)
        BY <4>1, <4>2
      <4>4. QED
        BY <2>3, <3>2, <4>3 DEF Pop
    <3>3. QED
      BY <3>1, <3>2
  <2>4. CASE Handle
    <3>1. handled' = handled \o ingestion /\ ingestion' = <<>>
      BY <2>4 DEF Handle
    <3>2. handled' \in Seq(Nat) /\ ingestion' \in Seq(Nat)
      BY <3>1, ConcatProperties
    <3>3. QED
      BY <2>4, <3>2 DEF Handle
  <2>5. CASE HandleThrow \/ HandleCrash
    BY <2>5 DEF HandleThrow, HandleCrash
  <2>6. CASE Leave
    BY <2>6 DEF Leave
  <2>7. QED
    BY <1>4, <2>1, <2>2, <2>3, <2>4, <2>5, <2>6 DEF ExecutorStep
<1>5. CASE Suspend
  BY <1>5, <1>0 DEF Suspend
<1>6. CASE ReportElsewhere
  BY <1>6 DEF ReportElsewhere
<1>7. CASE OrchestratorStep \/ OthersStopped
  <2>1. CASE PostShutdown
    BY <2>1, <1>0 DEF PostShutdown
  <2>2. CASE SetPortalFlag
    BY <2>2 DEF SetPortalFlag
  <2>3. CASE CloseAcceptor
    BY <2>3 DEF CloseAcceptor
  <2>4. CASE ShutdownSocket
    BY <2>4 DEF ShutdownSocket
  <2>5. CASE PortalStopped
    BY <2>5 DEF PortalStopped
  <2>6. CASE OthersStopped
    BY <2>6 DEF OthersStopped
  <2>7. CASE SetShutdownFlag
    BY <2>7 DEF SetShutdownFlag
  <2>8. CASE ShutdownDone
    BY <2>8 DEF ShutdownDone
  <2>9. QED
    BY <1>7, <2>1, <2>2, <2>3, <2>4, <2>5, <2>6, <2>7, <2>8
       DEF OrchestratorStep
<1>8. CASE UNCHANGED vars
  BY <1>8 DEF vars
<1>9. QED
  BY <1>1, <1>2, <1>3, <1>4, <1>5, <1>6, <1>7, <1>8 DEF Next

(* How many requests are queued after each step that touches the queue. *)
LEMMA QueueSteps ==
  ASSUME PipelineTypeOK
  PROVE  /\ Len(ingestion_queue) \in Nat
         /\ Push => Len(ingestion_queue') = Len(ingestion_queue) + 1
         /\ Pop /\ ingestion_queue # <<>> =>
               Len(ingestion_queue') = Len(ingestion_queue) - 1
         /\ ingestion_queue = <<>> <=> Len(ingestion_queue) = 0
<1>1. ingestion_queue \in Seq(Nat) /\ received \in Nat
  BY PipelineAssumption DEF PipelineTypeOK
<1>2. Len(Append(ingestion_queue, received)) = Len(ingestion_queue) + 1
  BY <1>1, AppendProperties
<1>3. ingestion_queue # <<>> => Len(Tail(ingestion_queue)) = Len(ingestion_queue) - 1
  BY <1>1, HeadTailProperties
<1>4. QED
  BY <1>1, <1>2, <1>3, LenProperties, EmptySeq DEF Push, Pop, Pushed

(* PermitInv is inductive.  The heart of it is Pop: PermitsMatch counts    *)
(* one permit more than the semaphore holds, the one the executor took;    *)
(* with the mutex free no push is uncounted, and if the shutdown's permit  *)
(* exists it is still in the semaphore, so the queue is not empty.         *)
LEMMA PermitInvStep ==
  ASSUME PermitInv, ReadBeforePush, [Next]_vars
  PROVE  PermitInv'
<1>1. PipelineTypeOK /\ PipelineTypeOK'
  BY PipelineTypeStep DEF PermitInv
<1>2. /\ Len(ingestion_queue) \in Nat /\ permits \in Nat /\ permits' \in Nat
      /\ shutdown_flag \in BOOLEAN
  BY <1>1, QueueSteps DEF PipelineTypeOK
<1>3. FlagBeforePermit'
  BY <1>1 DEF PermitInv, FlagBeforePermit, PipelineTypeOK, Next, vars, PortalStep,
     MakeSocket, CallAccept, Accepted, TestPortalFlag, Push, PostRequest, Acknowledge, ReadPacket, SocketError,
     ExecutorStep, TakePermit, TestShutdown, Pop, Handle, HandleThrow, HandleCrash, Leave, Suspend,
     ReportElsewhere, OrchestratorStep, SetPortalFlag, CloseAcceptor, ShutdownSocket,
     PortalStopped, OthersStopped, SetShutdownFlag, PostShutdown, ShutdownDone, notExecutorVars, shutdownVars, othersUnchanged
<1>4. Pop => ingestion_queue # <<>>
  BY <1>1, <1>2, QueueSteps DEF Pop, MutexFree, PermitInv, PermitsMatch,
     ShutdownPermitLeft, One
<1>5. ShutdownPermitLeft' /\ PermitsMatch' /\ PopsQueued'
  <2> USE <1>2 DEF PermitInv, FlagBeforePermit, ShutdownPermitLeft, PermitsMatch, One,
                   PopsQueued, notExecutorVars, semVars, shutdownVars, othersUnchanged
  <2>1. CASE PortalStep
    <3>1. CASE TestPortalFlag
      BY <3>1 DEF TestPortalFlag
    <3>2. CASE Push
      BY <3>2, <1>1, QueueSteps DEF Push
    <3>3. CASE PostRequest
      BY <3>3, <1>1, PermitSteps DEF PostRequest
    <3>4. CASE Acknowledge
      BY <3>4 DEF Acknowledge
    <3>5. CASE MakeSocket \/ CallAccept
      BY <3>5 DEF MakeSocket, CallAccept
    <3>6. QED
      BY <2>1, <3>1, <3>2, <3>3, <3>4, <3>5 DEF PortalStep
  <2>2. CASE ReadPacket \/ Accepted
    BY <2>2 DEF ReadPacket, Accepted
  <2>3. CASE SocketError
    BY <2>3 DEF SocketError
  <2>4. CASE ExecutorStep
    <3>1. CASE TakePermit
      BY <3>1, <1>1, PermitSteps DEF TakePermit
    <3>2. CASE TestShutdown
      BY <3>2 DEF TestShutdown
    <3>3. CASE Pop
      BY <3>3, <1>1, <1>4, QueueSteps DEF Pop
    <3>4. CASE Handle
      BY <3>4 DEF Handle
    <3>5. CASE HandleThrow \/ HandleCrash
      BY <3>5 DEF HandleThrow, HandleCrash
    <3>6. CASE Leave
      BY <3>6 DEF Leave
    <3>7. QED
      BY <2>4, <3>1, <3>2, <3>3, <3>4, <3>5, <3>6 DEF ExecutorStep
  <2>5. CASE Suspend
    BY <2>5, <1>1, PermitSteps DEF Suspend
  <2>6. CASE ReportElsewhere
    BY <2>6 DEF ReportElsewhere
  <2>7. CASE OrchestratorStep \/ OthersStopped
    <3>1. CASE PostShutdown
      BY <3>1, <1>1, PermitSteps DEF PostShutdown
    <3>2. CASE ~PostShutdown
      BY <2>7, <3>2 DEF OrchestratorStep, SetPortalFlag, CloseAcceptor, ShutdownSocket,
         PortalStopped, OthersStopped, SetShutdownFlag, ShutdownDone
    <3>3. QED
      BY <3>1, <3>2
  <2>8. CASE UNCHANGED vars
    BY <2>8 DEF vars
  <2>9. QED
    BY <2>1, <2>2, <2>3, <2>4, <2>5, <2>6, <2>7, <2>8 DEF Next
<1>6. QED
  BY <1>1, <1>3, <1>5 DEF PermitInv

(* OrderInv is inductive: a push adds the last request read, a pop and the *)
(* end of the handling move the oldest one to the left.                    *)
LEMMA OrderInvStep ==
  ASSUME PermitInv, OrderInv, [Next]_vars
  PROVE  OrderInv'
<1>1. /\ handled \in Seq(Nat) /\ ingestion \in Seq(Nat) /\ ingestion_queue \in Seq(Nat)
      /\ received \in Nat
  BY PipelineAssumption DEF PermitInv, PipelineTypeOK
<1>2. HoldsOnlyHandled' /\ ReadBeforePush'
  BY <1>1 DEF OrderInv, HoldsOnlyHandled, ReadBeforePush, Next, vars, PortalStep,
     MakeSocket, CallAccept, Accepted, TestPortalFlag, Push, PostRequest, Acknowledge, ReadPacket, SocketError,
     ExecutorStep, TakePermit, TestShutdown, Pop, Handle, HandleThrow, HandleCrash, Leave, Suspend,
     ReportElsewhere, OrchestratorStep, SetPortalFlag, CloseAcceptor, ShutdownSocket,
     PortalStopped, OthersStopped, SetShutdownFlag, PostShutdown, ShutdownDone, notExecutorVars, shutdownVars, othersUnchanged
<1>3. handled \o ingestion \o ingestion_queue = UpTo(Queued)
  BY DEF OrderInv, InOrderOnce, UpTo, Queued, One
<1>4. InOrderOnce' <=> (handled \o ingestion \o ingestion_queue)' = UpTo(Queued')
  BY DEF InOrderOnce, UpTo, Queued, One
<1>5. CASE Push
  <2>1. /\ ingestion_queue' = Append(ingestion_queue, received)
        /\ handled' = handled /\ ingestion' = ingestion
        /\ received' = received /\ portal = "locking" /\ portal' = "pushed"
    BY <1>5 DEF Push, Pushed
  <2>2. received >= 1
    BY <2>1 DEF OrderInv, ReadBeforePush
  <2>3. Queued = received - 1 /\ Queued \in Nat /\ Queued' = Queued + 1
        /\ received = Queued + 1
    BY <2>1, <2>2, <1>1 DEF Queued, One
  <2>4. (handled \o ingestion \o ingestion_queue)'
        = (handled \o ingestion \o ingestion_queue) \o <<received>>
    BY <2>1, <1>1, AppendLast
  <2>5. UpTo(Queued) \o <<Queued + 1>> = UpTo(Queued + 1)
    BY <2>3, UpToNext
  <2>6. QED
    BY <1>2, <1>3, <1>4, <2>3, <2>4, <2>5 DEF OrderInv
<1>6. CASE Pop
  <2>1. CASE ingestion_queue = <<>>
    <3>1. UNCHANGED <<handled, ingestion, ingestion_queue, portal, received>>
      BY <1>6, <2>1 DEF Pop, notExecutorVars
    <3>2. QED
      BY <1>2, <1>3, <1>4, <3>1 DEF OrderInv, Queued
  <2>2. CASE ingestion_queue # <<>>
    <3>1. /\ ingestion' = <<Head(ingestion_queue)>>
          /\ ingestion_queue' = Tail(ingestion_queue)
          /\ UNCHANGED <<handled, portal, received>>
      BY <1>6, <2>2 DEF Pop, notExecutorVars
    <3>2. ingestion = <<>>
      BY <1>6 DEF Pop, OrderInv, HoldsOnlyHandled
    <3>3. (handled \o ingestion \o ingestion_queue)'
          = handled \o ingestion \o ingestion_queue
      BY <3>1, <3>2, <2>2, <1>1, TakeHead
    <3>4. QED
      BY <1>2, <1>3, <1>4, <3>1, <3>3 DEF OrderInv, Queued
  <2>3. QED
    BY <2>1, <2>2
<1>7. CASE Handle
  <2>1. /\ handled' = handled \o ingestion /\ ingestion' = <<>>
        /\ UNCHANGED <<ingestion_queue, portal, received>>
    BY <1>7 DEF Handle, notExecutorVars
  <2>2. handled \o ingestion \in Seq(Nat)
    BY <1>1, ConcatProperties
  <2>3. (handled \o ingestion) \o <<>> = handled \o ingestion
    BY <2>2, ConcatEmptySeq
  <2>4. QED
    BY <1>2, <1>3, <1>4, <2>1, <2>3 DEF OrderInv, Queued
<1>8. CASE ~Push /\ ~Pop /\ ~Handle
  <2>1. UNCHANGED <<handled, ingestion, ingestion_queue>>
    BY <1>8 DEF Next, vars, PortalStep,
       MakeSocket, CallAccept, Accepted, TestPortalFlag, PostRequest, Acknowledge, ReadPacket, SocketError,
       ExecutorStep, TakePermit, TestShutdown, HandleThrow, HandleCrash, Leave, Suspend,
       ReportElsewhere, OrchestratorStep, SetPortalFlag, CloseAcceptor, ShutdownSocket,
       PortalStopped, OthersStopped, SetShutdownFlag, PostShutdown, ShutdownDone, othersUnchanged
  <2>2. Queued' = Queued
    BY <1>1, <1>8 DEF Queued, One, Next, vars, PortalStep,
       MakeSocket, CallAccept, Accepted, TestPortalFlag, PostRequest, Acknowledge, ReadPacket, SocketError,
       ExecutorStep, TakePermit, TestShutdown, HandleThrow, HandleCrash, Leave, Suspend,
       ReportElsewhere, OrchestratorStep, SetPortalFlag, CloseAcceptor, ShutdownSocket,
       PortalStopped, OthersStopped, SetShutdownFlag, PostShutdown, ShutdownDone, notExecutorVars, othersUnchanged
  <2>3. QED
    BY <1>2, <1>3, <1>4, <2>1, <2>2 DEF OrderInv
<1>9. QED
  BY <1>5, <1>6, <1>7, <1>8

(* The invariant of the pipeline, from which the properties follow. *)
THEOREM PipelineInvariant == Spec => [](PermitInv /\ OrderInv)
<1>1. Init => PermitInv /\ OrderInv
  <2> SUFFICES ASSUME Init PROVE PermitInv /\ OrderInv
    OBVIOUS
  <2>1. PermitInv
    <3>1. /\ portal = "created" /\ executor = "waiting" /\ orchestrator = "running"
          /\ ingestion_queue = <<>> /\ ingestion = <<>> /\ handled = <<>>
          /\ permits = 0 /\ waiting = {} /\ received = 0
          /\ portal_flag = FALSE /\ shutdown_flag = FALSE /\ global_shutdown = FALSE
      BY DEF Init, Sem!Init
    <3>2. <<>> \in Seq(Nat) /\ Len(<<>>) = 0
      BY EmptySeq
    <3>3. PipelineTypeOK
      <4>1. /\ portal_flag \in BOOLEAN /\ shutdown_flag \in BOOLEAN
            /\ global_shutdown \in BOOLEAN
        BY <3>1
      <4>2. permits \in Nat /\ received \in 0 .. MaxRequests
        BY <3>1, PipelineAssumption
      <4>3. QED
        BY <3>1, <3>2, <4>1, <4>2 DEF PipelineTypeOK
    <3>4. FlagBeforePermit /\ ShutdownPermitLeft /\ PopsQueued
      BY <3>1 DEF FlagBeforePermit, ShutdownPermitLeft, PopsQueued
    <3>5. PermitsMatch
      BY <3>1, <3>2 DEF PermitsMatch, One
    <3>6. QED
      BY <3>3, <3>4, <3>5 DEF PermitInv
  <2>2. <<>> \o <<>> \o <<>> = UpTo(0)
    BY DEF UpTo
  <2>3. OrderInv
    BY <2>2 DEF Init, OrderInv, HoldsOnlyHandled, ReadBeforePush, InOrderOnce, UpTo
  <2>4. QED
    BY <2>1, <2>3
<1>2. PermitInv /\ OrderInv /\ [Next]_vars => (PermitInv /\ OrderInv)'
  BY PermitInvStep, OrderInvStep DEF OrderInv
<1>3. QED
  BY <1>1, <1>2, PTL DEF Spec

(* The variables of the pipeline stay in their types. *)
THEOREM PipelineTypeCorrect == Spec => []PipelineTypeOK
  BY PipelineInvariant, PTL DEF PermitInv

(* While the executor serves, every permit of ingestion_queue_sem stands   *)
(* for one request in the queue or for the shutdown.                       *)
THEOREM PermitsCorrect == Spec => []PermitsMatchQueue
<1>1. PermitInv => PermitsMatchQueue
  BY DEF PermitInv, PermitsMatch, PermitsMatchQueue, One
<1>2. QED
  BY <1>1, PipelineInvariant, PTL

(* The executor never pops an empty queue, which in C++ is undefined.      *)
THEOREM PopsCorrect == Spec => []PopsQueued
  BY PipelineInvariant, PTL DEF PermitInv

(* Requests are handled in the order they were read, once each. *)
THEOREM OrderCorrect == Spec => []InOrderOnce
  BY PipelineInvariant, PTL DEF OrderInv

================================================================================
