----------------------------- MODULE EngineShutdown -----------------------------
(***************************************************************************)
(* The threads of the engine from launch to exit: the orchestrator         *)
(* (src/admin), the portals with their TCP servers, the executors, and the *)
(* ways in which they report errors and are shut down.  The control portal *)
(* and the control executor are modelled in full, with the queue of        *)
(* outliers between them; of the other threads there are as many as        *)
(* OtherPortals and OtherExecutors name.  What an executor does with its   *)
(* own queue is the subject of IngestionPipeline and MatchExecutor.        *)
(*                                                                         *)
(* Semaphores are counted: EffSemaphore implements them.                   *)
(***************************************************************************)
EXTENDS Naturals, Sequences

CONSTANTS OtherPortals,   (* the portals before the control portal, in order *)
          OtherExecutors, (* the same for executors; ingestion is among them *)
          MayHang,        (* those of both that a lost notification or an    *)
                          (* endless refill can block, as MatchExecutor      *)
                          (* shows: the match portal, the match executor     *)
          MaxPackets,     (* bound on the packets that clients send          *)
          MaxOutliers     (* bound on the outliers reported                  *)

ASSUME EngineAssumption ==
    /\ OtherPortals \in Seq(STRING) /\ OtherExecutors \in Seq(STRING)
    /\ MaxPackets \in Nat /\ MaxOutliers \in Nat

ThePortal   == "control_portal"
TheExecutor == "control_executor"

PortalOrder   == Append(OtherPortals, ThePortal)
ExecutorOrder == Append(OtherExecutors, TheExecutor)
LaunchOrder   == ExecutorOrder \o PortalOrder
BugShutdownOrder == ExecutorOrder \o PortalOrder           (* mutant *)
ShutdownOrder == PortalOrder \o ExecutorOrder

Elements(order) == {order[i] : i \in DOMAIN order}
Portals   == Elements(PortalOrder)
Executors == Elements(ExecutorOrder)
Threads   == Portals \cup Executors

(* Every element of the two orders is an object, and a thread, of its own. *)
ASSUME ThreadsDistinct ==
    /\ \A i, j \in DOMAIN PortalOrder : PortalOrder[i] = PortalOrder[j] => i = j
    /\ \A i, j \in DOMAIN ExecutorOrder : ExecutorOrder[i] = ExecutorOrder[j] => i = j
    /\ Portals \cap Executors = {}

VARIABLES
    orchestrator,         (* [at: what it is about to do, i: to which thread] *)
    pc,                   (* [thread -> label]                               *)
    shutdown_flag,        (* [thread -> BOOLEAN]                             *)
    binary_shutdown_sem,  (* [thread -> count]                               *)
    global_shutdown_flag, global_shutdown_sem,
    listening,            (* [portal -> BOOLEAN]: its acceptor is open       *)
    socket,               (* [portal -> its socket_ptr: "null", "fresh": not *)
                          (* connected, "open", "shut" by the orchestrator,  *)
                          (* or "closed" by the portal]; active_connection   *)
                          (* is set while it is "open" or "shut"             *)
    packets,              (* packets read so far                             *)
    reported,             (* high outliers so far; they are numbered         *)
    low_outliers,         (* low outliers so far                             *)
    store_outliers,       (* above_outlier_queue of the contribution store   *)
    outlier_queue_sem,    (* of the contribution store                       *)
    outlier,              (* in the control executor's hands                 *)
    outlier_queue, outlier_queue_size,
    delivered             (* history: outliers that fetch_outlier returned   *)

threadVars  == <<pc, shutdown_flag, binary_shutdown_sem>>
globalVars  == <<global_shutdown_flag, global_shutdown_sem>>
serverVars  == <<listening, socket, packets>>
outlierVars == <<reported, low_outliers, store_outliers, outlier_queue_sem, outlier,
                 outlier_queue, outlier_queue_size, delivered>>
vars == <<orchestrator, threadVars, globalVars, serverVars, outlierVars>>

Init ==
    /\ orchestrator = [at |-> "launch", i |-> 1]
    /\ pc = [t \in Threads |-> "unborn"]
    /\ shutdown_flag = [t \in Threads |-> FALSE]
    /\ binary_shutdown_sem = [t \in Threads |-> 0]
    /\ global_shutdown_flag = FALSE
    /\ global_shutdown_sem = 0
    /\ listening = [p \in Portals |-> TRUE]
    /\ socket = [p \in Portals |-> "null"]
    /\ packets = 0
    /\ reported = 0 /\ low_outliers = 0
    /\ store_outliers = <<>> /\ outlier_queue_sem = 0
    /\ outlier = <<>> /\ outlier_queue = <<>> /\ outlier_queue_size = 0
    /\ delivered = <<>>

Goto(t, label) == pc' = [pc EXCEPT ![t] = label]

(* A step of thread t from one label to another *)
Move(t, from, to) ==
    /\ pc[t] = from
    /\ Goto(t, to)
    /\ UNCHANGED <<orchestrator, shutdown_flag, binary_shutdown_sem>>

At(label) == orchestrator.at = label
OrchestratorGoto(label) == orchestrator' = [orchestrator EXCEPT !.at = label]
Current == ShutdownOrder[orchestrator.i]
Awaiting(t) == At("await") /\ Current = t

--------------------------------------------------------------------------------
(* Errors, the same in every thread *)

HasConnection(p) == socket[p] \in {"open", "shut"}

(* The handler of an exception: force_close_connection, then the test of   *)
(* the global flag.                                                        *)
BugHandleErrorOpen(t) ==                                   (* mutant *)
    /\ Move(t, "failed", IF global_shutdown_flag THEN "leaving" ELSE "reporting")
    /\ UNCHANGED <<globalVars, serverVars, outlierVars>>
HandleError(t) ==
    /\ Move(t, "failed", IF global_shutdown_flag THEN "leaving" ELSE "reporting")
    /\ socket' = [p \in Portals |-> IF p = t /\ HasConnection(p) THEN "closed" ELSE socket[p]]
    /\ UNCHANGED <<globalVars, listening, packets, outlierVars>>

(* report_fatal_error: the flag, then the semaphore.  A portal that was    *)
(* told to shut down goes on to answer, all others end.                    *)
RaiseFlag(t) ==
    /\ \/ Move(t, "reporting", "posting")
       \/ Move(t, "ordered", "order_posting")
    /\ global_shutdown_flag' = TRUE
    /\ UNCHANGED <<global_shutdown_sem, serverVars, outlierVars>>

BugPostGlobal(t) ==                                        (* mutant *)
    /\ \/ Move(t, "posting", "leaving")
       \/ Move(t, "order_posting", "writing")
    /\ UNCHANGED <<globalVars, serverVars, outlierVars>>
PostGlobal(t) ==
    /\ \/ Move(t, "posting", "leaving")
       \/ Move(t, "order_posting", "writing")
    /\ global_shutdown_sem' = global_shutdown_sem + 1
    /\ UNCHANGED <<global_shutdown_flag, serverVars, outlierVars>>

NotifyShutdown(t) ==
    /\ pc[t] = "leaving"
    /\ binary_shutdown_sem' = [binary_shutdown_sem EXCEPT ![t] = @ + 1]
    /\ Goto(t, "ended")
    /\ UNCHANGED <<orchestrator, shutdown_flag, globalVars, serverVars, outlierVars>>

ErrorStep(t) == HandleError(t) \/ RaiseFlag(t) \/ PostGlobal(t) \/ NotifyShutdown(t)

--------------------------------------------------------------------------------
(* A portal: one connection, then requests until the flag or an error *)

(* accept_connection makes the socket first ... *)
MakeSocket(p) ==
    /\ Move(p, "created", "accepting")
    /\ socket' = [socket EXCEPT ![p] = "fresh"]
    /\ UNCHANGED <<globalVars, listening, packets, outlierVars>>

(* ... and then calls accept, which throws on a closed acceptor.           *)
CallAccept(p) ==
    /\ Move(p, "accepting", IF listening[p] THEN "blocked" ELSE "failed")
    /\ UNCHANGED <<globalVars, serverVars, outlierVars>>

Accepted(p) ==
    /\ Move(p, "blocked", "testing")
    /\ socket' = [socket EXCEPT ![p] = "open"]
    /\ UNCHANGED <<globalVars, listening, packets, outlierVars>>

(* Some platforms interrupt an accept when another thread closes the       *)
(* acceptor; nothing here relies on it.                                    *)
AcceptInterrupted(p) ==
    /\ ~listening[p]
    /\ Move(p, "blocked", "failed")
    /\ UNCHANGED <<globalVars, serverVars, outlierVars>>

TestFlag(p) ==
    /\ Move(p, "testing", IF shutdown_flag[p] THEN "closing" ELSE "reading")
    /\ UNCHANGED <<globalVars, serverVars, outlierVars>>

(* What a packet asks for: the control portal knows three requests.        *)
Requests(p) == IF p = ThePortal THEN {"ordered", "writing", "sizing"} ELSE {"serving"}

(* A socket that was shut down may still have data to read.                *)
ReadPacket(p) ==
    /\ packets < MaxPackets
    /\ packets' = packets + 1
    /\ \E request \in Requests(p) : Move(p, "reading", request)
    /\ UNCHANGED <<globalVars, listening, socket, outlierVars>>

(* The client has gone, the socket was shut down or the request is invalid. *)
ReadThrows(p) ==
    /\ Move(p, "reading", "failed")
    /\ UNCHANGED <<globalVars, serverVars, outlierVars>>

(* A call of the portal's executor returns; fetch_match may not.           *)
Serve(p) ==
    /\ Move(p, "serving", "writing")
    /\ UNCHANGED <<globalVars, serverVars, outlierVars>>

WriteResponse(p) ==
    /\ socket[p] = "open"
    /\ Move(p, "writing", "testing")
    /\ UNCHANGED <<globalVars, serverVars, outlierVars>>

WriteThrows(p) ==
    /\ Move(p, "writing", "failed")
    /\ UNCHANGED <<globalVars, serverVars, outlierVars>>

CloseConnection(p) ==
    /\ Move(p, "closing", "leaving")
    /\ socket' = [socket EXCEPT ![p] = "closed"]
    /\ UNCHANGED <<globalVars, listening, packets, outlierVars>>

PortalStep(p) ==
    \/ MakeSocket(p) \/ CallAccept(p) \/ TestFlag(p)
    \/ WriteResponse(p) \/ WriteThrows(p) \/ CloseConnection(p)

ClientStep(p) == Accepted(p) \/ AcceptInterrupted(p) \/ ReadPacket(p) \/ ReadThrows(p)

--------------------------------------------------------------------------------
(* fetch_outlier, called by the control portal: the size is tested before  *)
(* the mutex of the queue is taken                                         *)

MutexFree == pc[TheExecutor] # "pushed"

BugTestSize ==                                             (* mutant *)
    /\ Move(ThePortal, "sizing", "popping")
    /\ UNCHANGED <<globalVars, serverVars, outlierVars>>
TestSize ==
    /\ Move(ThePortal, "sizing", IF outlier_queue_size = 0 THEN "writing" ELSE "popping")
    /\ UNCHANGED <<globalVars, serverVars, outlierVars>>

PopOutlier ==
    /\ MutexFree
    /\ IF outlier_queue = <<>>
       THEN /\ Move(ThePortal, "popping", "undefined")
            /\ UNCHANGED <<outlier_queue, outlier_queue_size, delivered>>
       ELSE /\ Move(ThePortal, "popping", "writing")
            /\ delivered' = Append(delivered, Head(outlier_queue))
            /\ outlier_queue' = Tail(outlier_queue)
            /\ outlier_queue_size' = outlier_queue_size - 1
    /\ UNCHANGED <<globalVars, serverVars, reported, low_outliers, store_outliers,
                   outlier_queue_sem, outlier>>

--------------------------------------------------------------------------------
(* The control executor *)

(* The ingestion executor reports a high outlier, which is queued, or a low *)
(* one, which goes where fetch_outlier does not look: it counts as a high  *)
(* one.  How that comes about is in ContributionStore; its counters start  *)
(* at zero here.                                                           *)
ReportOutlier ==
    /\ \E e \in Executors \ {TheExecutor} : pc[e] = "running"
    /\ reported + low_outliers < MaxOutliers
    /\ \/ /\ reported' = reported + 1
          /\ store_outliers' = Append(store_outliers, reported + 1)
          /\ UNCHANGED low_outliers
       \/ /\ low_outliers' = low_outliers + 1
          /\ UNCHANGED <<reported, store_outliers>>
    /\ outlier_queue_sem' = outlier_queue_sem + 1
    /\ UNCHANGED <<orchestrator, threadVars, globalVars, serverVars, outlier,
                   outlier_queue, outlier_queue_size, delivered>>

WaitForOutlier ==
    /\ outlier_queue_sem > 0
    /\ Move(TheExecutor, "waiting", "woken")
    /\ outlier_queue_sem' = outlier_queue_sem - 1
    /\ UNCHANGED <<globalVars, serverVars, reported, low_outliers, store_outliers,
                   outlier, outlier_queue, outlier_queue_size, delivered>>

TestWoken ==
    /\ Move(TheExecutor, "woken", IF shutdown_flag[TheExecutor] THEN "leaving" ELSE "fetching")
    /\ UNCHANGED <<globalVars, serverVars, outlierVars>>

(* fetch_outlier of the store: front() and pop() of above_outlier_queue.   *)
FetchOutlier ==
    /\ IF store_outliers = <<>>
       THEN /\ Move(TheExecutor, "fetching", "undefined")
            /\ UNCHANGED <<store_outliers, outlier>>
       ELSE /\ Move(TheExecutor, "fetching", "pushing")
            /\ outlier' = <<Head(store_outliers)>>
            /\ store_outliers' = Tail(store_outliers)
    /\ UNCHANGED <<globalVars, serverVars, reported, low_outliers, outlier_queue_sem,
                   outlier_queue, outlier_queue_size, delivered>>

BugPushOutlier ==                                          (* mutant *)
    /\ Move(TheExecutor, "pushing", "pushed")
    /\ outlier_queue' = outlier \o outlier_queue
    /\ outlier' = <<>>
    /\ UNCHANGED <<globalVars, serverVars, reported, low_outliers, store_outliers,
                   outlier_queue_sem, outlier_queue_size, delivered>>
PushOutlier ==
    /\ Move(TheExecutor, "pushing", "pushed")
    /\ outlier_queue' = outlier_queue \o outlier
    /\ outlier' = <<>>
    /\ UNCHANGED <<globalVars, serverVars, reported, low_outliers, store_outliers,
                   outlier_queue_sem, outlier_queue_size, delivered>>

CountOutlier ==
    /\ Move(TheExecutor, "pushed", "waiting")
    /\ outlier_queue_size' = outlier_queue_size + 1
    /\ UNCHANGED <<globalVars, serverVars, reported, low_outliers, store_outliers,
                   outlier_queue_sem, outlier, outlier_queue, delivered>>

ControlStep ==
    \/ TestSize \/ PopOutlier
    \/ WaitForOutlier \/ TestWoken \/ FetchOutlier \/ PushOutlier \/ CountOutlier

(* The other executors: the loop of each ends when the orchestrator has    *)
(* set its flag and woken it - unless that was lost - or with an exception. *)
ExecutorStops(e) ==
    /\ shutdown_flag[e]
    /\ Move(e, "running", "leaving")
    /\ UNCHANGED <<globalVars, serverVars, outlierVars>>

ExecutorThrows(e) ==
    /\ Move(e, "running", "failed")
    /\ UNCHANGED <<globalVars, serverVars, outlierVars>>

--------------------------------------------------------------------------------
(* The orchestrator *)

FirstLabel(t) ==
    IF t \in Portals THEN "created" ELSE IF t = TheExecutor THEN "waiting" ELSE "running"

(* Build the next executor or portal and start its thread. *)
LaunchThread ==
    /\ At("launch")
    /\ Goto(LaunchOrder[orchestrator.i], FirstLabel(LaunchOrder[orchestrator.i]))
    /\ orchestrator' = IF orchestrator.i = Len(LaunchOrder)
                       THEN [at |-> "wait", i |-> 1]
                       ELSE [orchestrator EXCEPT !.i = @ + 1]
    /\ UNCHANGED <<shutdown_flag, binary_shutdown_sem, globalVars, serverVars, outlierVars>>

notThreadVars == <<globalVars, serverVars, outlierVars>>

(* The port of a portal is taken: execute reports it and exits at once.    *)
LaunchThrows ==
    /\ At("launch")
    /\ LaunchOrder[orchestrator.i] \in Portals
    /\ OrchestratorGoto("aborted")
    /\ UNCHANGED <<threadVars, notThreadVars>>

WaitProcessShutdown ==
    /\ At("wait")
    /\ global_shutdown_sem > 0
    /\ global_shutdown_sem' = global_shutdown_sem - 1
    /\ OrchestratorGoto("flag")
    /\ UNCHANGED <<threadVars, global_shutdown_flag, serverVars, outlierVars>>

SetShutdownFlag ==
    /\ At("flag")
    /\ shutdown_flag' = [shutdown_flag EXCEPT ![Current] = TRUE]
    /\ OrchestratorGoto(IF Current \in Portals THEN "acceptor" ELSE "trigger")
    /\ UNCHANGED <<pc, binary_shutdown_sem, notThreadVars>>

(* close_acceptor and stop_context; nothing runs in the context.           *)
CloseAcceptor ==
    /\ At("acceptor")
    /\ listening' = [listening EXCEPT ![Current] = FALSE]
    /\ OrchestratorGoto("socket")
    /\ UNCHANGED <<threadVars, globalVars, socket, packets, outlierVars>>

(* shutdown_socket: an error is ignored, a null pointer is not.            *)
ShutdownSocket ==
    /\ At("socket")
    /\ OrchestratorGoto(IF socket[Current] = "null" THEN "crashed" ELSE "await")
    /\ socket' = IF socket[Current] = "open" THEN [socket EXCEPT ![Current] = "shut"] ELSE socket
    /\ UNCHANGED <<threadVars, globalVars, listening, packets, outlierVars>>

(* trigger_outlier_wait; for the other executors see their modules.        *)
BugTriggerExecutor ==                                      (* mutant *)
    /\ At("trigger")
    /\ OrchestratorGoto("await")
    /\ UNCHANGED <<threadVars, notThreadVars>>
TriggerExecutor ==
    /\ At("trigger")
    /\ outlier_queue_sem' = outlier_queue_sem + (IF Current = TheExecutor THEN 1 ELSE 0)
    /\ OrchestratorGoto("await")
    /\ UNCHANGED <<threadVars, globalVars, serverVars, reported, low_outliers,
                   store_outliers, outlier, outlier_queue, outlier_queue_size, delivered>>

(* Where shutdown_portal and shutdown_exec go after wait_shutdown *)
AfterWait ==
    CASE orchestrator.i = Len(PortalOrder)   -> [orchestrator EXCEPT !.at = "join_portals"]
      [] orchestrator.i = Len(ShutdownOrder) -> [orchestrator EXCEPT !.at = "join_executors"]
      [] OTHER                               -> [at |-> "flag", i |-> orchestrator.i + 1]

BugWaitShutdown ==                                         (* mutant *)
    /\ At("await")
    /\ orchestrator' = AfterWait
    /\ UNCHANGED <<threadVars, notThreadVars>>
WaitShutdown ==
    /\ At("await")
    /\ binary_shutdown_sem[Current] > 0
    /\ binary_shutdown_sem' = [binary_shutdown_sem EXCEPT ![Current] = @ - 1]
    /\ orchestrator' = AfterWait
    /\ UNCHANGED <<pc, shutdown_flag, notThreadVars>>

Join ==
    /\ \/ /\ At("join_portals")
          /\ \A p \in Portals : pc[p] = "ended"
          /\ orchestrator' = [at |-> "flag", i |-> orchestrator.i + 1]
       \/ /\ At("join_executors")
          /\ \A e \in Executors : pc[e] = "ended"
          /\ OrchestratorGoto("exited")
    /\ UNCHANGED <<threadVars, notThreadVars>>

OrchestratorStep ==
    \/ LaunchThread \/ LaunchThrows \/ WaitProcessShutdown
    \/ SetShutdownFlag \/ CloseAcceptor \/ ShutdownSocket \/ TriggerExecutor
    \/ WaitShutdown \/ Join

--------------------------------------------------------------------------------

ProcessOver == orchestrator.at \in {"exited", "aborted", "crashed"}
Defined == \A t \in Threads : pc[t] # "undefined"

Running == ~ProcessOver /\ Defined

Next ==
    /\ Running
    /\ \/ \E t \in Threads : ErrorStep(t)
       \/ \E p \in Portals : PortalStep(p) \/ Serve(p) \/ ClientStep(p)
       \/ \E e \in Executors : ExecutorStops(e) \/ ExecutorThrows(e)
       \/ ReportOutlier \/ ControlStep
       \/ OrchestratorStep

Spec == Init /\ [][Next]_vars

(* Threads run while they are not blocked.  A read of a socket that was    *)
(* shut down comes to an end, and an executor that was woken with its flag *)
(* set leaves its loop, except for those that may hang.  No client need    *)
(* connect or send anything, no platform need interrupt an accept, and     *)
(* nothing need fail.                                                      *)
ThreadStep(t) ==
    \/ ErrorStep(t)
    \/ t \in Portals /\ PortalStep(t)
    \/ t \in Portals /\ ReadThrows(t) /\ socket[t] = "shut"
    \/ t \in Portals \ MayHang /\ Serve(t)
    \/ t \in Executors \ MayHang /\ ExecutorStops(t) /\ At("await")
    \/ t = ThePortal /\ (TestSize \/ PopOutlier)
    \/ /\ t = TheExecutor
       /\ WaitForOutlier \/ TestWoken \/ FetchOutlier \/ PushOutlier \/ CountOutlier

Fairness ==
    /\ \A t \in Threads : WF_vars(Running /\ ThreadStep(t))
    /\ WF_vars(Running /\ OrchestratorStep)

FairSpec == Spec /\ Fairness

--------------------------------------------------------------------------------
(* Properties *)

(* A fatal error reaches the orchestrator: once the flag is up, so that    *)
(* further errors are kept silent, somebody is about to post the semaphore, *)
(* it was posted, or the orchestrator is past its wait.                    *)
NoLostReport ==
    global_shutdown_flag =>
        \/ global_shutdown_sem > 0
        \/ \E t \in Threads : pc[t] \in {"posting", "order_posting"}
        \/ orchestrator.at \notin {"launch", "wait"}

(* The orchestrator has come back from wait_shutdown of thread t. *)
PassedBy(t) ==
    /\ orchestrator.at \notin {"launch", "aborted", "wait"}
    /\ \E i \in DOMAIN ShutdownOrder :
          /\ ShutdownOrder[i] = t
          /\ \/ i < orchestrator.i
             \/ At("join_portals") \/ At("join_executors") \/ At("exited")
          /\ i <= orchestrator.i

(* The orchestrator turns to the executors when the portals have ended: no *)
(* executor is asked to stop while a portal is inside a call of one.       *)
CallsServed ==
    (\E p \in Portals : pc[p] \in {"serving", "sizing", "popping"}) =>
        \A e \in Executors : ~shutdown_flag[e]

(* exit(0) at the end of a shutdown finds every thread ended, every        *)
(* connection closed and every notification taken.                         *)
CleanExit ==
    At("exited") =>
        /\ \A t \in Threads : pc[t] = "ended" /\ binary_shutdown_sem[t] = 0
        /\ \A p \in Portals : ~HasConnection(p)

(* High outliers reach the client of the control portal in the order in    *)
(* which the store queued them, once each.                                 *)
OutliersInOrder ==
    delivered \o outlier_queue \o outlier \o store_outliers = [i \in 1 .. reported |-> i]

(* Neither end of the control pipeline pops an empty queue: not the portal, *)
(* whose test of the size is outside the mutex, and not the executor, even *)
(* when it is woken to shut down - as long as no low outlier is reported.  *)
PopsQueuedOnly ==
    /\ pc[ThePortal] # "undefined"
    /\ pc[TheExecutor] = "undefined" => low_outliers > 0

(* No thread ends, and none is asked to stop, before an error was reported; *)
(* the orchestrator goes on from a thread only when that one has ended.    *)
Supervisor == INSTANCE Supervision WITH
    alarm <- global_shutdown_flag,
    running <- {t \in Threads : pc[t] # "ended"},
    asked <- {t \in Threads : shutdown_flag[t]},
    stopped <- {t \in Threads : PassedBy(t)}

ImplementsSupervision == Supervisor!Spec

(* The ways in which a shutdown does not come to an end: the orchestrator  *)
(* finds the null pointer of a portal that has no socket yet; or it waits  *)
(* for a portal that has never had a client, for one that is blocked in a  *)
(* call of its executor, or for an executor that missed its notification   *)
(* or is blocked itself; or the control executor popped an empty queue,    *)
(* after a low outlier.                                                    *)
NullSocket == At("crashed") /\ pc[Current] = "created"
NoClient(p) == Awaiting(p) /\ pc[p] = "blocked"
Hangs(t) == Awaiting(t) /\ t \in MayHang /\ pc[t] \in {"serving", "running"}
LostOutlier == low_outliers > 0 /\ pc[TheExecutor] = "undefined"

(* A reported error, or an accepted request to shut down, ends in exit(0), *)
(* but for these: once the flag is up, to stay, the process comes to rest  *)
(* at the one or in one of the others.                                     *)
ErrorEndsProcess ==
    <>[]global_shutdown_flag
        => <>[](\/ At("exited") \/ At("aborted")
                \/ NullSocket \/ LostOutlier
                \/ \E t \in Threads : NoClient(t) \/ Hangs(t))

================================================================================
