--------------------------- MODULE IngestionPipeline ---------------------------
(***************************************************************************)
(* The way of a request from the ingestion portal's socket to the store:   *)
(* the portal's thread accepts a client, reads a request, queues it        *)
(* (add_ingestion) and acknowledges it; the ingestion executor's thread    *)
(* takes it off the queue and hands it to the contribution store, which    *)
(* may throw or crash.  ingestion_queue_sem is posted once for each        *)
(* request, and once more by shutdown.                                     *)
(*                                                                         *)
(* The semaphore is the one of module Semaphore, which EffSemaphore        *)
(* implements.  Requests are numbered as they are read.                    *)
(***************************************************************************)
EXTENDS Naturals, Sequences

CONSTANT MaxRequests   (* bound on the requests the client sends *)

ASSUME PipelineAssumption == MaxRequests \in Nat

VARIABLES
    portal,          (* "created": has no socket yet; "accepting": about to  *)
                     (* call accept; "blocked" in it; "test" of its shutdown *)
                     (* flag; "reading"; "locking": about to take the mutex; *)
                     (* "pushed": holds it; "posted": about to acknowledge;  *)
                     (* "stopped"                                            *)
    executor,        (* "waiting" for a permit; "woken"; "popping": about to *)
                     (* take the mutex; "handling"; "leaving"; "stopped";    *)
                     (* "undefined": popped an empty queue; "crashed" in the *)
                     (* store                                                *)
    ingestion_queue,
    permits, waiting,(* ingestion_queue_sem                                  *)
    ingestion,       (* the request the executor holds, as a sequence        *)
    portal_flag, shutdown_flag, (* shutdown_flag of portal and of executor   *)
    orchestrator,    (* "running"; in shutdown of the portal "acceptor",     *)
                     (* "socket", "closing", or "crashed"; of the "others";  *)
                     (* of the executor "portals", "flagged", "posted"; or   *)
                     (* "done"                                               *)
    global_shutdown, (* report_fatal_error was called                        *)
    received,        (* requests read so far                                 *)
    handled          (* history: the requests that were handled, in order    *)

semVars == <<permits, waiting>>
shutdownVars == <<portal_flag, shutdown_flag, orchestrator>>
vars == <<portal, executor, ingestion_queue, semVars, ingestion, shutdownVars,
          global_shutdown, received, handled>>

Sem == INSTANCE Semaphore WITH
    Posters <- {"portal", "orchestrator"}, Waiters <- {"executor"}, InitCount <- 0

Init ==
    /\ portal = "created"
    /\ executor = "waiting"
    /\ ingestion_queue = <<>>
    /\ Sem!Init
    /\ ingestion = <<>>
    /\ portal_flag = FALSE
    /\ shutdown_flag = FALSE
    /\ orchestrator = "running"
    /\ global_shutdown = FALSE
    /\ received = 0
    /\ handled = <<>>

(* add_ingestion posts while it holds the mutex *)
MutexFree == portal # "pushed"

--------------------------------------------------------------------------------
(* The portal's thread *)

(* accept_connection makes the socket, ...                                 *)
MakeSocket ==
    /\ portal = "created"
    /\ portal' = "accepting"
    /\ UNCHANGED <<executor, ingestion_queue, semVars, ingestion, shutdownVars,
                   global_shutdown, received, handled>>

Listening == orchestrator \in {"running", "acceptor"}

(* ... calls accept ...                                                    *)
CallAccept ==
    /\ portal = "accepting"
    /\ Listening
    /\ portal' = "blocked"
    /\ UNCHANGED <<executor, ingestion_queue, semVars, ingestion, shutdownVars,
                   global_shutdown, received, handled>>

(* ... and returns when a client has come, if one does.                    *)
Accepted ==
    /\ portal = "blocked"
    /\ portal' = "test"
    /\ UNCHANGED <<executor, ingestion_queue, semVars, ingestion, shutdownVars,
                   global_shutdown, received, handled>>

TestPortalFlag ==
    /\ portal = "test"
    /\ portal' = IF portal_flag THEN "stopped" ELSE "reading"
    /\ UNCHANGED <<executor, ingestion_queue, semVars, ingestion, shutdownVars,
                   global_shutdown, received, handled>>

ReadPacket ==
    /\ portal = "reading"
    /\ received < MaxRequests
    /\ received' = received + 1
    /\ portal' = "locking"
    /\ UNCHANGED <<executor, ingestion_queue, semVars, ingestion, shutdownVars,
                   global_shutdown, handled>>

BugPushedFront(queue, request) == <<request>> \o queue     (* mutant *)
BugPushedOver(queue, request) == <<request>>               (* mutant *)
Pushed(queue, request) == Append(queue, request)

Push ==
    /\ portal = "locking"
    /\ ingestion_queue' = Pushed(ingestion_queue, received)
    /\ portal' = "pushed"
    /\ UNCHANGED <<executor, semVars, ingestion, shutdownVars, global_shutdown,
                   received, handled>>

BugPostRequest ==                                          (* mutant *)
    /\ portal = "pushed"
    /\ IF waiting = {} THEN UNCHANGED semVars ELSE Sem!Post("portal")
    /\ portal' = "posted"
    /\ UNCHANGED <<executor, ingestion_queue, ingestion, shutdownVars, global_shutdown,
                   received, handled>>

PostRequest ==
    /\ portal = "pushed"
    /\ Sem!Post("portal")
    /\ portal' = "posted"
    /\ UNCHANGED <<executor, ingestion_queue, ingestion, shutdownVars, global_shutdown,
                   received, handled>>

Acknowledge ==
    /\ portal = "posted"
    /\ portal' = "test"
    /\ UNCHANGED <<executor, ingestion_queue, semVars, ingestion, shutdownVars,
                   global_shutdown, received, handled>>

(* The client went away, or shutdown of the portal closed the acceptor or  *)
(* the socket: the accept, the read or the write throws, and the portal's  *)
(* thread ends.                                                            *)
SocketError ==
    /\ portal \in {"accepting", "blocked", "reading", "posted"}
    /\ portal' = "stopped"
    /\ global_shutdown' = TRUE
    /\ UNCHANGED <<executor, ingestion_queue, semVars, ingestion, shutdownVars,
                   received, handled>>

--------------------------------------------------------------------------------
(* The executor's thread *)

notExecutorVars == <<portal, shutdownVars, received>>

TakePermit ==
    /\ executor = "waiting"
    /\ Sem!Pass("executor") \/ Sem!Resume("executor")
    /\ executor' = "woken"
    /\ UNCHANGED <<notExecutorVars, ingestion_queue, ingestion, global_shutdown, handled>>

Suspend ==
    /\ executor = "waiting"
    /\ permits = 0
    /\ Sem!Suspend("executor")
    /\ UNCHANGED <<notExecutorVars, executor, ingestion_queue, ingestion, global_shutdown, handled>>

BugTestShutdown ==                                         (* mutant *)
    /\ executor = "woken"
    /\ executor' = "popping"
    /\ UNCHANGED <<notExecutorVars, ingestion_queue, semVars, ingestion, global_shutdown, handled>>

TestShutdown ==
    /\ executor = "woken"
    /\ executor' = IF shutdown_flag THEN "leaving" ELSE "popping"
    /\ UNCHANGED <<notExecutorVars, ingestion_queue, semVars, ingestion, global_shutdown, handled>>

Pop ==
    /\ executor = "popping"
    /\ MutexFree
    /\ IF ingestion_queue = <<>>
       THEN executor' = "undefined" /\ UNCHANGED <<ingestion, ingestion_queue>>
       ELSE /\ ingestion' = <<Head(ingestion_queue)>>
            /\ ingestion_queue' = Tail(ingestion_queue)
            /\ executor' = "handling"
    /\ UNCHANGED <<notExecutorVars, semVars, global_shutdown, handled>>

Handle ==
    /\ executor = "handling"
    /\ handled' = handled \o ingestion
    /\ ingestion' = <<>>
    /\ executor' = "waiting"
    /\ UNCHANGED <<notExecutorVars, ingestion_queue, semVars, global_shutdown>>

(* The contribution store throws: the executor reports it and ends. *)
HandleThrow ==
    /\ executor = "handling"
    /\ executor' = "leaving"
    /\ global_shutdown' = TRUE
    /\ UNCHANGED <<notExecutorVars, ingestion_queue, semVars, ingestion, handled>>

(* A step of the contribution store is undefined. *)
HandleCrash ==
    /\ executor = "handling"
    /\ executor' = "crashed"
    /\ UNCHANGED <<notExecutorVars, ingestion_queue, semVars, ingestion, global_shutdown, handled>>

Leave ==
    /\ executor = "leaving"
    /\ executor' = "stopped"
    /\ UNCHANGED <<notExecutorVars, ingestion_queue, semVars, ingestion, global_shutdown, handled>>

ExecutorStep ==
    TakePermit \/ TestShutdown \/ Pop \/ Handle \/ HandleThrow \/ HandleCrash \/ Leave

--------------------------------------------------------------------------------
(* The orchestrator: the portals first, then the executor *)

othersUnchanged == UNCHANGED <<executor, ingestion_queue, ingestion, received, handled>>

(* Another thread fails, or the control portal is asked to shut down. *)
ReportElsewhere ==
    /\ global_shutdown' = TRUE
    /\ UNCHANGED <<portal, semVars, shutdownVars>>
    /\ othersUnchanged

(* shutdown of the portal: its flag, ...                                   *)
SetPortalFlag ==
    /\ orchestrator = "running"
    /\ global_shutdown
    /\ portal_flag' = TRUE
    /\ orchestrator' = "acceptor"
    /\ UNCHANGED <<portal, semVars, shutdown_flag, global_shutdown>>
    /\ othersUnchanged

(* ... close_acceptor, ...                                                 *)
CloseAcceptor ==
    /\ orchestrator = "acceptor"
    /\ orchestrator' = "socket"
    /\ UNCHANGED <<portal, semVars, portal_flag, shutdown_flag, global_shutdown>>
    /\ othersUnchanged

(* ... shutdown_socket, through a pointer that may still be null, ...      *)
ShutdownSocket ==
    /\ orchestrator = "socket"
    /\ orchestrator' = IF portal = "created" THEN "crashed" ELSE "closing"
    /\ UNCHANGED <<portal, semVars, portal_flag, shutdown_flag, global_shutdown>>
    /\ othersUnchanged

(* ... and wait_shutdown.                                                  *)
PortalStopped ==
    /\ orchestrator = "closing"
    /\ portal = "stopped"
    /\ orchestrator' = "others"
    /\ UNCHANGED <<portal, semVars, portal_flag, shutdown_flag, global_shutdown>>
    /\ othersUnchanged

(* The same for the other portals, which are the subject of EngineShutdown. *)
OthersStopped ==
    /\ orchestrator = "others"
    /\ orchestrator' \in {"portals", "crashed"}
    /\ UNCHANGED <<portal, semVars, portal_flag, shutdown_flag, global_shutdown>>
    /\ othersUnchanged

SetShutdownFlag ==
    /\ orchestrator = "portals"
    /\ shutdown_flag' = TRUE
    /\ orchestrator' = "flagged"
    /\ UNCHANGED <<portal, semVars, portal_flag, global_shutdown>>
    /\ othersUnchanged

BugPostShutdown ==                                         (* mutant *)
    /\ orchestrator = "flagged"
    /\ orchestrator' = "posted"
    /\ UNCHANGED <<portal, semVars, portal_flag, shutdown_flag, global_shutdown>>
    /\ othersUnchanged

PostShutdown ==
    /\ orchestrator = "flagged"
    /\ Sem!Post("orchestrator")
    /\ orchestrator' = "posted"
    /\ UNCHANGED <<portal, portal_flag, shutdown_flag, global_shutdown>>
    /\ othersUnchanged

ShutdownDone ==
    /\ orchestrator = "posted"
    /\ executor = "stopped"
    /\ orchestrator' = "done"
    /\ UNCHANGED <<portal, semVars, portal_flag, shutdown_flag, global_shutdown>>
    /\ othersUnchanged

OrchestratorStep ==
    \/ SetPortalFlag \/ CloseAcceptor \/ ShutdownSocket \/ PortalStopped
    \/ SetShutdownFlag \/ PostShutdown \/ ShutdownDone

--------------------------------------------------------------------------------

PortalStep ==
    MakeSocket \/ CallAccept \/ TestPortalFlag \/ Push \/ PostRequest \/ Acknowledge

Crashed == orchestrator = "crashed" \/ executor = "crashed"

Next ==
    /\ ~Crashed
    /\ \/ PortalStep \/ Accepted \/ ReadPacket \/ SocketError
       \/ ExecutorStep \/ Suspend
       \/ ReportElsewhere \/ OrchestratorStep \/ OthersStopped

Spec == Init /\ [][Next]_vars

(* The threads run while they are not blocked in wait(), on the mutex, in  *)
(* an accept or in a read; an accept of an acceptor that was closed, and a *)
(* read of a socket that was shut down, return.  No client need come or    *)
(* send anything, nothing need fail, and an accept that is blocked need    *)
(* not notice that its acceptor is closed.                                 *)
Fairness ==
    /\ WF_vars(~Crashed /\ PortalStep)
    /\ WF_vars(~Crashed /\ ExecutorStep)
    /\ WF_vars(~Crashed /\ OrchestratorStep)
    /\ WF_vars(~Crashed /\ SocketError /\ portal # "blocked" /\ orchestrator = "closing")

FairSpec == Spec /\ Fairness

--------------------------------------------------------------------------------
(* Properties *)

(* A permit stands for one queued request, or for the shutdown.            *)
PermitsMatchQueue ==
    LET One(holds) == IF holds THEN 1 ELSE 0 IN
    executor \in {"waiting", "woken", "popping", "handling"} =>
        Len(ingestion_queue) + One(orchestrator \in {"posted", "done"})
        = permits + One(executor \in {"woken", "popping"}) + One(portal = "pushed")

(* The executor never takes from an empty queue, not even when it is woken *)
(* to shut down, and although the push and the post are not atomic.        *)
PopsQueued == executor # "undefined"

(* The requests read are handled in order and once each: what was handled, *)
(* is in the executor's hands or is queued, is what was read.              *)
InOrderOnce ==
    handled \o ingestion \o ingestion_queue
    = [i \in 1 .. received - (IF portal = "locking" THEN 1 ELSE 0) |-> i]

(* A request that was acknowledged is handled, unless the process begins   *)
(* to shut down first, or crashes.                                         *)
HandledOrShutdown ==
    \A i \in 1 .. MaxRequests :
        (received >= i /\ portal = "test")
            ~> (Len(handled) >= i \/ global_shutdown \/ Crashed)

(* A reported error, in whichever thread, ends in the executor's shutdown, *)
(* unless the process crashes, the portal waits for its first client for   *)
(* ever, or the orchestrator for one of the other portals.                 *)
ShutdownEnds ==
    global_shutdown ~> \/ orchestrator = "done" \/ Crashed
                       \/ [](portal = "blocked" /\ orchestrator = "closing")
                       \/ [](orchestrator = "others")

================================================================================
