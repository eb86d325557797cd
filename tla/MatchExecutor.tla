----------------------------- MODULE MatchExecutor -----------------------------
(***************************************************************************)
(* EngineMatchExecutor (src/exec/match-executor.cpp) on top of the         *)
(* contribution store.  Its thread keeps match_queue filled: it waits on   *)
(* refill_cv until the queue runs low, then draws pairs from the store     *)
(* until the queue is full, all the while holding match_queue_mutex.  The  *)
(* match portal calls fetch_match, the ingestion thread changes the store  *)
(* and the orchestrator calls shutdown.                                    *)
(*                                                                         *)
(* shutdown_flag and the counter of contributions are written without      *)
(* match_queue_mutex, so the wait is two steps: the test of its predicate, *)
(* and the block that gives the mutex up.  Queued matches are only counted. *)
(***************************************************************************)
EXTENDS Naturals

CONSTANTS Cids, NBuckets, KFactor, CountModulus, (* as in ContributionStore *)
          MaxRequests,     (* bound on the requests of the ingestion thread *)
          RefillSize,      (* MATCH_QUEUE_REFILL_SIZE                      *)
          RefillLimit,     (* MATCH_QUEUE_REFILL_LIMIT                     *)
          MinContributions,(* MIN_MATCH_CONTRIBUTION_COUNT                 *)
          MaxSpurious      (* bound on the spurious wakeups                *)

ASSUME MatchAssumption ==
    /\ {RefillSize, RefillLimit, MinContributions, MaxSpurious} \subseteq Nat
    /\ RefillSize < RefillLimit

VARIABLES
    executor,       (* "test": needs the mutex to evaluate the predicate;    *)
                    (* "blocking": found it false, still holds the mutex;    *)
                    (* "waiting": blocked on refill_cv;                      *)
                    (* "ready": found it true, holds the mutex;              *)
                    (* "filling": holds the mutex;                           *)
                    (* "leaving": out of its loop; "stopped": run() returned *)
    match,          (* the fetch_match_pair it is in, if any                 *)
    match_queue,    (* its size                                              *)
    portal,         (* "idle", "fetching" or, in the end, "stopped"          *)
    store, elo_store, requeued, samples, blurred,  (* of the store           *)
    contribution_count, ingest, requests,
    shutdown_flag,
    orchestrator,   (* "running"; shutting down "portals", "ingestion" or    *)
                    (* this executor: "flag", "notify", "await"; "done"      *)
    fatal,          (* report_fatal_error was called by the executor         *)
    spurious,       (* counted towards its bound                             *)
    hist            (* history: [few: the last test saw too few              *)
                    (* contributions, lost: notify_all came between a test   *)
                    (* and the block that followed it]                       *)

storeVars == <<store, elo_store, requeued, samples, blurred, contribution_count,
               ingest, requests>>
shutdownVars == <<shutdown_flag, orchestrator>>
executorVars == <<executor, match_queue, fatal, spurious, hist>>
vars == <<executorVars, match, portal, storeVars, shutdownVars>>

(* The store without its outliers, for any clients: its history, in which  *)
(* they may be ill-behaved from the start, stays as it is.                 *)
Store == INSTANCE ContributionStore WITH
    UninitValues <- {0}, MinMatchCount <- MinContributions,
    above_outlier_queue <- <<>>, below_outlier_queue <- <<>>,
    above_outliers_count <- 0, below_outliers_count <- 0,
    permits <- 0, control <- "wait", shutdown <- "none",
    hist <- [honest |-> FALSE, removed |-> TRUE, below |-> FALSE, zeroed |-> TRUE]

NoPair == [pc |-> "idle", first |-> 0, second |-> 0]

Init ==
    /\ executor = "test"
    /\ match = NoPair
    /\ match_queue = 0
    /\ portal = "idle"
    /\ store = [c \in Cids |-> Store!Absent]
    /\ elo_store = [b \in Store!Buckets |-> [c \in Cids |-> 0]]
    /\ requeued = [b \in Store!Buckets |-> 0]
    /\ samples = [b \in Store!Buckets |-> 0]
    /\ blurred = FALSE
    /\ contribution_count = 0
    /\ ingest = [pc |-> "idle", cid |-> 0, old |-> 0, new |-> 0]
    /\ requests = 0
    /\ shutdown_flag = FALSE
    /\ orchestrator = "running"
    /\ fatal = FALSE
    /\ spurious = 0
    /\ hist = [few |-> FALSE, lost |-> FALSE]

BugMutexFree == executor \in {"test", "leaving", "stopped"} (* mutant *)
MutexFree == executor \in {"test", "waiting", "leaving", "stopped"}

--------------------------------------------------------------------------------
(* The executor's thread *)

(* A step of the executor from one label to another *)
Move(from, to) ==
    /\ executor = from
    /\ executor' = to
    /\ UNCHANGED <<portal, storeVars, shutdownVars>>

TooFew == contribution_count < MinContributions

BugRefillDue == ~TooFew /\ match_queue < RefillSize        (* mutant *)
RefillDue == ~TooFew /\ match_queue <= RefillSize

TestPredicate ==
    /\ Move("test", IF shutdown_flag \/ RefillDue THEN "ready" ELSE "blocking")
    /\ hist' = [hist EXCEPT !.few = TooFew]
    /\ UNCHANGED <<match, match_queue, fatal, spurious>>

Block ==
    /\ Move("blocking", "waiting")
    /\ UNCHANGED <<match, match_queue, fatal, spurious, hist>>

SpuriousWakeup ==
    /\ Move("waiting", "test")
    /\ spurious < MaxSpurious
    /\ spurious' = spurious + 1
    /\ UNCHANGED <<match, match_queue, fatal, hist>>

TestShutdown ==
    /\ Move("ready", IF shutdown_flag THEN "leaving" ELSE "filling")
    /\ UNCHANGED <<match, match_queue, fatal, spurious, hist>>

BugQueueFull == match_queue > RefillLimit                  (* mutant *)
QueueFull == match_queue >= RefillLimit

BeginFetch ==
    /\ ~QueueFull /\ match.pc = "idle"
    /\ Move("filling", "filling")
    /\ match' = [NoPair EXCEPT !.pc = "first"]
    /\ UNCHANGED <<match_queue, fatal, spurious, hist>>

(* fetch_match_pair draws until it has a pair, in steps that other threads *)
(* overtake ...                                                            *)
Draw ==
    /\ \E c \in Cids \cup {0} : Store!MatchFirst(c) \/ Store!MatchSecond(c)
    /\ UNCHANGED <<executorVars, portal, shutdownVars>>

(* ... returns it ...                                                      *)
QueueMatch ==
    /\ match.pc = "pair"
    /\ match' = NoPair
    /\ match_queue' = match_queue + 1
    /\ UNCHANGED <<executor, fatal, spurious, hist, portal, storeVars, shutdownVars>>

(* ... or throws, which is reported unless the process is being shut down  *)
(* already.                                                                *)
FetchThrows ==
    /\ Store!MatchThrow
    /\ executor' = "leaving"
    /\ fatal' = (orchestrator = "running")
    /\ UNCHANGED <<match_queue, spurious, hist, portal, shutdownVars>>

FillDone ==
    /\ QueueFull /\ match.pc = "idle"
    /\ Move("filling", "test")
    /\ UNCHANGED <<match, match_queue, fatal, spurious, hist>>

(* notify_shutdown *)
Leave ==
    /\ Move("leaving", "stopped")
    /\ UNCHANGED <<match, match_queue, fatal, spurious, hist>>

Refill == BeginFetch \/ QueueMatch \/ FetchThrows \/ FillDone
ExecutorStep == TestPredicate \/ Block \/ TestShutdown \/ Refill \/ Leave

--------------------------------------------------------------------------------
(* The match portal: a call of fetch_match *)

Request ==
    /\ portal = "idle" /\ orchestrator = "running"
    /\ portal' = "fetching"
    /\ UNCHANGED <<executorVars, match, storeVars, shutdownVars>>

NotifyRefill == executor' = IF executor = "waiting" THEN "test" ELSE executor

FetchMatch ==
    /\ portal = "fetching"
    /\ MutexFree
    /\ portal' = "idle"
    /\ IF match_queue = 0
       THEN UNCHANGED <<match_queue, executor>>
       ELSE /\ match_queue' = match_queue - 1
            /\ IF match_queue' <= RefillSize THEN NotifyRefill ELSE UNCHANGED executor
    /\ UNCHANGED <<match, storeVars, shutdownVars, fatal, spurious, hist>>

--------------------------------------------------------------------------------
(* The ingestion thread: requests to the store, one critical section a step *)

BeginIngest ==
    /\ \/ \E c \in Cids : Store!AddLink(c) \/ Store!RemoveUnlink(c)
       \/ \E c \in Cids, b \in Store!Ratings : Store!UpdateFetch(c, b)
    /\ UNCHANGED <<executorVars, portal, shutdownVars>>

GoOnIngest ==
    /\ \/ Store!AddCount \/ Store!AddStore \/ Store!AddSample
       \/ Store!UpdateUnlink \/ Store!UpdateLink \/ Store!UpdateStore
       \/ Store!UpdateSample("No")
       \/ Store!RemoveCount \/ Store!RemoveErase \/ Store!RemoveSample
    /\ UNCHANGED <<executorVars, portal, shutdownVars>>

--------------------------------------------------------------------------------
(* The orchestrator shuts the portals down, then the ingestion executor,   *)
(* and then calls shutdown of this executor.                               *)

(* Reported by this executor, or by that of the ingestion thread. *)
FatalError == fatal \/ Store!IngestAt("failed")

BeginShutdown ==
    /\ orchestrator = "running"
    /\ orchestrator' = "portals"
    /\ UNCHANGED <<executorVars, match, portal, storeVars, shutdown_flag>>

PortalsStopped ==
    /\ orchestrator = "portals" /\ portal = "idle"
    /\ portal' = "stopped"
    /\ orchestrator' = "ingestion"
    /\ UNCHANGED <<executorVars, match, storeVars, shutdown_flag>>

IngestionStopped ==
    /\ orchestrator = "ingestion"
    /\ Store!StopIngest
    /\ orchestrator' = "flag"
    /\ UNCHANGED <<executorVars, portal, shutdown_flag>>

SetShutdownFlag ==
    /\ orchestrator = "flag"
    /\ shutdown_flag' = TRUE
    /\ orchestrator' = "notify"
    /\ UNCHANGED <<executorVars, match, portal, storeVars>>

BugWoken == executor                                       (* mutant *)
Woken == IF executor = "waiting" THEN "test" ELSE executor

NotifyAll ==
    /\ orchestrator = "notify"
    /\ executor' = Woken
    /\ orchestrator' = "await"
    /\ hist' = [hist EXCEPT !.lost = executor = "blocking"]
    /\ UNCHANGED <<match_queue, fatal, spurious, match, portal, storeVars, shutdown_flag>>

(* wait_shutdown returned. *)
ShutdownDone ==
    /\ orchestrator = "await" /\ executor = "stopped"
    /\ orchestrator' = "done"
    /\ UNCHANGED <<executorVars, match, portal, storeVars, shutdown_flag>>

ShutdownStep ==
    PortalsStopped \/ IngestionStopped \/ SetShutdownFlag \/ NotifyAll \/ ShutdownDone

--------------------------------------------------------------------------------

(* The process is defined until a step of the ingestion thread was not. *)
Defined == Store!Defined

Next ==
    /\ Defined
    /\ \/ ExecutorStep \/ Draw \/ SpuriousWakeup
       \/ Request \/ FetchMatch
       \/ BeginIngest \/ GoOnIngest
       \/ BeginShutdown \/ ShutdownStep

Spec == Init /\ [][Next]_vars

(* The executor's thread runs while it is not blocked, fetch_match takes a *)
(* mutex that stays free, a request to the store and a shutdown that were  *)
(* begun go on, and a fatal error begins one.  A draw that the loops of    *)
(* fetch_match_pair wait for, and that keeps being possible, comes with    *)
(* probability one.  Nobody has to send a request, to change the store or  *)
(* to shut down.                                                           *)
Fairness ==
    /\ WF_vars(Defined /\ ExecutorStep)
    /\ WF_vars(Defined /\ Draw /\ match' # match)
    /\ WF_vars(Defined /\ FetchMatch)
    /\ WF_vars(Defined /\ GoOnIngest)
    /\ WF_vars(Defined /\ ShutdownStep)
    /\ WF_vars(Defined /\ FatalError /\ BeginShutdown)

FairSpec == Spec /\ Fairness

--------------------------------------------------------------------------------
(* Properties *)

(* Types of the variables of the executor (ContributionStore has the rest); *)
(* the queue never exceeds its limit, and the executor is in a draw only   *)
(* while it fills the queue.                                               *)
TypeOK ==
    /\ executor \in {"test", "blocking", "waiting", "ready", "filling", "leaving", "stopped"}
    /\ match_queue \in 0 .. RefillLimit
    /\ portal \in {"idle", "fetching", "stopped"}
    /\ match.pc \in {"first", "second", "pair"} => executor = "filling"
    /\ shutdown_flag \in BOOLEAN
    /\ orchestrator \in {"running", "portals", "ingestion", "flag", "notify", "await", "done"}
    /\ fatal \in BOOLEAN
    /\ spurious \in 0 .. MaxSpurious
    /\ hist \in [few : BOOLEAN, lost : BOOLEAN]

(* The executor does not sleep through a queue that fetch_match has drawn  *)
(* down: unless too few contributions put it to sleep, it waits only while *)
(* there is more in the queue than RefillSize.                             *)
NoLostRefill ==
    executor = "waiting" /\ ~hist.few => match_queue > RefillSize

(* No draw is what fetch_match_pair goes on for.  Its second loop ends when *)
(* it draws the first item again, and can no more once that one was        *)
(* removed; the first loop is stuck if all lists it can draw are empty,    *)
(* which takes an ill-behaved client.                                      *)
Orphaned ==
    \/ match.pc = "first" /\ Store!Attempts = {0}
    \/ match.pc = "second" /\ match.first \notin Store!Attempts

(* A fetch_match that was called returns, although the executor holds the  *)
(* mutex while it fills the queue: it stays in its call only if the refill *)
(* waits for a draw that is lost for good, and so never ends, or if the    *)
(* process becomes undefined.                                              *)
FetchReturns == <>[](portal = "fetching" /\ Defined) => <>[]Orphaned

(* A shutdown that was begun, and one is begun when one of the executors   *)
(* fails, ends: with the same exceptions, and unless notify_all comes      *)
(* between the test of the predicate and the block.                        *)
ShutdownEndsUnlessLost ==
    <>[](/\ FatalError \/ orchestrator # "running"
         /\ orchestrator # "done" /\ ~hist.lost /\ Defined)
        => <>[]Orphaned

(* "wait for shutdown": a shutdown of this executor that was begun ends,   *)
(* if no refill waits for a lost draw.                                     *)
ShutdownEnds == orchestrator = "flag" ~> (orchestrator = "done" \/ []Orphaned)

(* "intelligently prepares this data ... for output by the match portal":  *)
(* when there are enough contributions to draw from, and stay, and nothing *)
(* has failed, there will be matches.                                      *)
MatchesPrepared ==
    <>[](/\ ~TooFew /\ ~Store!Scorer!NoSample /\ ~Orphaned
         /\ Defined /\ ~FatalError /\ orchestrator = "running")
        => <>(match_queue > 0)

================================================================================
