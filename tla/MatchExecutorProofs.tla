-------------------------- MODULE MatchExecutorProofs --------------------------
(***************************************************************************)
(* Theorems about MatchExecutor: its queue keeps within its limit, and its *)
(* thread does not sleep through a queue that was drawn down.              *)
(***************************************************************************)
EXTENDS MatchExecutor, TLAPS

(* The fetch_match_pair of the executor; it never stops between two items, *)
(* as the match thread of ContributionStore does.                          *)
MatchTypeOK ==
    match \in [pc : {"idle", "first", "second", "pair", "failed"},
               first : Cids \cup {0}, second : Cids \cup {0}]

(* A pair is drawn only for a queue that has room for it: fetch_match may  *)
(* take from the queue, and waits for the mutex until the refill is over.  *)
RoomForMatch ==
    match.pc \in {"first", "second", "pair"} => match_queue < RefillLimit

(* From the test of the predicate on, through the block: unless there were *)
(* too few contributions, the queue has more than RefillSize matches.      *)
SleepsOnlyWhenFilled ==
    executor \in {"blocking", "waiting"} /\ ~hist.few => match_queue > RefillSize

RefillInv == TypeOK /\ MatchTypeOK /\ RoomForMatch /\ SleepsOnlyWhenFilled

--------------------------------------------------------------------------------

(* The ingestion thread changes the store and nothing else.                *)
LEMMA IngestionAway ==
    ASSUME BeginIngest \/ GoOnIngest
    PROVE  UNCHANGED <<executorVars, match, portal, shutdownVars>>
<1>1. CASE BeginIngest
  BY <1>1 DEF BeginIngest, Store!AddLink, Store!RemoveUnlink, Store!UpdateFetch
<1>2. CASE GoOnIngest
  BY <1>2 DEF GoOnIngest, Store!AddCount, Store!AddStore, Store!AddSample,
     Store!UpdateUnlink, Store!UpdateLink, Store!UpdateStore, Store!UpdateSample,
     Store!RemoveCount, Store!RemoveErase, Store!RemoveSample
<1>3. QED
  BY <1>1, <1>2

(* A draw leaves match as it is, or goes on by one item.                   *)
LEMMA DrawOneItem ==
    ASSUME Draw, MatchTypeOK
    PROVE  /\ match.pc \in {"first", "second"}
           /\ match'.pc \in {"first", "second", "pair"}
           /\ MatchTypeOK'
           /\ UNCHANGED <<executorVars, portal, shutdownVars>>
<1>1. UNCHANGED <<executorVars, portal, shutdownVars>>
  BY DEF Draw
<1>2. PICK c \in Cids \cup {0} : Store!MatchFirst(c) \/ Store!MatchSecond(c)
  BY DEF Draw
<1>3. CASE Store!MatchFirst(c)
  <2>1. /\ match.pc = "first"
        /\ \/ match' = match
           \/ match' = [match EXCEPT !.pc = "second", !.first = c]
    BY <1>3 DEF Store!MatchFirst
  <2>2. QED
    BY <1>1, <2>1 DEF MatchTypeOK
<1>4. CASE Store!MatchSecond(c)
  <2>1. /\ match.pc = "second"
        /\ \/ match' = match
           \/ match' = [match EXCEPT !.pc = "pair", !.second = c]
    BY <1>4 DEF Store!MatchSecond
  <2>2. QED
    BY <1>1, <2>1 DEF MatchTypeOK
<1>5. QED
  BY <1>2, <1>3, <1>4

(* The initial states are in the invariant.                                *)
LEMMA InitRefillInv == Init => RefillInv
<1> SUFFICES ASSUME Init PROVE RefillInv
  OBVIOUS
<1>1. TypeOK
  <2>1. match_queue \in 0 .. RefillLimit /\ spurious \in 0 .. MaxSpurious
    BY MatchAssumption DEF Init
  <2>2. /\ match.pc = "idle"
        /\ hist \in [few : BOOLEAN, lost : BOOLEAN]
    BY DEF Init, NoPair
  <2>3. QED
    BY <2>1, <2>2 DEF Init, TypeOK
<1>2. MatchTypeOK /\ RoomForMatch /\ SleepsOnlyWhenFilled
  BY DEF Init, NoPair, MatchTypeOK, RoomForMatch, SleepsOnlyWhenFilled
<1>3. QED
  BY <1>1, <1>2 DEF RefillInv

(* A step that does not concern what the invariant is about keeps it.      *)
LEMMA RefillUnchanged ==
    ASSUME RefillInv,
           UNCHANGED <<executorVars, match, portal, shutdownVars>>
    PROVE  RefillInv'
BY DEF RefillInv, TypeOK, MatchTypeOK, RoomForMatch, SleepsOnlyWhenFilled,
   executorVars, shutdownVars

(* The steps of the executor's thread keep the invariant.                  *)
LEMMA ExecutorKeepsInv ==
    ASSUME RefillInv, ExecutorStep \/ Draw \/ SpuriousWakeup
    PROVE  RefillInv'
<1> USE DEF RefillInv, TypeOK, MatchTypeOK, RoomForMatch, SleepsOnlyWhenFilled
<1>1. CASE TestPredicate
  <2>1. contribution_count' = contribution_count
    BY <1>1 DEF TestPredicate, Move, storeVars
  <2>2. SleepsOnlyWhenFilled'
    BY <1>1, <2>1, MatchAssumption DEF TestPredicate, Move, RefillDue
  <2>3. hist' \in [few : BOOLEAN, lost : BOOLEAN]
    <3>1. TooFew \in BOOLEAN
      BY DEF TooFew
    <3>2. QED
      BY <1>1, <3>1 DEF TestPredicate
  <2>4. executor' \in {"ready", "blocking"}
    BY <1>1 DEF TestPredicate, Move
  <2>5. /\ match.pc \notin {"first", "second", "pair"}
        /\ UNCHANGED <<match, match_queue, fatal, spurious, portal, shutdownVars>>
    BY <1>1 DEF TestPredicate, Move
  <2>6. QED
    BY <2>2, <2>3, <2>4, <2>5 DEF shutdownVars
<1>2. CASE Block
  BY <1>2 DEF Block, Move, shutdownVars
<1>3. CASE TestShutdown
  BY <1>3 DEF TestShutdown, Move, shutdownVars
<1>4. CASE BeginFetch
  BY <1>4, MatchAssumption DEF BeginFetch, Move, QueueFull, NoPair, shutdownVars
<1>5. CASE Draw
  <2>1. /\ match.pc \in {"first", "second"}
        /\ match'.pc \in {"first", "second", "pair"}
        /\ MatchTypeOK'
        /\ UNCHANGED <<executorVars, portal, shutdownVars>>
    BY <1>5, DrawOneItem
  <2>2. QED
    BY <2>1 DEF executorVars, shutdownVars
<1>6. CASE QueueMatch
  BY <1>6, MatchAssumption DEF QueueMatch, NoPair, shutdownVars
<1>7. CASE FetchThrows
  <2>1. /\ match.pc \in {"first", "second"}
        /\ match' = [match EXCEPT !.pc = "failed"]
    BY <1>7 DEF FetchThrows, Store!MatchThrow
  <2>2. QED
    BY <1>7, <2>1 DEF FetchThrows, shutdownVars
<1>8. CASE FillDone
  BY <1>8 DEF FillDone, Move, shutdownVars
<1>9. CASE Leave
  BY <1>9 DEF Leave, Move, shutdownVars
<1>10. CASE SpuriousWakeup
  BY <1>10, MatchAssumption DEF SpuriousWakeup, Move, shutdownVars
<1>11. QED
  BY <1>1, <1>2, <1>3, <1>4, <1>5, <1>6, <1>7, <1>8, <1>9, <1>10
     DEF ExecutorStep, Refill

(* The steps of the match portal and of the orchestrator keep it.          *)
LEMMA OthersKeepInv ==
    ASSUME RefillInv, Request \/ FetchMatch \/ BeginShutdown \/ ShutdownStep
    PROVE  RefillInv'
<1> USE DEF RefillInv, TypeOK, MatchTypeOK, RoomForMatch, SleepsOnlyWhenFilled
<1>1. CASE Request
  BY <1>1 DEF Request, executorVars, shutdownVars
<1>2. CASE FetchMatch
  <2>1. /\ match.pc \notin {"first", "second", "pair"}
        /\ executor # "blocking"
    BY <1>2 DEF FetchMatch, MutexFree
  <2>2. CASE match_queue = 0
    BY <1>2, <2>1, <2>2 DEF FetchMatch, shutdownVars
  <2>3. CASE match_queue # 0
    <3>1. /\ match_queue' = match_queue - 1
          /\ IF match_queue' <= RefillSize THEN NotifyRefill ELSE UNCHANGED executor
      BY <1>2, <2>3 DEF FetchMatch
    <3>2. match_queue' \in 0 .. RefillLimit
      BY <2>3, <3>1, MatchAssumption
    <3>3. SleepsOnlyWhenFilled'
      BY <1>2, <2>1, <3>1, <3>2, MatchAssumption DEF FetchMatch, NotifyRefill
    <3>4. QED
      BY <1>2, <2>1, <3>1, <3>2, <3>3 DEF FetchMatch, NotifyRefill, shutdownVars
  <2>4. QED
    BY <2>2, <2>3
<1>3. CASE BeginShutdown
  BY <1>3 DEF BeginShutdown, executorVars
<1>4. CASE PortalsStopped
  BY <1>4 DEF PortalsStopped, executorVars
<1>5. CASE IngestionStopped
  BY <1>5 DEF IngestionStopped, Store!StopIngest, executorVars
<1>6. CASE SetShutdownFlag
  BY <1>6 DEF SetShutdownFlag, executorVars
<1>7. CASE NotifyAll
  BY <1>7 DEF NotifyAll, Woken
<1>8. CASE ShutdownDone
  BY <1>8 DEF ShutdownDone, executorVars
<1>9. QED
  BY <1>1, <1>2, <1>3, <1>4, <1>5, <1>6, <1>7, <1>8 DEF ShutdownStep

(* The inductive invariant of the executor.                                *)
THEOREM RefillInvariant == Spec => []RefillInv
<1>1. Init => RefillInv
  BY InitRefillInv
<1>2. RefillInv /\ [Next]_vars => RefillInv'
  <2> SUFFICES ASSUME RefillInv, [Next]_vars PROVE RefillInv'
    OBVIOUS
  <2>1. CASE ExecutorStep \/ Draw \/ SpuriousWakeup
    BY <2>1, ExecutorKeepsInv
  <2>2. CASE Request \/ FetchMatch \/ BeginShutdown \/ ShutdownStep
    BY <2>2, OthersKeepInv
  <2>3. CASE BeginIngest \/ GoOnIngest
    BY <2>3, IngestionAway, RefillUnchanged
  <2>4. CASE UNCHANGED vars
    BY <2>4, RefillUnchanged DEF vars
  <2>5. QED
    BY <2>1, <2>2, <2>3, <2>4 DEF Next
<1>3. QED
  BY <1>1, <1>2, PTL DEF Spec

(* match_queue never exceeds MATCH_QUEUE_REFILL_LIMIT although fetch_match, *)
(* the refill and the shutdown interleave, and a draw goes on only while   *)
(* the executor holds match_queue_mutex to fill the queue.                 *)
THEOREM QueueTypeCorrect == Spec => []TypeOK
<1>1. RefillInv => TypeOK
  BY DEF RefillInv
<1>2. QED
  BY <1>1, RefillInvariant, PTL

(* The notify_one of fetch_match is never lost: with enough contributions  *)
(* at the last test, the executor sleeps on refill_cv only while there is  *)
(* more than MATCH_QUEUE_REFILL_SIZE in the queue.                         *)
THEOREM RefillNotLost == Spec => []NoLostRefill
<1>1. RefillInv => NoLostRefill
  BY DEF RefillInv, SleepsOnlyWhenFilled, NoLostRefill
<1>2. QED
  BY <1>1, RefillInvariant, PTL

================================================================================
