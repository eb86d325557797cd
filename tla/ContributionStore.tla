--------------------------- MODULE ContributionStore ---------------------------
(***************************************************************************)
(* EngineContributionStore and EngineEloStore (src/core), used at the same *)
(* time by the three executor threads:                                     *)
(*   ingest   runs add_contribution, update_contribution and               *)
(*            remove_contribution, one request after the other;            *)
(*   match    runs fetch_match_pair;                                       *)
(*   control  runs wait_for_outlier and fetch_outlier.                     *)
(*                                                                         *)
(* A step is one critical section (store_mutex, elo_bucket_scorer_mutex,   *)
(* an outlier queue mutex, the list_mutex of one RatingList) or one atomic *)
(* access; a thread can be overtaken between any two of them.              *)
(*                                                                         *)
(* Data that no property here depends on is abstracted: a rating is the    *)
(* bucket it rounds to, a RatingList the number of nodes it has for each   *)
(* contribution and whose node was cycled to the tail last (the order of   *)
(* the nodes is the subject of RatingList), the scorer the bag of its      *)
(* samples (SampleBag, which IQRScorer implements), and a sample drawn at  *)
(* random or an outlier verdict a nondeterministic choice.                 *)
(*                                                                         *)
(* A list whose stale tail is removed and a scorer without its quartiles   *)
(* are not taken for sound: the first leaves the list damaged, every call  *)
(* of the second may crash, and a behaviour ends there.                    *)
(***************************************************************************)
EXTENDS Integers, FiniteSets, Sequences

CONSTANTS Cids,         (* contribution ids used by clients; 0 is not one of *)
                        (* them, the code returns it for "no contribution"   *)
          NBuckets,     (* ELO_STORE_SIZE                                    *)
          KFactor,      (* ELO_K_FACTOR                                      *)
          CountModulus, (* 2^32: the counters are uint32_t                   *)
          MinMatchCount,(* MIN_MATCH_CONTRIBUTION_COUNT                      *)
          UninitValues, (* contents a counter that the constructor does not  *)
                        (* initialise may be found with                      *)
          MaxRequests   (* bound on the requests a behaviour processes       *)

ASSUME StoreAssumption ==
    /\ IsFiniteSet(Cids)
    /\ 0 \notin Cids
    /\ NBuckets \in Nat /\ NBuckets >= 2
    /\ KFactor \in Nat
    /\ CountModulus \in Nat \ {0}
    /\ Cardinality(Cids) < CountModulus    (* ids are uint32_t, too *)
    /\ MinMatchCount \in Nat
    /\ UninitValues \subseteq 0 .. CountModulus - 1
    /\ MaxRequests \in Nat

Buckets == 0 .. NBuckets - 1

(* round(ELO_INITIAL_RATING), half of the range, rounded away from zero *)
InitialBucket == (NBuckets + 1) \div 2

(* What the map holds for an id: no entry, the entry that operator[] makes *)
(* (rating 0, null position), or an entry with a position in its bucket.   *)
Absent == -1
Blank  == -2

(* What a rating rounds to when the store has no list for it: nothing      *)
(* checks that.                                                            *)
OutOfRange == NBuckets
Ratings == Buckets \cup {OutOfRange}

(* EloScorer::calculate_rating, over all ratings that round to old and all *)
(* expected outcomes, which lie between 0 and 1.                           *)
Calculated(old, is_winner) ==
    LET new == IF is_winner THEN old .. old + KFactor ELSE old - KFactor .. old
    IN  {IF r \in Buckets THEN r ELSE OutOfRange : r \in new}

Verdicts == {"No", "Above", "Below"}

VARIABLES
    store,                (* map: id -> Absent, Blank or its bucket          *)
    elo_store,            (* [bucket -> [id -> number of list nodes]]        *)
    requeued,             (* [bucket -> the id whose node is the tail since  *)
                          (* it was cycled there, its "prev" link left as it *)
                          (* was; 0 if the tail was linked or never moved]   *)
    samples,              (* elo_bucket_scorer: [bucket -> multiplicity]     *)
    blurred,              (* elo_bucket_scorer may have lost its quartiles   *)
    contribution_count,
    above_outlier_queue, below_outlier_queue,
    above_outliers_count, below_outliers_count,
    permits,              (* outlier_queue_sem                               *)
    ingest,               (* ingestion thread: [pc, cid, old, new]           *)
    match,                (* match thread: [pc, first, second]               *)
    control,              (* control thread: its pc                          *)
    shutdown,             (* of the control executor: none, flagged, posted  *)
    requests,             (* requests begun so far                           *)
    hist                  (* history: what the clients have asked for        *)

listVars    == <<elo_store, requeued>>
scorerVars  == <<samples, blurred>>
coreVars    == <<store, listVars, scorerVars, contribution_count>>
outlierVars == <<above_outlier_queue, below_outlier_queue,
                 above_outliers_count, below_outliers_count, permits>>
vars == <<coreVars, outlierVars, ingest, match, control, shutdown,
          requests, hist>>

Init ==
    /\ store = [c \in Cids |-> Absent]
    /\ elo_store = [b \in Buckets |-> [c \in Cids |-> 0]]
    /\ requeued = [b \in Buckets |-> 0]
    /\ samples = [b \in Buckets |-> 0]
    /\ blurred = FALSE
    /\ contribution_count \in UninitValues
    /\ above_outlier_queue = <<>>
    /\ below_outlier_queue = <<>>
    /\ above_outliers_count \in UninitValues
    /\ below_outliers_count \in UninitValues
    /\ permits = 0
    /\ ingest = [pc |-> "idle", cid |-> 0, old |-> 0, new |-> 0]
    /\ match = [pc |-> "idle", first |-> 0, second |-> 0]
    /\ control = "wait"
    /\ shutdown = "none"
    /\ requests = 0
    /\ hist = [honest |-> TRUE, removed |-> FALSE, below |-> FALSE,
               zeroed |-> 0 = contribution_count /\ 0 = above_outliers_count
                                                /\ 0 = below_outliers_count]

BugMinus1(n) == n                                          (* mutant *)
BugMinus1Unsigned(n) == n - 1                              (* mutant *)
Plus1(n)  == (n + 1) % CountModulus
Minus1(n) == (n + CountModulus - 1) % CountModulus

IngestAt(label) == ingest.pc = label
IngestGoto(label) == ingest' = [ingest EXCEPT !.pc = label]

--------------------------------------------------------------------------------
(* Lists, map and scorer *)

(* The rating of an entry; Blank is the rating 0 of a new map entry. *)
RatingOf(entry) == IF entry = Blank THEN 0 ELSE entry

(* The map after operator[] has looked up an id. *)
Touched(c) == IF store[c] = Absent THEN [store EXCEPT ![c] = Blank] ELSE store

BucketEmpty(b) == \A c \in Cids : elo_store[b][c] = 0
OneNode(b) ==
    \E c \in Cids : /\ elo_store[b][c] = 1
                   /\ \A d \in Cids \ {c} : elo_store[b][d] = 0

BugLinked(b, c) == [elo_store EXCEPT ![InitialBucket][c] = @ + 1]  (* mutant *)
Linked(b, c)   == [elo_store EXCEPT ![b][c] = @ + 1]
Unlinked(b, c) == [elo_store EXCEPT ![b][c] = @ - 1]

(* RatingList::remove_contribution through the position of an entry: an    *)
(* empty list ignores the call, a null position is otherwise dereferenced. *)
UnlinkCrashes(entry) == entry = Blank /\ ~BucketEmpty(0)
BugAfterUnlink(c, entry) == elo_store                      (* mutant *)
AfterUnlink(c, entry) == IF entry = Blank THEN elo_store ELSE Unlinked(entry, c)

(* A removal of the tail that was cycled last patches the neighbours of its *)
(* stale link, and leaves the list with a freed tail: "damaged".  An id with *)
(* more than one node in the list may have its position in another one.    *)
StaleTail(c, entry) == entry # Blank /\ requeued[entry] = c
ElsewhereInList(c, entry) == elo_store[entry][c] > 1

(* The outcomes of remove_contribution: the label after it if all is well, *)
(* and the lists.                                                          *)
Unlink(c, entry, label, next) ==
    \/ UnlinkCrashes(entry) /\ label = "crashed" /\ UNCHANGED elo_store
    \/ StaleTail(c, entry) /\ label = "damaged" /\ UNCHANGED elo_store
    \/ /\ ~UnlinkCrashes(entry)
       /\ StaleTail(c, entry) => ElsewhereInList(c, entry)
       /\ label = next
       /\ elo_store' = AfterUnlink(c, entry)

(* RatingList::add_contribution: the node is the new tail. *)
Link(b, c) ==
    /\ elo_store' = Linked(b, c)
    /\ requeued' = [requeued EXCEPT ![b] = 0]

(* The scorer, as the bag that IQRScorer implements, and without the sample *)
(* that an update replaces.                                                *)
Scorer == INSTANCE SampleBag WITH Values <- Buckets, crashed <- IngestAt("crashed")
Rest == INSTANCE SampleBag WITH
    Values <- Buckets, crashed <- IngestAt("crashed"),
    samples <- Scorer!Without(ingest.old), blurred <- Scorer!BlurredWithout(ingest.old)

--------------------------------------------------------------------------------
(* The ingestion thread: add_contribution *)

BeginRequest(c) ==
    /\ IngestAt("idle")
    /\ requests < MaxRequests
    /\ requests' = requests + 1

AddLink(c) ==
    /\ BeginRequest(c)
    /\ Link(InitialBucket, c)
    /\ ingest' = [pc |-> "add_count", cid |-> c, old |-> Absent, new |-> InitialBucket]
    /\ hist' = [hist EXCEPT !.honest = @ /\ store[c] = Absent]
    /\ UNCHANGED <<store, scorerVars, contribution_count, outlierVars, match,
                   control, shutdown>>

AddCount ==
    /\ IngestAt("add_count")
    /\ contribution_count' = Plus1(contribution_count)
    /\ IngestGoto("add_store")
    /\ UNCHANGED <<store, listVars, scorerVars, outlierVars, match, control,
                   shutdown, requests, hist>>

AddStore ==
    /\ IngestAt("add_store")
    /\ store' = [store EXCEPT ![ingest.cid] = ingest.new]
    /\ IngestGoto("add_sample")
    /\ UNCHANGED <<listVars, scorerVars, contribution_count, outlierVars, match,
                   control, shutdown, requests, hist>>

AddSample ==
    /\ IngestAt("add_sample")
    /\ samples' = Scorer!With(ingest.new)
    /\ blurred' = Scorer!BlurredWith(ingest.new)
    /\ \/ IngestGoto("idle")
       \/ Scorer!CrashesWith(ingest.new) /\ IngestGoto("crashed")
    /\ UNCHANGED <<store, listVars, contribution_count, outlierVars, match,
                   control, shutdown, requests, hist>>

--------------------------------------------------------------------------------
(* The ingestion thread: update_contribution *)

(* fetch_contribution_elo; the new rating b is computed from the result.   *)
UpdateFetch(c, b) ==
    /\ BeginRequest(c)
    /\ store' = Touched(c)
    /\ \E is_winner \in BOOLEAN : b \in Calculated(RatingOf(store'[c]), is_winner)
    /\ ingest' = [pc |-> "update_unlink", cid |-> c,
                  old |-> RatingOf(store'[c]), new |-> b]
    /\ hist' = [hist EXCEPT !.honest = @ /\ store[c] # Absent /\ b \in Buckets]
    /\ UNCHANGED <<listVars, scorerVars, contribution_count, outlierVars, match,
                   control, shutdown>>

UpdateUnlink ==
    /\ IngestAt("update_unlink")
    /\ \E label \in {"crashed", "damaged", "update_link"} :
          /\ Unlink(ingest.cid, store[ingest.cid], label, "update_link")
          /\ IngestGoto(label)
    /\ UNCHANGED <<store, requeued, scorerVars, contribution_count, outlierVars, match,
                   control, shutdown, requests, hist>>

(* Without a list for the new rating, an element outside of a std::vector. *)
UpdateLink ==
    /\ IngestAt("update_link")
    /\ IF ingest.new \in Buckets
       THEN Link(ingest.new, ingest.cid) /\ IngestGoto("update_store")
       ELSE IngestGoto("crashed") /\ UNCHANGED listVars
    /\ UNCHANGED <<store, scorerVars, contribution_count, outlierVars, match,
                   control, shutdown, requests, hist>>

UpdateStore ==
    /\ IngestAt("update_store")
    /\ store' = [store EXCEPT ![ingest.cid] = ingest.new]
    /\ IngestGoto("update_sample")
    /\ UNCHANGED <<listVars, scorerVars, contribution_count, outlierVars, match,
                   control, shutdown, requests, hist>>

UpdateSample(verdict) ==
    /\ IngestAt("update_sample")
    /\ IF Scorer!RemoveThrows(ingest.old)
       THEN IngestGoto("failed") /\ UNCHANGED scorerVars
       ELSE /\ samples' = Rest!With(ingest.new)
            /\ blurred' = Rest!BlurredWith(ingest.new)
            /\ \/ IngestGoto(CASE verdict = "No"    -> "idle"
                               [] verdict = "Above" -> "push_above"
                               [] verdict = "Below" -> "push_below")
               \/ Rest!CrashesWith(ingest.new) /\ IngestGoto("crashed")
    /\ UNCHANGED <<store, listVars, contribution_count, outlierVars, match,
                   control, shutdown, requests, hist>>

PushAbove ==
    /\ IngestAt("push_above")
    /\ above_outlier_queue' = Append(above_outlier_queue, ingest.cid)
    /\ IngestGoto("count_above")
    /\ UNCHANGED <<coreVars, below_outlier_queue, above_outliers_count,
                   below_outliers_count, permits, match, control,
                   shutdown, requests, hist>>

PushBelow ==
    /\ IngestAt("push_below")
    /\ below_outlier_queue' = Append(below_outlier_queue, ingest.cid)
    /\ IngestGoto("count_below")
    /\ hist' = [hist EXCEPT !.below = TRUE]
    /\ UNCHANGED <<coreVars, above_outlier_queue, above_outliers_count,
                   below_outliers_count, permits, match, control,
                   shutdown, requests>>

CountAbove ==
    /\ IngestAt("count_above")
    /\ above_outliers_count' = Plus1(above_outliers_count)
    /\ IngestGoto("post_outlier")
    /\ UNCHANGED <<coreVars, above_outlier_queue, below_outlier_queue,
                   below_outliers_count, permits, match, control,
                   shutdown, requests, hist>>

(* The branch for low outliers increments the counter of the high ones. *)
CountBelow ==
    /\ IngestAt("count_below")
    /\ above_outliers_count' = Plus1(above_outliers_count)
    /\ IngestGoto("post_outlier")
    /\ UNCHANGED <<coreVars, above_outlier_queue, below_outlier_queue,
                   below_outliers_count, permits, match, control,
                   shutdown, requests, hist>>

BugPostOutlier ==                                          (* mutant *)
    /\ IngestAt("post_outlier")
    /\ permits' = 1
    /\ IngestGoto("idle")
    /\ UNCHANGED <<coreVars, above_outlier_queue, below_outlier_queue,
                   above_outliers_count, below_outliers_count, match, control,
                   shutdown, requests, hist>>

PostOutlier ==
    /\ IngestAt("post_outlier")
    /\ permits' = permits + 1
    /\ IngestGoto("idle")
    /\ UNCHANGED <<coreVars, above_outlier_queue, below_outlier_queue,
                   above_outliers_count, below_outliers_count, match, control,
                   shutdown, requests, hist>>

--------------------------------------------------------------------------------
(* The ingestion thread: remove_contribution *)

RemoveUnlink(c) ==
    /\ BeginRequest(c)
    /\ store' = Touched(c)
    /\ \E label \in {"crashed", "damaged", "remove_count"} :
          /\ Unlink(c, store'[c], label, "remove_count")
          /\ ingest' = [pc |-> label, cid |-> c,
                        old |-> RatingOf(store'[c]), new |-> Absent]
    /\ hist' = [hist EXCEPT !.honest = @ /\ store[c] # Absent, !.removed = TRUE]
    /\ UNCHANGED <<requeued, scorerVars, contribution_count, outlierVars, match,
                   control, shutdown>>

RemoveCount ==
    /\ IngestAt("remove_count")
    /\ contribution_count' = Minus1(contribution_count)
    /\ IngestGoto("remove_erase")
    /\ UNCHANGED <<store, listVars, scorerVars, outlierVars, match, control,
                   shutdown, requests, hist>>

RemoveErase ==
    /\ IngestAt("remove_erase")
    /\ store' = [store EXCEPT ![ingest.cid] = Absent]
    /\ IngestGoto("remove_sample")
    /\ UNCHANGED <<listVars, scorerVars, contribution_count, outlierVars, match,
                   control, shutdown, requests, hist>>

RemoveSample ==
    /\ IngestAt("remove_sample")
    /\ IF Scorer!RemoveThrows(ingest.old)
       THEN IngestGoto("failed") /\ UNCHANGED scorerVars
       ELSE /\ samples' = Scorer!Without(ingest.old)
            /\ blurred' = Scorer!BlurredWithout(ingest.old)
            /\ \/ IngestGoto("idle")
               \/ Scorer!BlurredWithout(ingest.old) /\ IngestGoto("crashed")
    /\ UNCHANGED <<store, listVars, contribution_count, outlierVars, match,
                   control, shutdown, requests, hist>>

--------------------------------------------------------------------------------
(* The match thread: fetch_match_pair *)

allButDraws ==
    <<store, elo_store, scorerVars, contribution_count, outlierVars, ingest,
      control, shutdown, requests, hist>>
ingestAndControlVars == <<allButDraws, requeued>>

(* The wait in the match executor lets a refill begin. *)
BugEnoughContributions == contribution_count > 0           (* mutant *)
EnoughContributions == contribution_count >= MinMatchCount

MatchBegin ==
    /\ match.pc = "idle"
    /\ EnoughContributions
    /\ match' = [pc |-> "first", first |-> 0, second |-> 0]
    /\ UNCHANGED ingestAndControlVars

(* Drawing a sample from an empty scorer throws: the match executor ends. *)
MatchThrow ==
    /\ match.pc \in {"first", "second"}
    /\ Scorer!NoSample
    /\ match' = [match EXCEPT !.pc = "failed"]
    /\ UNCHANGED ingestAndControlVars

(* The results attempt_fetch_match_item can have for a bucket it has drawn *)
(* from the scorer, whose mutex it holds until the list has been cycled,   *)
(* and for all of them.                                                    *)
FrontOf(b) == IF BucketEmpty(b) THEN {0} ELSE {c \in Cids : elo_store[b][c] > 0}
Attempts == UNION {FrontOf(b) : b \in Scorer!Drawable}

(* cycle_front_contribution: a list of two or more nodes is rotated.       *)
Attempt(b, c) ==
    /\ c \in FrontOf(b)
    /\ requeued' = IF BucketEmpty(b) \/ OneNode(b) THEN requeued
                   ELSE [requeued EXCEPT ![b] = c]

MatchFirst(c) ==
    /\ match.pc = "first"
    /\ \E b \in Scorer!Drawable : Attempt(b, c)
    /\ match' = IF c = 0 THEN match
                ELSE [match EXCEPT !.pc = "second", !.first = c]
    /\ UNCHANGED allButDraws

(* The loop of the second item repeats until it equals the first one.      *)
MatchSecond(c) ==
    /\ match.pc = "second"
    /\ \E b \in Scorer!Drawable : Attempt(b, c)
    /\ match' = IF c = 0 \/ c # match.first THEN match
                ELSE [match EXCEPT !.pc = "pair", !.second = c]
    /\ UNCHANGED allButDraws

(* The executor queues the pair, and fetches another one or goes back to   *)
(* waiting: when, is the subject of MatchExecutor.                         *)
MatchQueued ==
    /\ match.pc = "pair"
    /\ \E next \in {"idle", "first"} :
          match' = [pc |-> next, first |-> 0, second |-> 0]
    /\ UNCHANGED ingestAndControlVars

--------------------------------------------------------------------------------
(* The control thread: wait_for_outlier, the test of its shutdown flag, and *)
(* fetch_outlier                                                           *)

ingestAndMatchVars == <<coreVars, ingest, match, requests, hist>>

WaitForOutlier ==
    /\ control = "wait"
    /\ permits > 0
    /\ permits' = permits - 1
    /\ control' = "woken"
    /\ UNCHANGED <<ingestAndMatchVars, above_outlier_queue, below_outlier_queue,
                   above_outliers_count, below_outliers_count, shutdown>>

BugTestShutdown ==                                         (* mutant *)
    /\ control = "woken"
    /\ control' = "above_more"
    /\ UNCHANGED <<ingestAndMatchVars, outlierVars, shutdown>>

TestShutdown ==
    /\ control = "woken"
    /\ control' = IF shutdown # "none" THEN "stopped" ELSE "above_more"
    /\ UNCHANGED <<ingestAndMatchVars, outlierVars, shutdown>>

(* The three tests of fetch_outlier, each reading the counters afresh. *)
ChooseQueue ==
    /\ \/ /\ control = "above_more"
          /\ control' = IF above_outliers_count > below_outliers_count
                        THEN "take_above" ELSE "below_more"
       \/ /\ control = "below_more"
          /\ control' = IF below_outliers_count > above_outliers_count
                        THEN "take_below" ELSE "above_any"
       \/ /\ control = "above_any"
          /\ control' = IF above_outliers_count > 0
                        THEN "take_above" ELSE "take_below"
    /\ UNCHANGED <<ingestAndMatchVars, outlierVars, shutdown>>

TakeAbove ==
    /\ control = "take_above"
    /\ above_outliers_count' = Minus1(above_outliers_count)
    /\ control' = "pop_above"
    /\ UNCHANGED <<ingestAndMatchVars, above_outlier_queue, below_outlier_queue,
                   below_outliers_count, permits, shutdown>>

TakeBelow ==
    /\ control = "take_below"
    /\ below_outliers_count' = Minus1(below_outliers_count)
    /\ control' = "pop_below"
    /\ UNCHANGED <<ingestAndMatchVars, above_outlier_queue, below_outlier_queue,
                   above_outliers_count, permits, shutdown>>

(* front() and pop() of an empty std::queue are undefined: control stops   *)
(* at "undefined", whatever follows in a build.                            *)
PopAbove ==
    /\ control = "pop_above"
    /\ IF above_outlier_queue = <<>>
       THEN control' = "undefined" /\ UNCHANGED above_outlier_queue
       ELSE /\ above_outlier_queue' = Tail(above_outlier_queue)
            /\ control' = "wait"
    /\ UNCHANGED <<ingestAndMatchVars, below_outlier_queue, above_outliers_count,
                   below_outliers_count, permits, shutdown>>

PopBelow ==
    /\ control = "pop_below"
    /\ IF below_outlier_queue = <<>>
       THEN control' = "undefined" /\ UNCHANGED below_outlier_queue
       ELSE /\ below_outlier_queue' = Tail(below_outlier_queue)
            /\ control' = "wait"
    /\ UNCHANGED <<ingestAndMatchVars, above_outlier_queue, above_outliers_count,
                   below_outliers_count, permits, shutdown>>

--------------------------------------------------------------------------------
(* The orchestrator shuts the executors down in this order, and waits for  *)
(* each one to end before it turns to the next.                            *)

StopIngest ==
    /\ ingest.pc \in {"idle", "failed"}
    /\ IngestGoto("stopped")
    /\ UNCHANGED <<coreVars, outlierVars, match, control, shutdown, requests, hist>>

StopMatch ==
    /\ IngestAt("stopped")
    /\ match.pc \in {"idle", "failed"}
    /\ match' = [match EXCEPT !.pc = "stopped"]
    /\ UNCHANGED ingestAndControlVars

FlagShutdown ==
    /\ match.pc = "stopped"
    /\ shutdown = "none"
    /\ shutdown' = "flagged"
    /\ UNCHANGED <<ingestAndMatchVars, outlierVars, control>>

TriggerOutlierWait ==
    /\ shutdown = "flagged"
    /\ permits' = permits + 1
    /\ shutdown' = "posted"
    /\ UNCHANGED <<ingestAndMatchVars, above_outlier_queue, below_outlier_queue,
                   above_outliers_count, below_outliers_count, control>>

--------------------------------------------------------------------------------

AddContribution    == (\E c \in Cids : AddLink(c)) \/ AddCount \/ AddStore \/ AddSample
UpdateContribution ==
    \/ \E c \in Cids, b \in Ratings : UpdateFetch(c, b)
    \/ UpdateUnlink \/ UpdateLink \/ UpdateStore
    \/ \E verdict \in Verdicts : UpdateSample(verdict)
    \/ PushAbove \/ CountAbove \/ PushBelow \/ CountBelow \/ PostOutlier
RemoveContribution ==
    (\E c \in Cids : RemoveUnlink(c)) \/ RemoveCount \/ RemoveErase \/ RemoveSample
FetchMatchPair ==
    \/ MatchBegin \/ MatchThrow \/ MatchQueued
    \/ \E c \in Cids \cup {0} : MatchFirst(c) \/ MatchSecond(c)
FetchOutlier ==
    \/ WaitForOutlier \/ TestShutdown \/ ChooseQueue
    \/ TakeAbove \/ TakeBelow \/ PopAbove \/ PopBelow
Shutdown == StopIngest \/ StopMatch \/ FlagShutdown \/ TriggerOutlierWait

(* Nothing is said of the process once a step of it was undefined. *)
Defined == ingest.pc \notin {"crashed", "damaged"} /\ control # "undefined"

Next ==
    /\ Defined
    /\ \/ AddContribution \/ UpdateContribution \/ RemoveContribution
       \/ FetchMatchPair \/ FetchOutlier \/ Shutdown

Spec == Init /\ [][Next]_vars

--------------------------------------------------------------------------------
(* Properties *)

IngestPCs == {"idle", "failed", "crashed", "damaged", "stopped",
              "add_count", "add_store", "add_sample",
              "update_unlink", "update_link", "update_store", "update_sample",
              "push_above", "count_above", "push_below", "count_below", "post_outlier",
              "remove_count", "remove_erase", "remove_sample"}
MatchPCs == {"idle", "first", "second", "pair", "failed", "stopped"}
ControlPCs == {"wait", "woken", "above_more", "below_more", "above_any", "take_above",
               "take_below", "pop_above", "pop_below", "stopped", "undefined"}
Entries == Buckets \cup {Absent, Blank}

CoreTypeOK ==
    /\ store \in [Cids -> Entries]
    /\ elo_store \in [Buckets -> [Cids -> Nat]]
    /\ samples \in [Buckets -> Nat]
    /\ contribution_count \in 0 .. CountModulus - 1
MarksTypeOK ==
    /\ requeued \in [Buckets -> Cids \cup {0}]
    /\ blurred \in BOOLEAN
OutlierTypeOK ==
    /\ above_outliers_count \in 0 .. CountModulus - 1
    /\ below_outliers_count \in 0 .. CountModulus - 1
    /\ above_outlier_queue \in Seq(Cids)
    /\ below_outlier_queue \in Seq(Cids)
    /\ permits \in Nat
ThreadTypeOK ==
    /\ ingest \in [pc : IngestPCs, cid : Cids \cup {0}, old : Entries,
                   new : Entries \cup {OutOfRange}]
    /\ match \in [pc : MatchPCs, first : Cids \cup {0}, second : Cids \cup {0}]
    /\ control \in ControlPCs
    /\ shutdown \in {"none", "flagged", "posted"}
    /\ requests \in Nat
    /\ hist \in [honest : BOOLEAN, removed : BOOLEAN, below : BOOLEAN, zeroed : BOOLEAN]

(* Every variable stays in its type; above all, no list and no bag is ever *)
(* asked to give up what it does not have.                                 *)
TypeOK == CoreTypeOK /\ MarksTypeOK /\ OutlierTypeOK /\ ThreadTypeOK

InRequest(c, labels) == ingest.pc \in labels /\ ingest.cid = c

(* Where the list node and the sample of an id are, given how far the      *)
(* request in progress has come; Absent when there is none.                *)
NodeOf(c) ==
    CASE InRequest(c, {"add_count", "add_store", "update_store"}) -> ingest.new
      [] InRequest(c, {"update_link", "remove_count", "remove_erase"}) -> Absent
      [] OTHER -> store[c]
SampleOf(c) ==
    CASE InRequest(c, {"add_count", "add_store", "add_sample"}) -> Absent
      [] InRequest(c, {"update_unlink", "update_link", "update_store", "update_sample",
                       "remove_count", "remove_erase", "remove_sample"}) -> ingest.old
      [] OTHER -> store[c]

Counted == {c \in Cids :
    \/ store[c] # Absent /\ ~InRequest(c, {"remove_erase"})
    \/ InRequest(c, {"add_store"})}

(* As long as clients only add new ids and only update and remove existing *)
(* ones, and no rating leaves the range of the lists, the four structures  *)
(* agree between any two steps of a request: each entry of the map has     *)
(* exactly one node, in the list of its rating, and nothing else is in the *)
(* lists ...                                                               *)
NodesAgree ==
    hist.honest => \A b \in Buckets, c \in Cids :
        elo_store[b][c] = IF NodeOf(c) = b THEN 1 ELSE 0

(* ... the scorer holds exactly the rating of each entry ...               *)
SamplesAgree ==
    hist.honest => \A b \in Buckets :
        samples[b] = Cardinality({c \in Cids : SampleOf(c) = b})

(* ... and the counter that opens the match executor is their number, if   *)
(* it was zero to begin with, which the constructor does not see to.       *)
CountAgrees ==
    hist.honest /\ hist.zeroed => contribution_count = Cardinality(Counted)

(* Such clients never make the scorer throw, and no request of theirs goes *)
(* through a null position or past the lists.  Two things do bring the     *)
(* ingestion executor down for them: the removal or the update of the      *)
(* contribution that was drawn last from its list, while no other was      *)
(* linked there, damages the list, and the scorer may crash once it holds  *)
(* two equal ratings or was shrunk to two samples from its middle.         *)
NoFailure ==
    hist.honest =>
        /\ ingest.pc # "failed"
        /\ ingest.pc = "damaged" => requeued[store[ingest.cid]] = ingest.cid
        /\ ingest.pc = "crashed" => blurred

(* Whatever the clients send, an entry that has a position points to a node *)
(* that is still in the list of its rating, except while the request that  *)
(* moves it is between unlinking the node and storing the new entry, or    *)
(* has gone past the lists there.                                          *)
PositionsValid ==
    \A c \in Cids :
        \/ store[c] \notin Buckets
        \/ elo_store[store[c]][c] >= 1
        \/ InRequest(c, {"update_link", "update_store", "remove_count", "remove_erase",
                         "crashed"})

(* The match executor can only run into an empty scorer after a removal: it *)
(* refills when there are MinMatchCount contributions, of which all but the *)
(* last are known to have their sample.                                    *)
MatchFailsOnlyAfterRemoval ==
    match.pc = "failed" => hist.removed \/ ~hist.honest \/ ~hist.zeroed

(* A permit of outlier_queue_sem stands for one queued outlier, or for the *)
(* shutdown of the control executor.                                       *)
OutlierTokens ==
    LET One(holds) == IF holds THEN 1 ELSE 0 IN
    control # "undefined" =>
        Len(above_outlier_queue) + Len(below_outlier_queue) + One(shutdown = "posted")
        = permits + One(control # "wait")
          + One(ingest.pc \in {"count_above", "count_below", "post_outlier"})

(* The control executor never pops an empty outlier queue as long as no low *)
(* outlier was reported, not even when it is woken to shut down.           *)
PopsOnlyQueued == control = "undefined" => hist.below \/ ~hist.zeroed

(* A low outlier is no reason to pop a queue that is empty either; the     *)
(* counter incremented for it is the wrong one.                            *)
NeverPopsEmpty == control # "undefined"

================================================================================
