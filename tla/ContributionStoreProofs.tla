------------------------ MODULE ContributionStoreProofs ------------------------
(***************************************************************************)
(* Proofs about ContributionStore for any finite set of contributions, any *)
(* number of lists, any modulus and initial contents of the counters, and  *)
(* any number of requests.  The second half is about the agreement of its  *)
(* parts: of the outlier semaphore with the outlier queues, for any        *)
(* clients, and of the lists with the map, for clients that only add what  *)
(* is not there and only update and remove what is; and about what the     *)
(* other two threads can rely on because of it.                            *)
(***************************************************************************)
EXTENDS ContributionStore, FiniteSetTheorems, SequenceTheorems, TLAPS

(* Names of tuples of variables *)
USE DEF listVars, scorerVars, allButDraws

Adding    == {"add_count", "add_store", "add_sample"}
Updating  == {"update_unlink", "update_link", "update_store", "update_sample"}
Reporting == {"push_above", "count_above", "push_below", "count_below", "post_outlier"}
Removing  == {"remove_count", "remove_erase", "remove_sample"}

(* What the ingestion thread knows of its request: which id and ratings it *)
(* deals with, and that the node it has linked is there.                   *)
RequestOK ==
    /\ ingest.pc \in Adding \cup Updating \cup Reporting \cup Removing => ingest.cid \in Cids
    /\ ingest.pc \in Adding \cup {"update_store", "update_sample"} => ingest.new \in Buckets
    /\ ingest.pc \in Updating \cup Removing => ingest.old \in Buckets
    /\ ingest.pc = "update_unlink" => store[ingest.cid] # Absent
    /\ ingest.pc \in {"add_count", "add_store", "update_store"} =>
           elo_store[ingest.new][ingest.cid] >= 1

StoreInv == TypeOK /\ RequestOK /\ PositionsValid

--------------------------------------------------------------------------------
(* Facts about the data *)

LEMMA BucketFacts ==
  /\ 0 \in Buckets /\ InitialBucket \in Buckets
  /\ Absent \notin Buckets /\ Blank \notin Buckets /\ Absent # Blank
  BY StoreAssumption DEF Buckets, InitialBucket, Absent, Blank

LEMMA EntryFacts ==
  /\ Buckets \subseteq Entries /\ Absent \in Entries /\ Blank \in Entries
  /\ \A e \in Entries : e # Absent => RatingOf(e) \in Buckets
  BY BucketFacts DEF Entries, RatingOf

LEMMA CounterFacts ==
  \A n \in 0 .. CountModulus - 1 :
      Plus1(n) \in 0 .. CountModulus - 1 /\ Minus1(n) \in 0 .. CountModulus - 1
  BY StoreAssumption DEF Plus1, Minus1

(* Pushing onto and popping from an outlier queue. *)
LEMMA QueueFacts ==
  ASSUME NEW q \in Seq(Cids)
  PROVE  /\ Len(q) \in Nat
         /\ \A c \in Cids : Append(q, c) \in Seq(Cids) /\ Len(Append(q, c)) = Len(q) + 1
         /\ q # <<>> => Tail(q) \in Seq(Cids) /\ Len(Tail(q)) = Len(q) - 1
  BY AppendProperties, HeadTailProperties, LenProperties

(* Looking an id up leaves it with an entry, and the others as they were.  *)
LEMMA TouchedFacts ==
  ASSUME store \in [Cids -> Entries], NEW c \in Cids
  PROVE  /\ Touched(c) \in [Cids -> Entries]
         /\ Touched(c)[c] # Absent
         /\ \A d \in Cids : Touched(c)[d] = store[d] \/ (d = c /\ Touched(c)[d] = Blank)
  BY EntryFacts, BucketFacts DEF Touched

--------------------------------------------------------------------------------
(* The type invariant, and the positions of the map *)

LEMMA StoreInvInit == Init => StoreInv
<1> SUFFICES ASSUME Init PROVE StoreInv
  OBVIOUS
<1> USE StoreAssumption, BucketFacts, EntryFacts DEF Init
<1>1. CoreTypeOK
  BY DEF CoreTypeOK
<1>2. OutlierTypeOK
  BY DEF OutlierTypeOK
<1>3. ThreadTypeOK
  BY DEF ThreadTypeOK, IngestPCs, MatchPCs, ControlPCs
<1>4. RequestOK
  BY DEF RequestOK, Adding, Updating, Removing, Reporting
<1>5. PositionsValid
  BY DEF PositionsValid
<1>6. MarksTypeOK
  BY DEF MarksTypeOK
<1>7. QED
  BY <1>1, <1>2, <1>3, <1>4, <1>5, <1>6 DEF StoreInv, TypeOK

LEMMA OutlierTypeStep ==
  ASSUME StoreInv, Next
  PROVE  OutlierTypeOK'
<1> USE CounterFacts DEF StoreInv, TypeOK, OutlierTypeOK
<1>1. ASSUME UNCHANGED outlierVars PROVE OutlierTypeOK'
  BY <1>1 DEF outlierVars
<1>2. CASE PushAbove \/ PushBelow
  <2>1. ingest.cid \in Cids
    BY <1>2 DEF PushAbove, PushBelow, IngestAt, RequestOK, Reporting
  <2>2. CASE PushAbove
    BY <2>1, <2>2, QueueFacts DEF PushAbove
  <2>3. CASE PushBelow
    BY <2>1, <2>3, QueueFacts DEF PushBelow
  <2>4. QED
    BY <1>2, <2>2, <2>3
<1>3. CASE CountAbove \/ CountBelow
  BY <1>3 DEF CountAbove, CountBelow
<1>4. CASE PostOutlier
  BY <1>4 DEF PostOutlier
<1>5. CASE WaitForOutlier
  BY <1>5 DEF WaitForOutlier
<1>6. CASE TakeAbove \/ TakeBelow
  BY <1>6 DEF TakeAbove, TakeBelow
<1>7. CASE PopAbove
  BY <1>7, QueueFacts DEF PopAbove
<1>8. CASE PopBelow
  BY <1>8, QueueFacts DEF PopBelow
<1>9. CASE TriggerOutlierWait
  BY <1>9 DEF TriggerOutlierWait
<1>10. CASE FetchMatchPair \/ StopMatch
  <2>1. UNCHANGED outlierVars
    BY <1>10 DEF FetchMatchPair, MatchBegin, MatchThrow, MatchQueued, MatchFirst,
                 MatchSecond, StopMatch, ingestAndControlVars
  <2>2. QED
    BY <2>1, <1>1
<1>11. CASE AddContribution \/ RemoveContribution \/ StopIngest \/ FlagShutdown
            \/ TestShutdown \/ ChooseQueue
  <2>1. UNCHANGED outlierVars
    BY <1>11 DEF AddContribution, AddLink, AddCount, AddStore, AddSample, RemoveContribution,
                 RemoveUnlink, RemoveCount, RemoveErase, RemoveSample, StopIngest,
                 FlagShutdown, TestShutdown, ChooseQueue
  <2>2. QED
    BY <2>1, <1>1
<1>12. CASE (\E c \in Cids, b \in Ratings : UpdateFetch(c, b)) \/ UpdateUnlink \/ UpdateLink
            \/ UpdateStore \/ \E v \in Verdicts : UpdateSample(v)
  <2>1. UNCHANGED outlierVars
    BY <1>12 DEF UpdateFetch, UpdateUnlink, UpdateLink, UpdateStore, UpdateSample
  <2>2. QED
    BY <2>1, <1>1
<1>13. QED
  BY <1>2, <1>3, <1>4, <1>5, <1>6, <1>7, <1>8, <1>9, <1>10, <1>11, <1>12
     DEF Next, UpdateContribution, FetchOutlier, Shutdown

(* Linking and unlinking a node changes one count by one. *)
LEMMA LinkedFacts ==
  ASSUME elo_store \in [Buckets -> [Cids -> Nat]], NEW b \in Buckets, NEW c \in Cids
  PROVE  /\ Linked(b, c) \in [Buckets -> [Cids -> Nat]]
         /\ Linked(b, c)[b][c] = elo_store[b][c] + 1 /\ Linked(b, c)[b][c] >= 1
         /\ \A x \in Buckets, d \in Cids :
               x # b \/ d # c => Linked(b, c)[x][d] = elo_store[x][d]
         /\ \A x \in Buckets, d \in Cids : Linked(b, c)[x][d] >= elo_store[x][d]
  BY DEF Linked

LEMMA UnlinkedFacts ==
  ASSUME elo_store \in [Buckets -> [Cids -> Nat]], NEW b \in Buckets, NEW c \in Cids,
         elo_store[b][c] >= 1
  PROVE  /\ Unlinked(b, c) \in [Buckets -> [Cids -> Nat]]
         /\ Unlinked(b, c)[b][c] = elo_store[b][c] - 1
         /\ \A x \in Buckets, d \in Cids :
               x # b \/ d # c => Unlinked(b, c)[x][d] = elo_store[x][d]
<1>1. elo_store[b][c] - 1 \in Nat
  OBVIOUS
<1>2. QED
  BY <1>1 DEF Unlinked

LEMMA AddedFacts ==
  ASSUME NEW f \in [Buckets -> Nat], NEW b \in Buckets
  PROVE  [f EXCEPT ![b] = @ + 1] \in [Buckets -> Nat]
  OBVIOUS

(* A bag that does not refuse a removal has what is removed, or one sample. *)
LEMMA WithoutFacts ==
  ASSUME samples \in [Buckets -> Nat], NEW b \in Buckets, ~Scorer!RemoveThrows(b)
  PROVE  Scorer!Without(b) \in [Buckets -> Nat]
  BY DEF Scorer!Without, Scorer!RemoveThrows

IngestType == [pc : IngestPCs, cid : Cids \cup {0}, old : Entries, new : Entries \cup {OutOfRange}]

(* Going to another label changes nothing else of the ingestion thread. *)
LEMMA GotoFacts ==
  ASSUME ThreadTypeOK, NEW label \in IngestPCs, IngestGoto(label)
  PROVE  /\ ingest' \in IngestType
         /\ ingest'.pc = label
         /\ ingest'.cid = ingest.cid /\ ingest'.old = ingest.old /\ ingest'.new = ingest.new
  BY DEF ThreadTypeOK, IngestType, IngestGoto

(* The part of the invariant that the ingestion thread can disturb. *)
IngestInv ==
    /\ CoreTypeOK /\ RequestOK /\ PositionsValid
    /\ ingest \in IngestType

LEMMA AddStep ==
  ASSUME StoreInv, AddContribution
  PROVE  IngestInv'
<1> USE BucketFacts, EntryFacts DEF StoreInv, TypeOK
<1>1. ASSUME NEW c \in Cids, AddLink(c) PROVE IngestInv'
  <2>1. /\ ingest' = [pc |-> "add_count", cid |-> c, old |-> Absent, new |-> InitialBucket]
        /\ elo_store' = [elo_store EXCEPT ![InitialBucket][c] = @ + 1]
        /\ UNCHANGED <<store, samples, contribution_count>>
        /\ ingest.pc = "idle"
    BY <1>1 DEF AddLink, Link, BeginRequest, Linked, IngestAt
  <2>2. CoreTypeOK'
    BY <2>1 DEF CoreTypeOK
  <2>3. RequestOK'
    BY <2>1 DEF RequestOK, Adding, Updating, Removing, Reporting, CoreTypeOK
  <2>4. PositionsValid'
    BY <2>1 DEF PositionsValid, InRequest, CoreTypeOK
  <2>5. QED
    BY <2>1, <2>2, <2>3, <2>4 DEF IngestInv, IngestType, IngestPCs
<1>2. CASE AddCount
  <2>1. /\ ingest.pc = "add_count" /\ IngestGoto("add_store")
        /\ contribution_count' = Plus1(contribution_count)
        /\ UNCHANGED <<store, elo_store, samples>>
    BY <1>2 DEF AddCount, IngestAt
  <2>2. /\ ingest' \in IngestType
        /\ ingest'.pc = "add_store"
        /\ ingest'.cid = ingest.cid /\ ingest'.old = ingest.old /\ ingest'.new = ingest.new
    BY <2>1, GotoFacts DEF IngestPCs
  <2>3. CoreTypeOK'
    BY <2>1, CounterFacts DEF CoreTypeOK
  <2>4. RequestOK' /\ PositionsValid'
    BY <2>1, <2>2 DEF RequestOK, PositionsValid, InRequest, Adding, Updating, Removing, Reporting
  <2>5. QED
    BY <2>2, <2>3, <2>4 DEF IngestInv
<1>3. CASE AddStore
  <2>1. /\ ingest.pc = "add_store" /\ IngestGoto("add_sample")
        /\ store' = [store EXCEPT ![ingest.cid] = ingest.new]
        /\ UNCHANGED <<elo_store, samples, contribution_count>>
    BY <1>3 DEF AddStore, IngestAt
  <2>2. /\ ingest' \in IngestType
        /\ ingest'.pc = "add_sample"
        /\ ingest'.cid = ingest.cid /\ ingest'.old = ingest.old /\ ingest'.new = ingest.new
    BY <2>1, GotoFacts DEF IngestPCs
  <2>3. /\ ingest.cid \in Cids /\ ingest.new \in Buckets
        /\ elo_store[ingest.new][ingest.cid] >= 1
    BY <2>1 DEF RequestOK, Adding
  <2>4. CoreTypeOK'
    BY <2>1, <2>3 DEF CoreTypeOK
  <2>5. RequestOK' /\ PositionsValid'
    BY <2>1, <2>2, <2>3
       DEF RequestOK, PositionsValid, InRequest, Adding, Updating, Removing, Reporting, CoreTypeOK
  <2>6. QED
    BY <2>2, <2>4, <2>5 DEF IngestInv
<1>4. CASE AddSample
  <2>1. /\ ingest.pc = "add_sample"
        /\ IngestGoto("idle") \/ IngestGoto("crashed")
        /\ samples' = Scorer!With(ingest.new)
        /\ UNCHANGED <<store, elo_store, contribution_count>>
    BY <1>4 DEF AddSample, IngestAt
  <2>2. /\ ingest' \in IngestType
        /\ ingest'.pc \in {"idle", "crashed"}
    BY <2>1, GotoFacts DEF IngestPCs
  <2>3. CoreTypeOK'
    BY <2>1, AddedFacts DEF CoreTypeOK, Scorer!With, RequestOK, Adding
  <2>4. RequestOK' /\ PositionsValid'
    BY <2>1, <2>2 DEF RequestOK, PositionsValid, InRequest, Adding, Updating, Removing, Reporting
  <2>5. QED
    BY <2>2, <2>3, <2>4 DEF IngestInv
<1>5. QED
  BY <1>1, <1>2, <1>3, <1>4 DEF AddContribution

LEMMA UpdateStep ==
  ASSUME StoreInv,
         \/ \E c \in Cids, b \in Ratings : UpdateFetch(c, b)
         \/ UpdateUnlink \/ UpdateLink \/ UpdateStore
         \/ \E verdict \in Verdicts : UpdateSample(verdict)
  PROVE  IngestInv'
<1> USE BucketFacts, EntryFacts DEF StoreInv, TypeOK
<1>1. ASSUME NEW c \in Cids, NEW b \in Ratings, UpdateFetch(c, b) PROVE IngestInv'
  <2>1. /\ store' = Touched(c)
        /\ ingest' = [pc |-> "update_unlink", cid |-> c, old |-> RatingOf(Touched(c)[c]), new |-> b]
        /\ UNCHANGED <<elo_store, samples, contribution_count>>
        /\ ingest.pc = "idle"
    BY <1>1 DEF UpdateFetch, BeginRequest, IngestAt
  <2>2. /\ store' \in [Cids -> Entries]
        /\ store'[c] # Absent
        /\ \A d \in Cids : store'[d] = store[d] \/ (d = c /\ store'[d] = Blank)
    BY <2>1, TouchedFacts DEF CoreTypeOK
  <2>3. CoreTypeOK'
    BY <2>1, <2>2 DEF CoreTypeOK
  <2>4. RatingOf(Touched(c)[c]) \in Buckets
    BY <2>1, <2>2
  <2>5. RequestOK'
    BY <2>1, <2>2, <2>4 DEF RequestOK, Adding, Updating, Removing, Reporting
  <2>6. PositionsValid'
    BY <2>1, <2>2 DEF PositionsValid, InRequest
  <2>7. QED
    BY <2>1, <2>3, <2>4, <2>5, <2>6 DEF IngestInv, IngestType, IngestPCs, Ratings
<1>2. CASE UpdateUnlink
  <2> DEFINE c == ingest.cid
             entry == store[c]
  <2>1. /\ ingest.pc = "update_unlink"
        /\ UNCHANGED <<store, samples, contribution_count>>
        /\ \/ UNCHANGED elo_store /\ (IngestGoto("crashed") \/ IngestGoto("damaged"))
           \/ elo_store' = AfterUnlink(c, entry) /\ IngestGoto("update_link")
    BY <1>2 DEF UpdateUnlink, Unlink, IngestAt
  <2>2. c \in Cids /\ ingest.old \in Buckets /\ entry # Absent
    BY <2>1 DEF RequestOK, Updating
  <2>3. entry \in Buckets => elo_store[entry][c] >= 1
    BY <2>1, <2>2 DEF PositionsValid, InRequest
  <2>4. CASE UNCHANGED elo_store /\ (IngestGoto("crashed") \/ IngestGoto("damaged"))
    <3>1. ingest' \in IngestType /\ ingest'.pc \in {"crashed", "damaged"}
      BY <2>4, GotoFacts DEF IngestPCs
    <3>2. CoreTypeOK' /\ RequestOK' /\ PositionsValid'
      BY <2>1, <2>4, <3>1 DEF CoreTypeOK, RequestOK, PositionsValid, InRequest,
                              Adding, Updating, Removing, Reporting
    <3>3. QED
      BY <3>1, <3>2 DEF IngestInv
  <2>5. CASE elo_store' = AfterUnlink(c, entry) /\ IngestGoto("update_link")
    <3>1. /\ ingest' \in IngestType /\ ingest'.pc = "update_link"
          /\ ingest'.cid = ingest.cid /\ ingest'.old = ingest.old /\ ingest'.new = ingest.new
      BY <2>5, GotoFacts DEF IngestPCs
    <3>2. /\ elo_store' \in [Buckets -> [Cids -> Nat]]
          /\ \A b \in Buckets, d \in Cids : d # c => elo_store'[b][d] = elo_store[b][d]
      <4>1. CASE entry = Blank
        BY <4>1, <2>5 DEF AfterUnlink, CoreTypeOK
      <4>2. CASE entry \in Buckets
        <5>1. elo_store' = Unlinked(entry, c)
          BY <4>2, <2>5 DEF AfterUnlink
        <5>2. QED
          BY <4>2, <5>1, <2>2, <2>3, UnlinkedFacts DEF CoreTypeOK
      <4>3. QED
        BY <4>1, <4>2, <2>2 DEF CoreTypeOK, Entries
    <3>3. CoreTypeOK'
      BY <2>1, <3>2 DEF CoreTypeOK
    <3>4. RequestOK'
      BY <2>2, <3>1 DEF RequestOK, Adding, Updating, Removing, Reporting
    <3>5. PositionsValid'
      BY <2>1, <3>1, <3>2 DEF PositionsValid, InRequest
    <3>6. QED
      BY <3>1, <3>3, <3>4, <3>5 DEF IngestInv
  <2>6. QED
    BY <2>1, <2>4, <2>5
<1>3. CASE UpdateLink
  <2>1. /\ ingest.pc = "update_link"
        /\ UNCHANGED <<store, samples, contribution_count>>
        /\ IF ingest.new \in Buckets
           THEN elo_store' = Linked(ingest.new, ingest.cid) /\ IngestGoto("update_store")
           ELSE IngestGoto("crashed") /\ UNCHANGED elo_store
    BY <1>3 DEF UpdateLink, Link, IngestAt
  <2>2. CASE ingest.new \in Buckets
    <3>1. /\ ingest.pc = "update_link" /\ IngestGoto("update_store")
          /\ elo_store' = Linked(ingest.new, ingest.cid)
          /\ UNCHANGED <<store, samples, contribution_count>>
      BY <2>1, <2>2
    <3>2. /\ ingest' \in IngestType /\ ingest'.pc = "update_store"
          /\ ingest'.cid = ingest.cid /\ ingest'.old = ingest.old /\ ingest'.new = ingest.new
      BY <3>1, GotoFacts DEF IngestPCs
    <3>3. ingest.cid \in Cids /\ ingest.new \in Buckets /\ ingest.old \in Buckets
      BY <2>2, <3>1 DEF RequestOK, Updating
    <3>4. /\ elo_store' \in [Buckets -> [Cids -> Nat]]
          /\ elo_store'[ingest.new][ingest.cid] >= 1
          /\ \A b \in Buckets, d \in Cids : elo_store'[b][d] >= elo_store[b][d]
      BY <3>1, <3>3, LinkedFacts DEF CoreTypeOK
    <3>5. CoreTypeOK'
      BY <3>1, <3>4 DEF CoreTypeOK
    <3>6. RequestOK'
      BY <3>2, <3>3, <3>4 DEF RequestOK, Adding, Updating, Removing, Reporting
    <3>7. PositionsValid'
      <4> SUFFICES ASSUME NEW d \in Cids, store'[d] \in Buckets,
                          ~InRequest(d, {"update_link", "update_store", "remove_count", "remove_erase",
                                           "crashed"})'
                   PROVE  elo_store'[store'[d]][d] >= 1
        BY DEF PositionsValid
      <4>1. d # ingest.cid /\ store'[d] = store[d]
        BY <3>1, <3>2 DEF InRequest
      <4>2. elo_store[store[d]][d] >= 1
        BY <3>1, <4>1 DEF PositionsValid, InRequest
      <4>3. elo_store[store[d]][d] \in Nat /\ elo_store'[store[d]][d] \in Nat
        BY <4>1, <3>4 DEF CoreTypeOK
      <4>4. QED
        BY <4>1, <4>2, <4>3, <3>4
    <3>8. QED
      BY <3>2, <3>5, <3>6, <3>7 DEF IngestInv
  <2>3. CASE ingest.new \notin Buckets
    <3>1. UNCHANGED elo_store /\ IngestGoto("crashed")
      BY <2>1, <2>3
    <3>2. ingest' \in IngestType /\ ingest'.pc = "crashed" /\ ingest'.cid = ingest.cid
      BY <3>1, GotoFacts DEF IngestPCs
    <3>3. CoreTypeOK' /\ RequestOK' /\ PositionsValid'
      BY <2>1, <3>1, <3>2 DEF CoreTypeOK, RequestOK, PositionsValid, InRequest,
                              Adding, Updating, Removing, Reporting
    <3>4. QED
      BY <3>2, <3>3 DEF IngestInv
  <2>4. QED
    BY <2>2, <2>3
<1>4. CASE UpdateStore
  <2>1. /\ ingest.pc = "update_store" /\ IngestGoto("update_sample")
        /\ store' = [store EXCEPT ![ingest.cid] = ingest.new]
        /\ UNCHANGED <<elo_store, samples, contribution_count>>
    BY <1>4 DEF UpdateStore, IngestAt
  <2>2. /\ ingest' \in IngestType /\ ingest'.pc = "update_sample"
        /\ ingest'.cid = ingest.cid /\ ingest'.old = ingest.old /\ ingest'.new = ingest.new
    BY <2>1, GotoFacts DEF IngestPCs
  <2>3. /\ ingest.cid \in Cids /\ ingest.new \in Buckets /\ ingest.old \in Buckets
        /\ elo_store[ingest.new][ingest.cid] >= 1
    BY <2>1 DEF RequestOK, Updating
  <2>4. CoreTypeOK'
    BY <2>1, <2>3 DEF CoreTypeOK
  <2>5. RequestOK' /\ PositionsValid'
    BY <2>1, <2>2, <2>3
       DEF RequestOK, PositionsValid, InRequest, Adding, Updating, Removing, Reporting, CoreTypeOK
  <2>6. QED
    BY <2>2, <2>4, <2>5 DEF IngestInv
<1>5. ASSUME NEW verdict \in Verdicts, UpdateSample(verdict) PROVE IngestInv'
  <2>1. /\ ingest.pc = "update_sample"
        /\ UNCHANGED <<store, elo_store, contribution_count>>
        /\ \/ UNCHANGED samples /\ IngestGoto("failed")
           \/ /\ ~Scorer!RemoveThrows(ingest.old)
              /\ samples' = [Scorer!Without(ingest.old) EXCEPT ![ingest.new] = @ + 1]
              /\ \E label \in {"idle", "push_above", "push_below", "crashed"} : IngestGoto(label)
    BY <1>5 DEF UpdateSample, IngestAt, Verdicts, Rest!With
  <2>2. ingest.cid \in Cids /\ ingest.new \in Buckets /\ ingest.old \in Buckets
    BY <2>1 DEF RequestOK, Updating
  <2>3. PICK label \in {"failed", "idle", "push_above", "push_below", "crashed"} : IngestGoto(label)
    BY <2>1
  <2>4. /\ ingest' \in IngestType /\ ingest'.pc = label /\ ingest'.cid = ingest.cid
    BY <2>3, GotoFacts DEF IngestPCs
  <2>5. samples' \in [Buckets -> Nat]
    <3>1. CASE UNCHANGED samples
      BY <3>1 DEF CoreTypeOK
    <3>2. CASE /\ ~Scorer!RemoveThrows(ingest.old)
               /\ samples' = [Scorer!Without(ingest.old) EXCEPT ![ingest.new] = @ + 1]
      <4>1. Scorer!Without(ingest.old) \in [Buckets -> Nat]
        BY <2>2, <3>2, WithoutFacts DEF CoreTypeOK
      <4>2. QED
        BY <2>2, <3>2, <4>1
    <3>3. QED
      BY <2>1, <3>1, <3>2
  <2>6. CoreTypeOK'
    BY <2>1, <2>5 DEF CoreTypeOK
  <2>7. RequestOK' /\ PositionsValid'
    BY <2>1, <2>2, <2>4
       DEF RequestOK, PositionsValid, InRequest, Adding, Updating, Removing, Reporting
  <2>8. QED
    BY <2>4, <2>6, <2>7 DEF IngestInv
<1>6. QED
  BY <1>1, <1>2, <1>3, <1>4, <1>5

LEMMA RemoveStep ==
  ASSUME StoreInv, RemoveContribution
  PROVE  IngestInv'
<1> USE BucketFacts, EntryFacts DEF StoreInv, TypeOK
<1>1. ASSUME NEW c \in Cids, RemoveUnlink(c) PROVE IngestInv'
  <2> DEFINE entry == Touched(c)[c]
  <2>1. /\ store' = Touched(c) /\ ingest.pc = "idle"
        /\ UNCHANGED <<samples, contribution_count>>
        /\ \/ /\ UNCHANGED elo_store
              /\ \E label \in {"crashed", "damaged"} :
                    ingest' = [pc |-> label, cid |-> c, old |-> RatingOf(entry), new |-> Absent]
           \/ /\ elo_store' = AfterUnlink(c, entry)
              /\ ingest' = [pc |-> "remove_count", cid |-> c, old |-> RatingOf(entry), new |-> Absent]
    BY <1>1 DEF RemoveUnlink, Unlink, BeginRequest, IngestAt
  <2>2. /\ store' \in [Cids -> Entries]
        /\ store'[c] = entry /\ entry \in Entries /\ entry # Absent
        /\ \A d \in Cids : store'[d] = store[d] \/ (d = c /\ store'[d] = Blank)
    BY <2>1, TouchedFacts DEF CoreTypeOK
  <2>3. entry \in Buckets => entry = store[c] /\ elo_store[entry][c] >= 1
    BY <2>1, <2>2 DEF PositionsValid, InRequest
  <2>4. CASE /\ UNCHANGED elo_store
             /\ \E label \in {"crashed", "damaged"} :
                   ingest' = [pc |-> label, cid |-> c, old |-> RatingOf(entry), new |-> Absent]
    <3>1. CoreTypeOK'
      BY <2>1, <2>2, <2>4 DEF CoreTypeOK
    <3>2. RequestOK'
      BY <2>4 DEF RequestOK, Adding, Updating, Removing, Reporting
    <3>3. PositionsValid'
      BY <2>1, <2>2, <2>4 DEF PositionsValid, InRequest
    <3>4. QED
      BY <2>2, <2>4, <3>1, <3>2, <3>3 DEF IngestInv, IngestType, IngestPCs
  <2>5. CASE /\ elo_store' = AfterUnlink(c, entry)
             /\ ingest' = [pc |-> "remove_count", cid |-> c, old |-> RatingOf(entry), new |-> Absent]
    <3>1. /\ elo_store' \in [Buckets -> [Cids -> Nat]]
          /\ \A b \in Buckets, d \in Cids : d # c => elo_store'[b][d] = elo_store[b][d]
      <4>1. CASE entry = Blank
        BY <4>1, <2>5 DEF AfterUnlink, CoreTypeOK
      <4>2. CASE entry \in Buckets
        <5>1. elo_store' = Unlinked(entry, c)
          BY <4>2, <2>5 DEF AfterUnlink
        <5>2. QED
          BY <4>2, <5>1, <2>2, <2>3, UnlinkedFacts DEF CoreTypeOK
      <4>3. QED
        BY <4>1, <4>2, <2>2 DEF Entries
    <3>2. RatingOf(entry) \in Buckets
      BY <2>2
    <3>3. CoreTypeOK'
      BY <2>1, <2>2, <3>1 DEF CoreTypeOK
    <3>4. RequestOK'
      BY <2>5, <3>2 DEF RequestOK, Adding, Updating, Removing, Reporting
    <3>5. PositionsValid'
      BY <2>1, <2>2, <2>5, <3>1 DEF PositionsValid, InRequest
    <3>6. QED
      BY <2>5, <3>2, <3>3, <3>4, <3>5 DEF IngestInv, IngestType, IngestPCs
  <2>6. QED
    BY <2>1, <2>4, <2>5
<1>2. CASE RemoveCount
  <2>1. /\ ingest.pc = "remove_count" /\ IngestGoto("remove_erase")
        /\ contribution_count' = Minus1(contribution_count)
        /\ UNCHANGED <<store, elo_store, samples>>
    BY <1>2 DEF RemoveCount, IngestAt
  <2>2. /\ ingest' \in IngestType /\ ingest'.pc = "remove_erase"
        /\ ingest'.cid = ingest.cid /\ ingest'.old = ingest.old
    BY <2>1, GotoFacts DEF IngestPCs
  <2>3. CoreTypeOK'
    BY <2>1, CounterFacts DEF CoreTypeOK
  <2>4. RequestOK' /\ PositionsValid'
    BY <2>1, <2>2 DEF RequestOK, PositionsValid, InRequest, Adding, Updating, Removing, Reporting
  <2>5. QED
    BY <2>2, <2>3, <2>4 DEF IngestInv
<1>3. CASE RemoveErase
  <2>1. /\ ingest.pc = "remove_erase" /\ IngestGoto("remove_sample")
        /\ store' = [store EXCEPT ![ingest.cid] = Absent]
        /\ UNCHANGED <<elo_store, samples, contribution_count>>
    BY <1>3 DEF RemoveErase, IngestAt
  <2>2. /\ ingest' \in IngestType /\ ingest'.pc = "remove_sample"
        /\ ingest'.cid = ingest.cid /\ ingest'.old = ingest.old
    BY <2>1, GotoFacts DEF IngestPCs
  <2>3. CoreTypeOK'
    BY <2>1 DEF CoreTypeOK
  <2>4. RequestOK' /\ PositionsValid'
    BY <2>1, <2>2
       DEF RequestOK, PositionsValid, InRequest, Adding, Updating, Removing, Reporting, CoreTypeOK
  <2>5. QED
    BY <2>2, <2>3, <2>4 DEF IngestInv
<1>4. CASE RemoveSample
  <2>1. /\ ingest.pc = "remove_sample"
        /\ UNCHANGED <<store, elo_store, contribution_count>>
        /\ \/ UNCHANGED samples /\ IngestGoto("failed")
           \/ /\ ~Scorer!RemoveThrows(ingest.old)
              /\ samples' = Scorer!Without(ingest.old)
              /\ IngestGoto("idle") \/ IngestGoto("crashed")
    BY <1>4 DEF RemoveSample, IngestAt
  <2>2. ingest.old \in Buckets
    BY <2>1 DEF RequestOK, Removing
  <2>3. CoreTypeOK'
    BY <2>1, <2>2, WithoutFacts DEF CoreTypeOK
  <2>4. PICK label \in {"failed", "idle", "crashed"} : IngestGoto(label)
    BY <2>1
  <2>5. ingest' \in IngestType /\ ingest'.pc = label
    BY <2>4, GotoFacts DEF IngestPCs
  <2>6. RequestOK' /\ PositionsValid'
    BY <2>1, <2>5 DEF RequestOK, PositionsValid, InRequest, Adding, Updating, Removing, Reporting
  <2>7. QED
    BY <2>3, <2>5, <2>6 DEF IngestInv
<1>5. QED
  BY <1>1, <1>2, <1>3, <1>4 DEF RemoveContribution

(* The steps that report an outlier, and the end of the thread, only move  *)
(* the ingestion thread on.                                                *)
LEMMA ReportStep ==
  ASSUME StoreInv,
         PushAbove \/ CountAbove \/ PushBelow \/ CountBelow \/ PostOutlier \/ StopIngest
  PROVE  IngestInv'
<1> USE DEF StoreInv, TypeOK
<1>1. /\ UNCHANGED <<store, elo_store, samples, contribution_count>>
      /\ ingest.pc \in Reporting \cup {"idle", "failed"}
      /\ \/ /\ ingest.pc \in Reporting
            /\ \E label \in {"count_above", "count_below", "post_outlier", "idle"} : IngestGoto(label)
         \/ IngestGoto("stopped")
  BY DEF PushAbove, CountAbove, PushBelow, CountBelow, PostOutlier, StopIngest, IngestAt,
         coreVars, Reporting
<1>2. PICK label \in {"count_above", "count_below", "post_outlier", "idle", "stopped"} :
         IngestGoto(label) /\ (ingest.pc \in Reporting \/ label = "stopped")
  BY <1>1
<1>3. ingest' \in IngestType /\ ingest'.pc = label /\ ingest'.cid = ingest.cid
  BY <1>2, GotoFacts DEF IngestPCs
<1>4. CoreTypeOK'
  BY <1>1 DEF CoreTypeOK
<1>5. RequestOK' /\ PositionsValid'
  BY <1>1, <1>2, <1>3
     DEF RequestOK, PositionsValid, InRequest, Adding, Updating, Removing, Reporting
<1>6. QED
  BY <1>3, <1>4, <1>5 DEF IngestInv

(* The match thread, the control thread and the orchestrator after the end *)
(* of ingestion leave the core of the store and the ingestion thread alone. *)
Bystander == FetchMatchPair \/ FetchOutlier \/ StopMatch \/ FlagShutdown \/ TriggerOutlierWait

LEMMA BystanderFacts ==
  ASSUME Bystander
  PROVE  UNCHANGED <<store, elo_store, samples, contribution_count, ingest, requests, hist>>
  BY DEF Bystander, FetchMatchPair, MatchBegin, MatchThrow, MatchQueued, MatchFirst, MatchSecond,
         FetchOutlier, WaitForOutlier, TestShutdown, ChooseQueue, TakeAbove, TakeBelow,
         PopAbove, PopBelow, FlagShutdown, TriggerOutlierWait, StopMatch,
         ingestAndControlVars, ingestAndMatchVars, coreVars

LEMMA BystanderStep ==
  ASSUME StoreInv, Bystander
  PROVE  IngestInv'
<1>1. UNCHANGED <<store, elo_store, samples, contribution_count, ingest>>
  BY BystanderFacts
<1>2. ingest \in IngestType
  BY DEF StoreInv, TypeOK, ThreadTypeOK, IngestType
<1>3. CoreTypeOK'
  BY <1>1 DEF StoreInv, TypeOK, CoreTypeOK
<1>4. RequestOK' /\ PositionsValid'
  BY <1>1 DEF StoreInv, RequestOK, PositionsValid, InRequest
<1>5. QED
  BY <1>1, <1>2, <1>3, <1>4 DEF IngestInv

(* Every step belongs to one of the cases above. *)
LEMMA IngestStep ==
  ASSUME StoreInv, Next
  PROVE  IngestInv'
  BY AddStep, UpdateStep, RemoveStep, ReportStep, BystanderStep
     DEF Next, UpdateContribution, Shutdown, Bystander

(* A draw keeps the type of the match thread. *)
MatchType == match \in [pc : MatchPCs, first : Cids \cup {0}, second : Cids \cup {0}]

LEMMA DrawTypeStep ==
  ASSUME MatchType, NEW c \in Cids \cup {0}, MatchFirst(c) \/ MatchSecond(c)
  PROVE  MatchType'
<1>1. CASE MatchFirst(c)
  <2>1. match' = match \/ match' = [match EXCEPT !.pc = "second", !.first = c]
    BY <1>1 DEF MatchFirst
  <2>2. QED
    BY <2>1 DEF MatchType, MatchPCs
<1>2. CASE MatchSecond(c)
  <2>1. match' = match \/ match' = [match EXCEPT !.pc = "pair", !.second = c]
    BY <1>2 DEF MatchSecond
  <2>2. QED
    BY <2>1 DEF MatchType, MatchPCs
<1>3. QED
  BY <1>1, <1>2

(* The threads other than ingestion keep their types. *)
LEMMA ThreadTypeStep ==
  ASSUME StoreInv, Next
  PROVE  ThreadTypeOK'
<1> USE DEF StoreInv, TypeOK
<1>1. ingest' \in [pc : IngestPCs, cid : Cids \cup {0}, old : Entries,
                   new : Entries \cup {OutOfRange}]
  BY IngestStep DEF IngestInv, IngestType
<1>2. CASE FetchMatchPair \/ StopMatch
  <2>1. match' \in [pc : MatchPCs, first : Cids \cup {0}, second : Cids \cup {0}]
    <3>1. ASSUME NEW c \in Cids \cup {0}, MatchFirst(c) \/ MatchSecond(c)
          PROVE  match' \in [pc : MatchPCs, first : Cids \cup {0}, second : Cids \cup {0}]
      BY <3>1, DrawTypeStep DEF MatchType, ThreadTypeOK
    <3>2. CASE MatchThrow \/ StopMatch
      BY <3>2 DEF MatchThrow, StopMatch, MatchPCs, ThreadTypeOK
    <3>3. CASE MatchBegin \/ MatchQueued
      BY <3>3 DEF MatchBegin, MatchQueued, MatchPCs
    <3>4. QED
      BY <1>2, <3>1, <3>2, <3>3 DEF FetchMatchPair
  <2>2. UNCHANGED <<control, shutdown, requests, hist>>
    BY <1>2 DEF FetchMatchPair, MatchBegin, MatchThrow, MatchQueued, MatchFirst, MatchSecond,
                StopMatch, ingestAndControlVars
  <2>3. QED
    BY <1>1, <2>1, <2>2 DEF ThreadTypeOK
<1>3. CASE FetchOutlier \/ FlagShutdown \/ TriggerOutlierWait
  <2>1. control' \in ControlPCs /\ shutdown' \in {"none", "flagged", "posted"}
    BY <1>3 DEF FetchOutlier, WaitForOutlier, TestShutdown, ChooseQueue, TakeAbove, TakeBelow,
                PopAbove, PopBelow, FlagShutdown, TriggerOutlierWait, ControlPCs, ThreadTypeOK
  <2>2. UNCHANGED <<match, requests, hist>>
    BY <1>3 DEF FetchOutlier, WaitForOutlier, TestShutdown, ChooseQueue, TakeAbove, TakeBelow,
                PopAbove, PopBelow, FlagShutdown, TriggerOutlierWait, ingestAndMatchVars
  <2>3. QED
    BY <1>1, <2>1, <2>2 DEF ThreadTypeOK
<1>4. CASE AddContribution \/ RemoveContribution \/ UpdateContribution \/ StopIngest
  <2>1. /\ UNCHANGED <<match, control, shutdown>>
        /\ requests' \in {requests, requests + 1}
    BY <1>4 DEF AddContribution, AddLink, AddCount, AddStore, AddSample, RemoveContribution,
                RemoveUnlink, RemoveCount, RemoveErase, RemoveSample, UpdateContribution,
                UpdateFetch, UpdateUnlink, UpdateLink, UpdateStore, UpdateSample, PushAbove,
                PushBelow, CountAbove, CountBelow, PostOutlier, StopIngest, BeginRequest
  <2>2. hist' \in [honest : BOOLEAN, removed : BOOLEAN, below : BOOLEAN, zeroed : BOOLEAN]
    <3>1. CASE UNCHANGED hist
      BY <3>1 DEF ThreadTypeOK
    <3>2. ASSUME NEW c \in Cids, AddLink(c) \/ RemoveUnlink(c) \/ \E b \in Ratings : UpdateFetch(c, b)
          PROVE  hist' \in [honest : BOOLEAN, removed : BOOLEAN, below : BOOLEAN, zeroed : BOOLEAN]
      BY <3>2 DEF AddLink, RemoveUnlink, UpdateFetch, ThreadTypeOK
    <3>3. CASE PushBelow
      BY <3>3 DEF PushBelow, ThreadTypeOK
    <3>4. QED
      BY <1>4, <3>1, <3>2, <3>3
         DEF AddContribution, AddCount, AddStore, AddSample, RemoveContribution,
             RemoveCount, RemoveErase, RemoveSample, UpdateContribution, UpdateUnlink,
             UpdateLink, UpdateStore, UpdateSample, PushAbove, CountAbove, CountBelow,
             PostOutlier, StopIngest
  <2>3. QED
    BY <1>1, <2>1, <2>2 DEF ThreadTypeOK
<1>5. QED
  BY <1>2, <1>3, <1>4 DEF Next, Shutdown

(* A link and a draw mark the list they change, and a call the scorer.     *)
LEMMA MarksTypeStep ==
  ASSUME StoreInv, Next
  PROVE  MarksTypeOK'
<1> USE DEF StoreInv, TypeOK, MarksTypeOK
<1>1. \A b, c : [requeued EXCEPT ![b] = 0] \in [Buckets -> Cids \cup {0}]
  OBVIOUS
<1>2. CASE AddContribution
  BY <1>1, <1>2 DEF AddContribution, AddLink, Link, AddCount, AddStore, AddSample,
     Scorer!BlurredWith
<1>3. CASE UpdateContribution
  BY <1>1, <1>3 DEF UpdateContribution, UpdateFetch, UpdateUnlink, UpdateLink, Link,
     UpdateStore, UpdateSample, Rest!BlurredWith, Scorer!BlurredWithout, PushAbove, PushBelow,
     CountAbove, CountBelow, PostOutlier, coreVars
<1>4. CASE RemoveContribution
  BY <1>4 DEF RemoveContribution, RemoveUnlink, RemoveCount, RemoveErase, RemoveSample,
     Scorer!BlurredWithout
<1>5. CASE FetchMatchPair
  <2>1. ASSUME NEW c \in Cids \cup {0}, MatchFirst(c) \/ MatchSecond(c)
        PROVE  MarksTypeOK'
    <3>1. blurred' = blurred
      BY <2>1 DEF MatchFirst, MatchSecond
    <3>2. PICK b \in Buckets : Attempt(b, c)
      BY <2>1 DEF MatchFirst, MatchSecond, Scorer!Drawable
    <3>3. QED
      BY <3>1, <3>2 DEF Attempt
  <2>2. CASE MatchBegin \/ MatchThrow \/ MatchQueued
    BY <2>2 DEF MatchBegin, MatchThrow, MatchQueued, ingestAndControlVars
  <2>3. QED
    BY <1>5, <2>1, <2>2 DEF FetchMatchPair
<1>6. CASE FetchOutlier \/ Shutdown
  BY <1>6 DEF FetchOutlier, WaitForOutlier, TestShutdown, ChooseQueue, TakeAbove, TakeBelow,
     PopAbove, PopBelow, Shutdown, StopIngest, StopMatch, FlagShutdown, TriggerOutlierWait,
     ingestAndControlVars, ingestAndMatchVars, coreVars
<1>7. QED
  BY <1>2, <1>3, <1>4, <1>5, <1>6 DEF Next

LEMMA StoreInvStep ==
  ASSUME StoreInv, [Next]_vars
  PROVE  StoreInv'
<1>1. CASE Next
  BY <1>1, OutlierTypeStep, ThreadTypeStep, IngestStep, MarksTypeStep DEF StoreInv, TypeOK, IngestInv
<1>2. CASE UNCHANGED vars
  BY <1>2 DEF StoreInv, TypeOK, CoreTypeOK, MarksTypeOK, OutlierTypeOK, ThreadTypeOK, RequestOK,
              PositionsValid, InRequest, vars, coreVars, outlierVars
<1>3. QED
  BY <1>1, <1>2

LEMMA StoreInvCorrect == Spec => []StoreInv
  BY StoreInvInit, StoreInvStep, PTL DEF Spec

(* Every variable keeps its type, whatever ids the clients send: no list   *)
(* is ever asked to unlink a node it does not have, and no bag goes below  *)
(* zero.                                                                   *)
THEOREM TypeCorrect == Spec => []TypeOK
  BY StoreInvCorrect, PTL DEF StoreInv

(* An entry of the map that has a position points to a node of its list,   *)
(* except in the middle of the request that moves it: remove_contribution  *)
(* and update_contribution never dereference a stale position.             *)
THEOREM PositionsCorrect == Spec => []PositionsValid
  BY StoreInvCorrect, PTL DEF StoreInv

--------------------------------------------------------------------------------
(* The outlier semaphore and the outlier queues *)

LEMMA TokensInit == Init => OutlierTokens
  BY DEF Init, OutlierTokens

LEMMA TokensStep ==
  ASSUME StoreInv, OutlierTokens, Next
  PROVE  OutlierTokens'
<1> USE DEF StoreInv, TypeOK, OutlierTokens
<1>1. /\ Len(above_outlier_queue) \in Nat /\ Len(below_outlier_queue) \in Nat
      /\ permits \in Nat /\ control # "undefined"
  BY QueueFacts DEF OutlierTypeOK, Next, Defined
<1>2. CASE PushAbove
  <2>1. /\ Len(above_outlier_queue') = Len(above_outlier_queue) + 1
        /\ UNCHANGED <<below_outlier_queue, permits, control, shutdown>>
        /\ ingest.pc = "push_above" /\ ingest'.pc = "count_above"
    BY <1>2, QueueFacts
       DEF PushAbove, IngestAt, IngestGoto, OutlierTypeOK, RequestOK, Reporting, ThreadTypeOK
  <2>2. QED
    BY <1>1, <2>1
<1>3. CASE PushBelow
  <2>1. /\ Len(below_outlier_queue') = Len(below_outlier_queue) + 1
        /\ UNCHANGED <<above_outlier_queue, permits, control, shutdown>>
        /\ ingest.pc = "push_below" /\ ingest'.pc = "count_below"
    BY <1>3, QueueFacts
       DEF PushBelow, IngestAt, IngestGoto, OutlierTypeOK, RequestOK, Reporting, ThreadTypeOK
  <2>2. QED
    BY <1>1, <2>1
<1>4. CASE CountAbove \/ CountBelow
  <2>1. /\ UNCHANGED <<above_outlier_queue, below_outlier_queue, permits, control, shutdown>>
        /\ ingest.pc \in {"count_above", "count_below"} /\ ingest'.pc = "post_outlier"
    BY <1>4 DEF CountAbove, CountBelow, IngestAt, IngestGoto, ThreadTypeOK
  <2>2. QED
    BY <1>1, <2>1
<1>5. CASE PostOutlier
  <2>1. /\ UNCHANGED <<above_outlier_queue, below_outlier_queue, control, shutdown>>
        /\ permits' = permits + 1
        /\ ingest.pc = "post_outlier" /\ ingest'.pc = "idle"
    BY <1>5 DEF PostOutlier, IngestAt, IngestGoto, ThreadTypeOK
  <2>2. QED
    BY <1>1, <2>1
<1>6. CASE WaitForOutlier
  BY <1>1, <1>6 DEF WaitForOutlier, ingestAndMatchVars
<1>7. CASE TestShutdown \/ ChooseQueue \/ TakeAbove \/ TakeBelow
  <2>1. /\ UNCHANGED <<above_outlier_queue, below_outlier_queue, permits, shutdown, ingest>>
        /\ control # "wait" /\ control' # "wait"
    BY <1>7 DEF TestShutdown, ChooseQueue, TakeAbove, TakeBelow, ingestAndMatchVars, outlierVars
  <2>2. QED
    BY <1>1, <2>1
<1>8. CASE PopAbove
  <2>1. /\ UNCHANGED <<below_outlier_queue, permits, shutdown, ingest>>
        /\ control = "pop_above"
        /\ \/ control' = "undefined"
           \/ Len(above_outlier_queue') = Len(above_outlier_queue) - 1 /\ control' = "wait"
    BY <1>8, QueueFacts DEF PopAbove, ingestAndMatchVars, OutlierTypeOK
  <2>2. QED
    BY <1>1, <2>1
<1>9. CASE PopBelow
  <2>1. /\ UNCHANGED <<above_outlier_queue, permits, shutdown, ingest>>
        /\ control = "pop_below"
        /\ \/ control' = "undefined"
           \/ Len(below_outlier_queue') = Len(below_outlier_queue) - 1 /\ control' = "wait"
    BY <1>9, QueueFacts DEF PopBelow, ingestAndMatchVars, OutlierTypeOK
  <2>2. QED
    BY <1>1, <2>1
<1>10. CASE FlagShutdown \/ TriggerOutlierWait
  <2>1. /\ UNCHANGED <<above_outlier_queue, below_outlier_queue, control, ingest>>
        /\ \/ shutdown = "none" /\ shutdown' = "flagged" /\ permits' = permits
           \/ shutdown = "flagged" /\ shutdown' = "posted" /\ permits' = permits + 1
    BY <1>10 DEF FlagShutdown, TriggerOutlierWait, ingestAndMatchVars, outlierVars
  <2>2. QED
    BY <1>1, <2>1
<1>11. CASE FetchMatchPair \/ StopMatch
  <2>1. UNCHANGED <<above_outlier_queue, below_outlier_queue, permits, control, shutdown, ingest>>
    BY <1>11 DEF FetchMatchPair, MatchBegin, MatchThrow, MatchQueued, MatchFirst, MatchSecond,
                 StopMatch, ingestAndControlVars, outlierVars
  <2>2. QED
    BY <1>1, <2>1
<1>12. ASSUME UNCHANGED <<above_outlier_queue, below_outlier_queue, permits, control, shutdown>>,
              ingest.pc \notin {"count_above", "count_below", "post_outlier"},
              ingest'.pc \notin {"count_above", "count_below", "post_outlier"}
       PROVE  OutlierTokens'
  BY <1>1, <1>12
<1>13. CASE AddContribution \/ RemoveContribution \/ StopIngest
  <2>1. UNCHANGED <<above_outlier_queue, below_outlier_queue, permits, control, shutdown>>
    BY <1>13 DEF AddContribution, AddLink, AddCount, AddStore, AddSample, RemoveContribution,
                 RemoveUnlink, RemoveCount, RemoveErase, RemoveSample, StopIngest, outlierVars
  <2>2. /\ ingest.pc \notin {"count_above", "count_below", "post_outlier"}
        /\ ingest'.pc \notin {"count_above", "count_below", "post_outlier"}
    <3>1. ASSUME NEW c \in Cids, AddLink(c) \/ RemoveUnlink(c)
          PROVE  /\ ingest.pc = "idle"
                 /\ ingest'.pc \in {"add_count", "crashed", "damaged", "remove_count"}
      BY <3>1 DEF AddLink, RemoveUnlink, BeginRequest, IngestAt
    <3>2. CASE AddCount \/ AddStore \/ AddSample
      BY <3>2 DEF AddCount, AddStore, AddSample, IngestAt, IngestGoto, ThreadTypeOK
    <3>3. CASE RemoveCount \/ RemoveErase \/ RemoveSample \/ StopIngest
      BY <3>3 DEF RemoveCount, RemoveErase, RemoveSample, StopIngest, IngestAt, IngestGoto,
                  ThreadTypeOK
    <3>4. QED
      BY <1>13, <3>1, <3>2, <3>3 DEF AddContribution, RemoveContribution
  <2>3. QED
    BY <2>1, <2>2, <1>12
<1>14. CASE (\E c \in Cids, b \in Ratings : UpdateFetch(c, b)) \/ UpdateUnlink \/ UpdateLink
            \/ UpdateStore \/ \E verdict \in Verdicts : UpdateSample(verdict)
  <2>1. UNCHANGED <<above_outlier_queue, below_outlier_queue, permits, control, shutdown>>
    BY <1>14 DEF UpdateFetch, UpdateUnlink, UpdateLink, UpdateStore, UpdateSample, outlierVars
  <2>2. /\ ingest.pc \notin {"count_above", "count_below", "post_outlier"}
        /\ ingest'.pc \notin {"count_above", "count_below", "post_outlier"}
    BY <1>14 DEF UpdateFetch, UpdateUnlink, UpdateLink, UpdateStore, UpdateSample, BeginRequest,
                 IngestAt, IngestGoto, ThreadTypeOK, Verdicts
  <2>3. QED
    BY <2>1, <2>2, <1>12
<1>15. QED
  BY <1>2, <1>3, <1>4, <1>5, <1>6, <1>7, <1>8, <1>9, <1>10, <1>11, <1>13, <1>14
     DEF Next, UpdateContribution, FetchOutlier, Shutdown

(* Permits of the outlier semaphore, queued outliers and the permit of     *)
(* shutdown balance for any clients and any initial contents of the        *)
(* counters, as long as no empty queue is popped.                          *)
THEOREM OutlierTokensCorrect == Spec => []OutlierTokens
<1>1. OutlierTokens /\ UNCHANGED vars => OutlierTokens'
  BY DEF OutlierTokens, vars, outlierVars
<1>2. StoreInv /\ OutlierTokens /\ [Next]_vars => OutlierTokens'
  BY <1>1, TokensStep
<1>3. QED
  BY <1>2, TokensInit, StoreInvCorrect, PTL DEF Spec

--------------------------------------------------------------------------------
(* What holds of the request in progress while clients are well-behaved *)

RequestHonest ==
    hist.honest =>
        /\ \A c \in Cids : store[c] # Blank
        /\ ingest.pc \in {"add_count", "add_store", "remove_sample"} => store[ingest.cid] = Absent
        /\ ingest.pc \in {"add_sample", "update_sample"} => store[ingest.cid] = ingest.new
        /\ ingest.pc \in {"update_unlink", "update_link", "update_store",
                          "remove_count", "remove_erase"} => store[ingest.cid] = ingest.old
        /\ ingest.pc \in {"update_unlink", "update_link"} => ingest.new \in Buckets
        /\ ingest.pc = "damaged" => requeued[store[ingest.cid]] = ingest.cid
        /\ ingest.pc = "crashed" => blurred

(* What comes of an attempt to unlink an entry that has a position.        *)
LEMMA UnlinkOutcome ==
  ASSUME NEW c \in Cids, NEW entry \in Buckets, NEW label, NEW next,
         Unlink(c, entry, label, next)
  PROVE  \/ label = "damaged" /\ requeued[entry] = c /\ UNCHANGED elo_store
         \/ label = next /\ elo_store' = Unlinked(entry, c)
  BY BucketFacts DEF Unlink, UnlinkCrashes, StaleTail, AfterUnlink

LEMMA RequestHonestInit == Init => RequestHonest
  BY BucketFacts DEF Init, RequestHonest

LEMMA RequestHonestStep ==
  ASSUME StoreInv, RequestHonest, Next
  PROVE  RequestHonest'
<1> USE BucketFacts, EntryFacts DEF StoreInv, TypeOK
<1>0. ingest.pc \notin {"crashed", "damaged"}
  BY DEF Next, Defined
<1>1. ASSUME NEW c \in Cids, AddLink(c) PROVE RequestHonest'
  <2>1. /\ ingest' = [pc |-> "add_count", cid |-> c, old |-> Absent, new |-> InitialBucket]
        /\ UNCHANGED store
        /\ hist' = [hist EXCEPT !.honest = @ /\ store[c] = Absent]
    BY <1>1 DEF AddLink
  <2>2. hist'.honest => hist.honest /\ store[c] = Absent
    BY <2>1 DEF ThreadTypeOK
  <2>3. QED
    BY <2>1, <2>2 DEF RequestHonest
<1>2. ASSUME NEW c \in Cids, NEW b \in Ratings, UpdateFetch(c, b) PROVE RequestHonest'
  <2>1. /\ ingest' = [pc |-> "update_unlink", cid |-> c, old |-> RatingOf(Touched(c)[c]), new |-> b]
        /\ store' = Touched(c)
        /\ hist' = [hist EXCEPT !.honest = @ /\ store[c] # Absent /\ b \in Buckets]
    BY <1>2 DEF UpdateFetch
  <2>2. hist'.honest => hist.honest /\ store[c] # Absent /\ b \in Buckets
    BY <2>1 DEF ThreadTypeOK
  <2>3. hist'.honest => UNCHANGED store /\ ingest'.old = store[c]
    BY <2>1, <2>2 DEF Touched, RatingOf, RequestHonest
  <2>4. QED
    BY <2>1, <2>2, <2>3 DEF RequestHonest
<1>3. ASSUME NEW c \in Cids, RemoveUnlink(c) PROVE RequestHonest'
  <2>1. PICK label \in {"crashed", "damaged", "remove_count"} :
           /\ Unlink(c, Touched(c)[c], label, "remove_count")
           /\ ingest' = [pc |-> label, cid |-> c, old |-> RatingOf(Touched(c)[c]), new |-> Absent]
    BY <1>3 DEF RemoveUnlink
  <2>2. /\ store' = Touched(c) /\ UNCHANGED requeued
        /\ hist' = [hist EXCEPT !.honest = @ /\ store[c] # Absent, !.removed = TRUE]
    BY <1>3 DEF RemoveUnlink
  <2>3. SUFFICES ASSUME hist'.honest PROVE RequestHonest'
    BY DEF RequestHonest
  <2>4. hist.honest /\ store[c] # Absent
    BY <2>2, <2>3 DEF ThreadTypeOK
  <2>5. /\ Touched(c) = store /\ UNCHANGED store
        /\ store[c] \in Buckets /\ RatingOf(store[c]) = store[c]
    BY <2>2, <2>4 DEF Touched, RequestHonest, RatingOf, CoreTypeOK, Entries
  <2>6. \/ label = "damaged" /\ requeued[store[c]] = c
        \/ label = "remove_count"
    BY <2>1, <2>5, UnlinkOutcome
  <2>7. QED
    BY <2>1, <2>2, <2>4, <2>5, <2>6 DEF RequestHonest
<1>4. CASE AddCount \/ AddSample
  <2>1. /\ UNCHANGED <<store, hist>>
        /\ \/ ingest.pc = "add_count" /\ ingest'.pc = "add_store"
           \/ ingest.pc = "add_sample" /\ ingest'.pc = "idle"
           \/ ingest.pc = "add_sample" /\ ingest'.pc = "crashed" /\ blurred'
        /\ ingest'.cid = ingest.cid /\ ingest'.new = ingest.new
    BY <1>4 DEF AddCount, AddSample, IngestAt, IngestGoto, ThreadTypeOK, Scorer!CrashesWith
  <2>2. QED
    BY <2>1 DEF RequestHonest
<1>5. CASE AddStore
  <2>1. /\ UNCHANGED hist
        /\ ingest.cid \in Cids /\ ingest.new \in Buckets
        /\ store' = [store EXCEPT ![ingest.cid] = ingest.new]
        /\ ingest'.pc = "add_sample"
        /\ ingest'.cid = ingest.cid /\ ingest'.new = ingest.new
    BY <1>5 DEF AddStore, IngestAt, IngestGoto, ThreadTypeOK, RequestOK, Adding
  <2>2. QED
    BY <2>1 DEF RequestHonest, CoreTypeOK
<1>6. CASE UpdateUnlink
  <2>1. PICK label \in {"crashed", "damaged", "update_link"} :
           /\ Unlink(ingest.cid, store[ingest.cid], label, "update_link")
           /\ IngestGoto(label)
    BY <1>6 DEF UpdateUnlink
  <2>2. /\ UNCHANGED <<store, requeued, hist>> /\ ingest.pc = "update_unlink"
        /\ ingest.cid \in Cids /\ ingest.old \in Buckets
        /\ ingest'.pc = label /\ ingest'.cid = ingest.cid
        /\ ingest'.new = ingest.new /\ ingest'.old = ingest.old
    BY <1>6, <2>1 DEF UpdateUnlink, IngestAt, IngestGoto, ThreadTypeOK, RequestOK, Updating
  <2>3. hist.honest => \/ label = "damaged" /\ requeued[store[ingest.cid]] = ingest.cid
                       \/ label = "update_link"
    BY <2>1, <2>2, UnlinkOutcome DEF RequestHonest
  <2>4. QED
    BY <2>2, <2>3 DEF RequestHonest
<1>7. CASE UpdateLink \/ RemoveCount
  <2>1. /\ UNCHANGED <<store, hist>>
        /\ \/ ingest.pc = "update_link" /\ ingest'.pc = "update_store"
           \/ ingest.pc = "update_link" /\ ingest.new \notin Buckets
           \/ ingest.pc = "remove_count" /\ ingest'.pc = "remove_erase"
        /\ ingest'.cid = ingest.cid /\ ingest'.old = ingest.old
    BY <1>7 DEF UpdateLink, RemoveCount, IngestAt, IngestGoto, ThreadTypeOK
  <2>2. QED
    BY <2>1 DEF RequestHonest
<1>8. CASE UpdateStore
  <2>1. /\ UNCHANGED hist
        /\ ingest.cid \in Cids /\ ingest.new \in Buckets
        /\ store' = [store EXCEPT ![ingest.cid] = ingest.new]
        /\ ingest'.pc = "update_sample"
        /\ ingest'.cid = ingest.cid /\ ingest'.new = ingest.new
    BY <1>8 DEF UpdateStore, IngestAt, IngestGoto, ThreadTypeOK, RequestOK, Updating
  <2>2. QED
    BY <2>1 DEF RequestHonest, CoreTypeOK
<1>9. CASE RemoveErase
  <2>1. /\ UNCHANGED hist
        /\ ingest.cid \in Cids
        /\ store' = [store EXCEPT ![ingest.cid] = Absent]
        /\ ingest'.pc = "remove_sample" /\ ingest'.cid = ingest.cid
    BY <1>9 DEF RemoveErase, IngestAt, IngestGoto, ThreadTypeOK, RequestOK, Removing
  <2>2. QED
    BY <2>1 DEF RequestHonest, CoreTypeOK
<1>10. ASSUME UNCHANGED <<store, ingest>>, UNCHANGED hist PROVE RequestHonest'
  BY <1>0, <1>10 DEF RequestHonest
<1>11. CASE Bystander
  BY <1>11, <1>10, BystanderFacts
<1>12. ASSUME UNCHANGED store, hist'.honest = hist.honest,
              \/ ingest'.pc \in {"idle", "failed", "stopped"} \cup Reporting
              \/ ingest'.pc = "crashed" /\ blurred'
       PROVE  RequestHonest'
  BY <1>12 DEF RequestHonest, Reporting
<1>13. CASE RemoveSample \/ StopIngest \/ \E verdict \in Verdicts : UpdateSample(verdict)
  <2>1. UNCHANGED <<store, hist>>
    BY <1>13 DEF RemoveSample, StopIngest, UpdateSample, coreVars
  <2>2. \/ ingest'.pc \in {"idle", "failed", "stopped"} \cup Reporting
        \/ ingest'.pc = "crashed" /\ blurred'
    BY <1>13 DEF RemoveSample, StopIngest, UpdateSample, IngestGoto, ThreadTypeOK, Verdicts,
                 Reporting, Rest!CrashesWith
  <2>3. QED
    BY <2>1, <2>2, <1>12
<1>14. CASE PushAbove \/ CountAbove \/ PushBelow \/ CountBelow \/ PostOutlier
  <2>1. UNCHANGED store
    BY <1>14 DEF PushAbove, CountAbove, PushBelow, CountBelow, PostOutlier, coreVars
  <2>2. hist'.honest = hist.honest
    BY <1>14 DEF PushAbove, CountAbove, PushBelow, CountBelow, PostOutlier, ThreadTypeOK
  <2>3. ingest'.pc \in {"idle", "failed", "stopped"} \cup Reporting
    BY <1>14 DEF PushAbove, CountAbove, PushBelow, CountBelow, PostOutlier, IngestGoto,
                 ThreadTypeOK, Reporting
  <2>4. QED
    BY <2>1, <2>2, <2>3, <1>12
<1>15. QED
  BY <1>1, <1>2, <1>3, <1>4, <1>5, <1>6, <1>7, <1>8, <1>9, <1>11, <1>13, <1>14
     DEF Next, AddContribution, UpdateContribution, RemoveContribution, Shutdown, Bystander

--------------------------------------------------------------------------------
(* The lists and the map *)

LEMMA NodesInit == Init => NodesAgree
  BY BucketFacts DEF Init, NodesAgree, NodeOf, InRequest

(* A step that moves no node and changes where no node should be.          *)
LEMMA NodesUnmoved ==
  ASSUME NodesAgree, hist'.honest => hist.honest, UNCHANGED elo_store,
         \A c \in Cids : NodeOf(c)' = NodeOf(c)
  PROVE  NodesAgree'
  BY DEF NodesAgree

(* A step that moves the node of one id. *)
LEMMA NodesMoved ==
  ASSUME NodesAgree, hist'.honest => hist.honest, NEW c \in Cids,
         \A d \in Cids \ {c} : NodeOf(d)' = NodeOf(d),
         \A b \in Buckets, d \in Cids \ {c} : elo_store'[b][d] = elo_store[b][d],
         hist'.honest => \A b \in Buckets : elo_store'[b][c] = IF NodeOf(c)' = b THEN 1 ELSE 0
  PROVE  NodesAgree'
  BY DEF NodesAgree

LEMMA NodesStep ==
  ASSUME StoreInv, RequestHonest, NodesAgree, Next
  PROVE  NodesAgree'
<1> USE BucketFacts, EntryFacts DEF StoreInv, TypeOK
<1>1. ASSUME NEW c \in Cids, AddLink(c) PROVE NodesAgree'
  <2>1. /\ ingest' = [pc |-> "add_count", cid |-> c, old |-> Absent, new |-> InitialBucket]
        /\ ingest.pc = "idle"
        /\ UNCHANGED store
        /\ elo_store' = Linked(InitialBucket, c)
        /\ hist' = [hist EXCEPT !.honest = @ /\ store[c] = Absent]
    BY <1>1 DEF AddLink, Link, BeginRequest, IngestAt
  <2>2. hist'.honest => hist.honest /\ store[c] = Absent
    BY <2>1 DEF ThreadTypeOK
  <2>3. /\ \A b \in Buckets, d \in Cids \ {c} : elo_store'[b][d] = elo_store[b][d]
        /\ \A b \in Buckets \ {InitialBucket} : elo_store'[b][c] = elo_store[b][c]
        /\ elo_store'[InitialBucket][c] = elo_store[InitialBucket][c] + 1
    BY <2>1, LinkedFacts DEF CoreTypeOK
  <2>4. /\ \A d \in Cids : NodeOf(d) = store[d]
        /\ \A d \in Cids \ {c} : NodeOf(d)' = store[d]
        /\ NodeOf(c)' = InitialBucket
    BY <2>1 DEF NodeOf, InRequest
  <2>5. ASSUME hist'.honest
        PROVE  \A b \in Buckets : elo_store'[b][c] = IF NodeOf(c)' = b THEN 1 ELSE 0
    <3>1. \A b \in Buckets : elo_store[b][c] = 0
      BY <2>2, <2>4, <2>5 DEF NodesAgree
    <3>2. QED
      BY <2>3, <2>4, <3>1
  <2>6. QED
    BY <2>2, <2>3, <2>4, <2>5, NodesMoved
<1>2. CASE UpdateUnlink
  <2> DEFINE Labels == {"crashed", "damaged", "update_link"}
  <2>1. /\ ingest.pc = "update_unlink" /\ ingest.cid \in Cids /\ ingest.old \in Buckets
        /\ UNCHANGED <<store, hist>>
        /\ \E label \in Labels : /\ Unlink(ingest.cid, store[ingest.cid], label, "update_link")
                                 /\ ingest'.pc = label
        /\ ingest'.cid = ingest.cid
    BY <1>2 DEF UpdateUnlink, IngestAt, IngestGoto, ThreadTypeOK, RequestOK, Updating
  <2>2. SUFFICES ASSUME hist.honest PROVE NodesAgree'
    BY <2>1 DEF NodesAgree
  <2>3. store[ingest.cid] = ingest.old
    BY <2>1, <2>2 DEF RequestHonest
  <2>a. CASE ingest'.pc = "damaged" /\ UNCHANGED elo_store
    <3>1. \A d \in Cids : NodeOf(d)' = NodeOf(d)
      BY <2>1, <2>a DEF NodeOf, InRequest
    <3>2. QED
      BY <2>1, <2>a, <3>1, NodesUnmoved
  <2>b. SUFFICES ASSUME ~(ingest'.pc = "damaged" /\ UNCHANGED elo_store) PROVE NodesAgree'
    BY <2>a
  <2>4. elo_store' = Unlinked(ingest.old, ingest.cid) /\ ingest'.pc = "update_link"
    BY <2>1, <2>3, <2>b, UnlinkOutcome
  <2>5. /\ \A d \in Cids : NodeOf(d) = store[d]
        /\ \A d \in Cids \ {ingest.cid} : NodeOf(d)' = store[d]
        /\ NodeOf(ingest.cid)' = Absent
    BY <2>1, <2>4 DEF NodeOf, InRequest
  <2>6. /\ elo_store[ingest.old][ingest.cid] = 1
        /\ \A b \in Buckets \ {ingest.old} : elo_store[b][ingest.cid] = 0
    BY <2>1, <2>2, <2>3, <2>5 DEF NodesAgree
  <2>7. /\ \A b \in Buckets, d \in Cids \ {ingest.cid} : elo_store'[b][d] = elo_store[b][d]
        /\ \A b \in Buckets \ {ingest.old} : elo_store'[b][ingest.cid] = elo_store[b][ingest.cid]
        /\ elo_store'[ingest.old][ingest.cid] = elo_store[ingest.old][ingest.cid] - 1
    <3>1. elo_store[ingest.old][ingest.cid] >= 1
      BY <2>6
    <3>2. QED
      BY <2>1, <2>4, <3>1, UnlinkedFacts DEF CoreTypeOK
  <2>8. \A b \in Buckets : elo_store'[b][ingest.cid] = IF NodeOf(ingest.cid)' = b THEN 1 ELSE 0
    BY <2>5, <2>6, <2>7
  <2>9. QED
    BY <2>1, <2>5, <2>7, <2>8, NodesMoved
<1>3. CASE UpdateLink
  <2>1. /\ ingest.pc = "update_link" /\ ingest.cid \in Cids
        /\ UNCHANGED <<store, hist>>
        /\ ingest.new \in Buckets =>
              elo_store' = Linked(ingest.new, ingest.cid) /\ ingest'.pc = "update_store"
        /\ ingest'.cid = ingest.cid /\ ingest'.new = ingest.new
    BY <1>3 DEF UpdateLink, Link, IngestAt, IngestGoto, ThreadTypeOK, RequestOK, Updating
  <2>2. SUFFICES ASSUME hist.honest PROVE NodesAgree'
    BY <2>1 DEF NodesAgree
  <2>3. /\ ingest.new \in Buckets /\ ingest'.pc = "update_store"
        /\ elo_store' = Linked(ingest.new, ingest.cid)
    BY <2>1, <2>2 DEF RequestHonest
  <2>4. /\ \A d \in Cids \ {ingest.cid} : NodeOf(d)' = NodeOf(d)
        /\ NodeOf(ingest.cid) = Absent /\ NodeOf(ingest.cid)' = ingest.new
    BY <2>1, <2>3 DEF NodeOf, InRequest
  <2>5. /\ \A b \in Buckets, d \in Cids \ {ingest.cid} : elo_store'[b][d] = elo_store[b][d]
        /\ \A b \in Buckets \ {ingest.new} : elo_store'[b][ingest.cid] = elo_store[b][ingest.cid]
        /\ elo_store'[ingest.new][ingest.cid] = elo_store[ingest.new][ingest.cid] + 1
    BY <2>1, <2>3, LinkedFacts DEF CoreTypeOK
  <2>6. \A b \in Buckets : elo_store'[b][ingest.cid] = IF NodeOf(ingest.cid)' = b THEN 1 ELSE 0
    <3>1. \A b \in Buckets : elo_store[b][ingest.cid] = 0
      BY <2>1, <2>2, <2>4 DEF NodesAgree
    <3>2. QED
      BY <2>3, <2>4, <2>5, <3>1
  <2>7. QED
    BY <2>1, <2>4, <2>5, <2>6, NodesMoved
<1>4. ASSUME NEW c \in Cids, RemoveUnlink(c) PROVE NodesAgree'
  <2> DEFINE Labels == {"crashed", "damaged", "remove_count"}
  <2>1. /\ ingest.pc = "idle" /\ store' = Touched(c)
        /\ \E label \in Labels : Unlink(c, Touched(c)[c], label, "remove_count") /\ ingest'.pc = label
        /\ ingest'.cid = c
        /\ hist' = [hist EXCEPT !.honest = @ /\ store[c] # Absent, !.removed = TRUE]
    BY <1>4 DEF RemoveUnlink, BeginRequest, IngestAt
  <2>2. SUFFICES ASSUME hist'.honest PROVE NodesAgree'
    BY DEF NodesAgree
  <2>3. hist.honest /\ store[c] # Absent
    BY <2>1, <2>2 DEF ThreadTypeOK
  <2>4. store' = store /\ Touched(c) = store /\ store[c] \in Buckets
    BY <2>1, <2>3 DEF Touched, RequestHonest, CoreTypeOK, Entries
  <2>a. CASE ingest'.pc = "damaged" /\ UNCHANGED elo_store
    <3>1. \A d \in Cids : NodeOf(d)' = NodeOf(d)
      BY <2>1, <2>4, <2>a DEF NodeOf, InRequest
    <3>2. QED
      BY <2>3, <2>a, <3>1, NodesUnmoved
  <2>b. SUFFICES ASSUME ~(ingest'.pc = "damaged" /\ UNCHANGED elo_store) PROVE NodesAgree'
    BY <2>a
  <2>5. elo_store' = Unlinked(store[c], c) /\ ingest'.pc = "remove_count" /\ ingest'.cid = c
    BY <2>1, <2>4, <2>b, UnlinkOutcome
  <2>6. /\ \A d \in Cids : NodeOf(d) = store[d]
        /\ \A d \in Cids \ {c} : NodeOf(d)' = store[d]
        /\ NodeOf(c)' = Absent
    BY <2>1, <2>4, <2>5 DEF NodeOf, InRequest
  <2>7. /\ elo_store[store[c]][c] = 1
        /\ \A b \in Buckets \ {store[c]} : elo_store[b][c] = 0
    BY <2>3, <2>4, <2>6 DEF NodesAgree
  <2>8. /\ \A b \in Buckets, d \in Cids \ {c} : elo_store'[b][d] = elo_store[b][d]
        /\ \A b \in Buckets \ {store[c]} : elo_store'[b][c] = elo_store[b][c]
        /\ elo_store'[store[c]][c] = elo_store[store[c]][c] - 1
    <3>1. elo_store[store[c]][c] >= 1
      BY <2>7
    <3>2. QED
      BY <2>4, <2>5, <3>1, UnlinkedFacts DEF CoreTypeOK
  <2>9. \A b \in Buckets : elo_store'[b][c] = IF NodeOf(c)' = b THEN 1 ELSE 0
    BY <2>6, <2>7, <2>8
  <2>10. QED
    BY <2>3, <2>6, <2>8, <2>9, NodesMoved
<1>5. CASE AddCount \/ AddSample \/ RemoveCount
  <2>1. /\ UNCHANGED <<store, elo_store, hist>>
        /\ \/ ingest.pc = "add_count" /\ ingest'.pc = "add_store"
           \/ ingest.pc = "add_sample" /\ ingest'.pc \in {"idle", "crashed"}
           \/ ingest.pc = "remove_count" /\ ingest'.pc = "remove_erase"
        /\ ingest'.cid = ingest.cid /\ ingest'.new = ingest.new
    BY <1>5 DEF AddCount, AddSample, RemoveCount, IngestAt, IngestGoto, ThreadTypeOK
  <2>2. \A d \in Cids : NodeOf(d)' = NodeOf(d)
    BY <2>1 DEF NodeOf, InRequest
  <2>3. QED
    BY <2>1, <2>2, NodesUnmoved
<1>6. CASE AddStore \/ UpdateStore
  <2>1. /\ UNCHANGED <<elo_store, hist>>
        /\ ingest.cid \in Cids
        /\ ingest.pc \in {"add_store", "update_store"}
        /\ ingest'.pc \in {"add_sample", "update_sample"}
        /\ store' = [store EXCEPT ![ingest.cid] = ingest.new]
        /\ ingest'.cid = ingest.cid /\ ingest'.new = ingest.new
    BY <1>6 DEF AddStore, UpdateStore, IngestAt, IngestGoto, ThreadTypeOK, RequestOK, Adding, Updating
  <2>2. \A d \in Cids : NodeOf(d)' = NodeOf(d)
    BY <2>1 DEF NodeOf, InRequest, CoreTypeOK
  <2>3. QED
    BY <2>1, <2>2, NodesUnmoved
<1>7. CASE RemoveErase
  <2>1. /\ UNCHANGED <<elo_store, hist>>
        /\ ingest.cid \in Cids
        /\ ingest.pc = "remove_erase" /\ ingest'.pc = "remove_sample"
        /\ store' = [store EXCEPT ![ingest.cid] = Absent]
        /\ ingest'.cid = ingest.cid
    BY <1>7 DEF RemoveErase, IngestAt, IngestGoto, ThreadTypeOK, RequestOK, Removing
  <2>2. \A d \in Cids : NodeOf(d)' = NodeOf(d)
    BY <2>1 DEF NodeOf, InRequest, CoreTypeOK
  <2>3. QED
    BY <2>1, <2>2, NodesUnmoved
<1>8. ASSUME NEW c \in Cids, NEW b \in Ratings, UpdateFetch(c, b) PROVE NodesAgree'
  <2>1. /\ ingest.pc = "idle" /\ ingest'.pc = "update_unlink"
        /\ store' = Touched(c) /\ UNCHANGED elo_store
        /\ hist' = [hist EXCEPT !.honest = @ /\ store[c] # Absent /\ b \in Buckets]
    BY <1>8 DEF UpdateFetch, BeginRequest, IngestAt
  <2>2. SUFFICES ASSUME hist'.honest PROVE NodesAgree'
    BY DEF NodesAgree
  <2>3. hist.honest /\ UNCHANGED store
    BY <2>1, <2>2 DEF ThreadTypeOK, Touched
  <2>4. \A d \in Cids : NodeOf(d)' = NodeOf(d)
    BY <2>1, <2>3 DEF NodeOf, InRequest
  <2>5. QED
    BY <2>1, <2>3, <2>4, NodesUnmoved
<1>9. ASSUME UNCHANGED <<store, elo_store>>, hist'.honest = hist.honest,
             ingest.pc \in {"idle", "failed", "remove_sample", "update_sample"} \cup Reporting,
             ingest'.pc \in {"idle", "failed", "crashed", "stopped"} \cup Reporting
      PROVE  NodesAgree'
  <2>1. \A d \in Cids : NodeOf(d)' = NodeOf(d)
    BY <1>9 DEF NodeOf, InRequest, Reporting
  <2>2. QED
    BY <1>9, <2>1, NodesUnmoved
<1>10. CASE RemoveSample \/ StopIngest \/ \E verdict \in Verdicts : UpdateSample(verdict)
  <2>1. UNCHANGED <<store, elo_store, hist>>
    BY <1>10 DEF RemoveSample, StopIngest, UpdateSample, coreVars
  <2>2. /\ ingest.pc \in {"idle", "failed", "remove_sample", "update_sample"} \cup Reporting
        /\ ingest'.pc \in {"idle", "failed", "crashed", "stopped"} \cup Reporting
    BY <1>10 DEF RemoveSample, StopIngest, UpdateSample, IngestAt, IngestGoto, ThreadTypeOK,
                 Verdicts, Reporting
  <2>3. QED
    BY <2>1, <2>2, <1>9
<1>11. CASE PushAbove \/ CountAbove \/ PushBelow \/ CountBelow \/ PostOutlier
  <2>1. UNCHANGED <<store, elo_store>>
    BY <1>11 DEF PushAbove, CountAbove, PushBelow, CountBelow, PostOutlier, coreVars
  <2>2. hist'.honest = hist.honest
    BY <1>11 DEF PushAbove, CountAbove, PushBelow, CountBelow, PostOutlier, ThreadTypeOK
  <2>3. /\ ingest.pc \in {"idle", "failed", "remove_sample", "update_sample"} \cup Reporting
        /\ ingest'.pc \in {"idle", "failed", "crashed", "stopped"} \cup Reporting
    BY <1>11 DEF PushAbove, CountAbove, PushBelow, CountBelow, PostOutlier, IngestAt, IngestGoto,
                 ThreadTypeOK, Reporting
  <2>4. QED
    BY <2>1, <2>2, <2>3, <1>9
<1>12. CASE Bystander
  <2>1. UNCHANGED <<store, elo_store, ingest, hist>>
    BY <1>12, BystanderFacts
  <2>2. QED
    BY <2>1 DEF NodesAgree, NodeOf, InRequest
<1>13. QED
  BY <1>1, <1>2, <1>3, <1>4, <1>5, <1>6, <1>7, <1>8, <1>10, <1>11, <1>12
     DEF Next, AddContribution, UpdateContribution, RemoveContribution, Shutdown, Bystander

--------------------------------------------------------------------------------
(* The scorer and the map *)

(* The contributions whose sample is b. *)
Holders(b) == {c \in Cids : SampleOf(c) = b}

LEMMA HoldersFinite ==
  ASSUME NEW b
  PROVE  /\ IsFiniteSet(Holders(b)) /\ Cardinality(Holders(b)) \in Nat
         /\ IsFiniteSet(Holders(b)') /\ Cardinality(Holders(b)') \in Nat
<1>1. Holders(b) \in SUBSET Cids /\ Holders(b)' \in SUBSET Cids
  BY DEF Holders
<1>2. QED
  BY <1>1, StoreAssumption, FS_Subset, FS_CardinalityType

LEMMA SamplesInit == Init => SamplesAgree
<1> SUFFICES ASSUME Init, NEW b \in Buckets PROVE samples[b] = Cardinality(Holders(b))
  BY DEF SamplesAgree, Holders
<1>1. Holders(b) = {}
  BY BucketFacts DEF Init, Holders, SampleOf, InRequest
<1>2. QED
  BY <1>1, FS_EmptySet DEF Init

(* The number of holders of b, when one id changes its sample. *)
LEMMA HoldersMoved ==
  ASSUME NEW c \in Cids, \A d \in Cids \ {c} : SampleOf(d)' = SampleOf(d), NEW b
  PROVE  /\ SampleOf(c) = b /\ SampleOf(c)' # b =>
               Cardinality(Holders(b)') = Cardinality(Holders(b)) - 1
         /\ SampleOf(c) # b /\ SampleOf(c)' = b =>
               Cardinality(Holders(b)') = Cardinality(Holders(b)) + 1
         /\ (SampleOf(c) = b <=> SampleOf(c)' = b) =>
               Cardinality(Holders(b)') = Cardinality(Holders(b))
<1>1. ASSUME SampleOf(c) = b, SampleOf(c)' # b
      PROVE  Cardinality(Holders(b)') = Cardinality(Holders(b)) - 1
  <2>1. Holders(b)' = Holders(b) \ {c} /\ c \in Holders(b)
    BY <1>1 DEF Holders
  <2>2. QED
    BY <2>1, HoldersFinite, FS_RemoveElement
<1>2. ASSUME SampleOf(c) # b, SampleOf(c)' = b
      PROVE  Cardinality(Holders(b)') = Cardinality(Holders(b)) + 1
  <2>1. Holders(b)' = Holders(b) \cup {c} /\ c \notin Holders(b)
    BY <1>2 DEF Holders
  <2>2. QED
    BY <2>1, HoldersFinite, FS_AddElement
<1>3. ASSUME SampleOf(c) = b <=> SampleOf(c)' = b
      PROVE  Cardinality(Holders(b)') = Cardinality(Holders(b))
  <2>1. Holders(b)' = Holders(b)
    BY <1>3 DEF Holders
  <2>2. QED
    BY <2>1
<1>4. QED
  BY <1>1, <1>2, <1>3

(* The scorer has the sample of an id that holds one. *)
LEMMA SampleHeld ==
  ASSUME StoreInv, SamplesAgree, hist.honest, NEW c \in Cids, NEW b \in Buckets, SampleOf(c) = b
  PROVE  samples[b] >= 1
<1>1. c \in Holders(b)
  BY DEF Holders
<1>2. Cardinality(Holders(b)) # 0 /\ Cardinality(Holders(b)) \in Nat
  BY <1>1, HoldersFinite, FS_EmptySet
<1>3. samples[b] = Cardinality(Holders(b))
  BY DEF SamplesAgree, Holders
<1>4. QED
  BY <1>2, <1>3

(* A sample that is there is not refused, and its multiplicity goes down.  *)
LEMMA RemovalWorks ==
  ASSUME samples \in [Buckets -> Nat], NEW b \in Buckets, samples[b] >= 1
  PROVE  /\ ~Scorer!RemoveThrows(b)
         /\ Scorer!Without(b) \in [Buckets -> Nat]
         /\ Scorer!Without(b)[b] = samples[b] - 1
         /\ \A x \in Buckets \ {b} : Scorer!Without(b)[x] = samples[x]
<1>1. ~Scorer!RemoveThrows(b)
  BY DEF Scorer!RemoveThrows, Scorer!NoSample
<1>2. CASE Scorer!OneSample
  <2>1. samples[b] = 1 /\ \A x \in Buckets \ {b} : samples[x] = 0
    BY <1>2 DEF Scorer!OneSample
  <2>2. Scorer!Without(b) = [x \in Buckets |-> 0]
    BY <1>2 DEF Scorer!Without
  <2>3. QED
    BY <1>1, <2>1, <2>2
<1>3. CASE ~Scorer!OneSample
  <2>1. Scorer!Without(b) = [samples EXCEPT ![b] = @ - 1]
    BY <1>3 DEF Scorer!Without
  <2>2. samples[b] - 1 \in Nat
    OBVIOUS
  <2>3. QED
    BY <1>1, <2>1, <2>2
<1>4. QED
  BY <1>2, <1>3

(* A step that moves no sample. *)
LEMMA SamplesUnmoved ==
  ASSUME SamplesAgree, hist'.honest => hist.honest, UNCHANGED samples,
         hist'.honest => \A c \in Cids : SampleOf(c)' = SampleOf(c)
  PROVE  SamplesAgree'
<1> SUFFICES ASSUME hist'.honest, NEW b \in Buckets
             PROVE  samples'[b] = Cardinality(Holders(b)')
  BY DEF SamplesAgree, Holders
<1>1. Holders(b)' = Holders(b)
  BY DEF Holders
<1>2. samples[b] = Cardinality(Holders(b))
  BY DEF SamplesAgree, Holders
<1>3. QED
  BY <1>1, <1>2

LEMMA SamplesStep ==
  ASSUME StoreInv, RequestHonest, SamplesAgree, Next
  PROVE  SamplesAgree'
<1> USE BucketFacts, EntryFacts DEF StoreInv, TypeOK
<1>1. CASE AddSample
  <2>0. ingest.cid \in Cids /\ ingest.new \in Buckets
    BY <1>1 DEF AddSample, IngestAt, RequestOK, Adding
  <2> PICK c \in Cids, b \in Buckets : c = ingest.cid /\ b = ingest.new
    BY <2>0
  <2>1. /\ UNCHANGED <<store, hist>> /\ ingest'.cid = c
        /\ ingest.pc = "add_sample" /\ ingest'.pc \in {"idle", "crashed"}
        /\ samples' = [samples EXCEPT ![b] = @ + 1]
    BY <1>1 DEF AddSample, Scorer!With, IngestAt, IngestGoto, ThreadTypeOK
  <2>2. SUFFICES ASSUME hist.honest PROVE SamplesAgree'
    BY <2>1 DEF SamplesAgree
  <2>3. store[c] = b
    BY <2>1, <2>2 DEF RequestHonest
  <2>4. /\ \A d \in Cids \ {c} : SampleOf(d)' = SampleOf(d)
        /\ SampleOf(c) = Absent /\ SampleOf(c)' = b
    BY <2>1, <2>3 DEF SampleOf, InRequest
  <2>5. SUFFICES ASSUME NEW x \in Buckets PROVE samples'[x] = Cardinality(Holders(x)')
    BY DEF SamplesAgree, Holders
  <2>6. samples[x] = Cardinality(Holders(x)) /\ samples[x] \in Nat
    BY <2>2 DEF SamplesAgree, Holders, CoreTypeOK
  <2>7. samples'[x] = IF x = b THEN samples[x] + 1 ELSE samples[x]
    BY <2>1 DEF CoreTypeOK
  <2>8. Cardinality(Holders(x)') =
            IF x = b THEN Cardinality(Holders(x)) + 1 ELSE Cardinality(Holders(x))
    <3>1. CASE x = b
      BY <2>1, <2>4, <3>1, HoldersMoved
    <3>2. CASE x # b
      BY <2>1, <2>4, <3>2, HoldersMoved
    <3>3. QED
      BY <3>1, <3>2
  <2>9. QED
    BY <2>6, <2>7, <2>8
<1>2. CASE RemoveSample
  <2>0. ingest.cid \in Cids /\ ingest.old \in Buckets
    BY <1>2 DEF RemoveSample, IngestAt, RequestOK, Removing
  <2> PICK c \in Cids, b \in Buckets : c = ingest.cid /\ b = ingest.old
    BY <2>0
  <2>1. /\ UNCHANGED <<store, hist>>
        /\ ingest.pc = "remove_sample"
        /\ \/ Scorer!RemoveThrows(b)
           \/ samples' = Scorer!Without(b) /\ ingest'.pc \in {"idle", "crashed"}
        /\ ingest'.cid = c
    BY <1>2 DEF RemoveSample, IngestAt, IngestGoto, ThreadTypeOK
  <2>2. SUFFICES ASSUME hist.honest PROVE SamplesAgree'
    BY <2>1 DEF SamplesAgree
  <2>3. store[c] = Absent
    BY <2>1, <2>2 DEF RequestHonest
  <2>4. SampleOf(c) = b
    BY <2>1 DEF SampleOf, InRequest
  <2>5. samples[b] >= 1 /\ samples \in [Buckets -> Nat]
    BY <2>1, <2>2, <2>4, SampleHeld DEF CoreTypeOK
  <2>6. samples' = Scorer!Without(b) /\ ingest'.pc \in {"idle", "crashed"}
    BY <2>1, <2>5, RemovalWorks
  <2>7. \A d \in Cids \ {c} : SampleOf(d)' = SampleOf(d)
    BY <2>1, <2>6 DEF SampleOf, InRequest
  <2>8. SampleOf(c)' = Absent
    BY <2>1, <2>3, <2>6 DEF SampleOf, InRequest
  <2>9. SUFFICES ASSUME NEW x \in Buckets PROVE samples'[x] = Cardinality(Holders(x)')
    BY DEF SamplesAgree, Holders
  <2>10. samples[x] = Cardinality(Holders(x)) /\ samples[x] \in Nat
    BY <2>2 DEF SamplesAgree, Holders, CoreTypeOK
  <2>11. CASE x = b
    <3>1. samples'[x] = samples[x] - 1
      BY <2>1, <2>5, <2>6, <2>11, RemovalWorks
    <3>2. Cardinality(Holders(x)') = Cardinality(Holders(x)) - 1
      BY <2>1, <2>4, <2>7, <2>8, <2>11, HoldersMoved
    <3>3. QED
      BY <2>10, <3>1, <3>2
  <2>12. CASE x # b
    <3>1. samples'[x] = samples[x]
      BY <2>1, <2>5, <2>6, <2>12, RemovalWorks
    <3>2. Cardinality(Holders(x)') = Cardinality(Holders(x))
      BY <2>1, <2>4, <2>7, <2>8, <2>12, HoldersMoved
    <3>3. QED
      BY <2>10, <3>1, <3>2
  <2>13. QED
    BY <2>11, <2>12
<1>3. ASSUME NEW verdict \in Verdicts, UpdateSample(verdict) PROVE SamplesAgree'
  <2>0. ingest.cid \in Cids /\ ingest.old \in Buckets /\ ingest.new \in Buckets
    BY <1>3 DEF UpdateSample, IngestAt, RequestOK, Updating
  <2> PICK c \in Cids, b \in Buckets, n \in Buckets :
              c = ingest.cid /\ b = ingest.old /\ n = ingest.new
    BY <2>0
  <2>1. /\ UNCHANGED <<store, hist>>
        /\ ingest.pc = "update_sample"
        /\ \/ Scorer!RemoveThrows(b)
           \/ /\ samples' = [Scorer!Without(b) EXCEPT ![n] = @ + 1]
              /\ ingest'.pc \in {"idle", "crashed", "push_above", "push_below"}
        /\ ingest'.cid = c
    BY <1>3 DEF UpdateSample, Rest!With, IngestAt, IngestGoto, ThreadTypeOK, Verdicts
  <2>2. SUFFICES ASSUME hist.honest PROVE SamplesAgree'
    BY <2>1 DEF SamplesAgree
  <2>3. store[c] = n
    BY <2>1, <2>2 DEF RequestHonest
  <2>4. SampleOf(c) = b
    BY <2>1 DEF SampleOf, InRequest
  <2>5. samples[b] >= 1 /\ samples \in [Buckets -> Nat]
    BY <2>1, <2>2, <2>4, SampleHeld DEF CoreTypeOK
  <2>6. /\ samples' = [Scorer!Without(b) EXCEPT ![n] = @ + 1]
        /\ ingest'.pc \in {"idle", "crashed", "push_above", "push_below"}
    BY <2>1, <2>5, RemovalWorks
  <2>7. \A d \in Cids \ {c} : SampleOf(d)' = SampleOf(d)
    BY <2>1, <2>6 DEF SampleOf, InRequest
  <2>8. SampleOf(c)' = n
    BY <2>1, <2>3, <2>6 DEF SampleOf, InRequest
  <2>9. /\ Scorer!Without(b) \in [Buckets -> Nat]
        /\ Scorer!Without(b)[b] = samples[b] - 1
        /\ \A x \in Buckets \ {b} : Scorer!Without(b)[x] = samples[x]
    BY <2>1, <2>5, RemovalWorks
  <2>10. SUFFICES ASSUME NEW x \in Buckets PROVE samples'[x] = Cardinality(Holders(x)')
    BY DEF SamplesAgree, Holders
  <2>11. samples[x] = Cardinality(Holders(x)) /\ samples[x] \in Nat
    BY <2>2 DEF SamplesAgree, Holders, CoreTypeOK
  <2>12. CASE x = b /\ x # n
    <3>1. samples'[x] = samples[x] - 1
      BY <2>1, <2>6, <2>9, <2>12
    <3>2. Cardinality(Holders(x)') = Cardinality(Holders(x)) - 1
      BY <2>1, <2>4, <2>7, <2>8, <2>12, HoldersMoved
    <3>3. QED
      BY <2>11, <3>1, <3>2
  <2>13. CASE x # b /\ x = n
    <3>1. samples'[x] = samples[x] + 1
      BY <2>1, <2>6, <2>9, <2>13
    <3>2. Cardinality(Holders(x)') = Cardinality(Holders(x)) + 1
      BY <2>1, <2>4, <2>7, <2>8, <2>13, HoldersMoved
    <3>3. QED
      BY <2>11, <3>1, <3>2
  <2>14. CASE x = b <=> x = n
    <3>1. samples'[x] = samples[x]
      BY <2>1, <2>6, <2>9, <2>11, <2>14
    <3>2. Cardinality(Holders(x)') = Cardinality(Holders(x))
      BY <2>1, <2>4, <2>7, <2>8, <2>14, HoldersMoved
    <3>3. QED
      BY <2>11, <3>1, <3>2
  <2>15. QED
    BY <2>12, <2>13, <2>14
<1>4. ASSUME NEW c \in Cids, AddLink(c) PROVE SamplesAgree'
  <2>1. /\ ingest.pc = "idle" /\ ingest'.pc = "add_count" /\ ingest'.cid = c
        /\ UNCHANGED <<store, samples>>
        /\ hist' = [hist EXCEPT !.honest = @ /\ store[c] = Absent]
    BY <1>4 DEF AddLink, BeginRequest, IngestAt
  <2>2. hist'.honest => hist.honest /\ store[c] = Absent
    BY <2>1 DEF ThreadTypeOK
  <2>3. hist'.honest => \A d \in Cids : SampleOf(d)' = SampleOf(d)
    BY <2>1, <2>2 DEF SampleOf, InRequest
  <2>4. QED
    BY <2>1, <2>2, <2>3, SamplesUnmoved
<1>5. ASSUME NEW c \in Cids, NEW b \in Ratings, UpdateFetch(c, b) PROVE SamplesAgree'
  <2>1. /\ ingest.pc = "idle" /\ ingest'.pc = "update_unlink" /\ ingest'.cid = c
        /\ ingest'.old = RatingOf(Touched(c)[c])
        /\ store' = Touched(c) /\ UNCHANGED samples
        /\ hist' = [hist EXCEPT !.honest = @ /\ store[c] # Absent /\ b \in Buckets]
    BY <1>5 DEF UpdateFetch, BeginRequest, IngestAt
  <2>2. hist'.honest => hist.honest /\ UNCHANGED store /\ store[c] # Blank
    BY <2>1 DEF ThreadTypeOK, Touched, RequestHonest
  <2>3. hist'.honest => ingest'.old = store[c]
    BY <2>1, <2>2 DEF RatingOf
  <2>4. hist'.honest => \A d \in Cids : SampleOf(d)' = SampleOf(d)
    BY <2>1, <2>2, <2>3 DEF SampleOf, InRequest
  <2>5. QED
    BY <2>1, <2>2, <2>4, SamplesUnmoved
<1>6. ASSUME NEW c \in Cids, RemoveUnlink(c) PROVE SamplesAgree'
  <2> DEFINE Labels == {"crashed", "damaged", "remove_count"}
  <2>1. /\ ingest.pc = "idle"
        /\ \E label \in Labels : Unlink(c, Touched(c)[c], label, "remove_count") /\ ingest'.pc = label
        /\ ingest'.cid = c /\ ingest'.old = RatingOf(Touched(c)[c])
        /\ store' = Touched(c) /\ UNCHANGED samples
        /\ hist' = [hist EXCEPT !.honest = @ /\ store[c] # Absent, !.removed = TRUE]
    BY <1>6 DEF RemoveUnlink, BeginRequest, IngestAt
  <2>2. hist'.honest => hist.honest /\ store[c] # Absent
    BY <2>1 DEF ThreadTypeOK
  <2>3. hist'.honest => /\ UNCHANGED store /\ Touched(c) = store
                        /\ store[c] \in Buckets
    BY <2>1, <2>2 DEF Touched, RequestHonest, CoreTypeOK, Entries
  <2>4. hist'.honest => /\ ingest'.pc \in {"damaged", "remove_count"} /\ ingest'.cid = c
                        /\ ingest'.old = store[c]
    BY <2>1, <2>3, UnlinkOutcome DEF RatingOf
  <2>5. hist'.honest => \A d \in Cids : SampleOf(d)' = SampleOf(d)
    BY <2>1, <2>3, <2>4 DEF SampleOf, InRequest
  <2>6. QED
    BY <2>1, <2>2, <2>5, SamplesUnmoved
<1>7. CASE AddCount \/ UpdateLink \/ RemoveCount
  <2>1. /\ UNCHANGED <<store, samples, hist>>
        /\ \/ ingest.pc = "add_count" /\ ingest'.pc = "add_store"
           \/ ingest.pc = "update_link" /\ ingest'.pc = "update_store"
           \/ ingest.pc = "update_link" /\ ingest.new \notin Buckets
           \/ ingest.pc = "remove_count" /\ ingest'.pc = "remove_erase"
        /\ ingest'.cid = ingest.cid /\ ingest'.old = ingest.old
    BY <1>7 DEF AddCount, UpdateLink, RemoveCount, IngestAt, IngestGoto, ThreadTypeOK
  <2>2. hist'.honest => \A d \in Cids : SampleOf(d)' = SampleOf(d)
    BY <2>1 DEF SampleOf, InRequest, RequestHonest
  <2>3. QED
    BY <2>1, <2>2, SamplesUnmoved
<1>8. CASE UpdateUnlink
  <2> DEFINE Labels == {"crashed", "damaged", "update_link"}
  <2>1. /\ UNCHANGED <<store, samples, hist>>
        /\ ingest.pc = "update_unlink" /\ ingest.cid \in Cids /\ ingest.old \in Buckets
        /\ \E label \in Labels : /\ Unlink(ingest.cid, store[ingest.cid], label, "update_link")
                                 /\ ingest'.pc = label
        /\ ingest'.cid = ingest.cid /\ ingest'.old = ingest.old
    BY <1>8 DEF UpdateUnlink, IngestAt, IngestGoto, ThreadTypeOK, RequestOK, Updating
  <2>2. hist.honest => /\ store[ingest.cid] = ingest.old
                       /\ ingest'.pc \in {"damaged", "update_link"}
    BY <2>1, UnlinkOutcome DEF RequestHonest
  <2>3. hist.honest => \A d \in Cids : SampleOf(d)' = SampleOf(d)
    BY <2>1, <2>2 DEF SampleOf, InRequest
  <2>4. QED
    BY <2>1, <2>3, SamplesUnmoved
<1>9. CASE AddStore \/ UpdateStore
  <2>1. /\ UNCHANGED <<samples, hist>>
        /\ \/ ingest.pc = "add_store" /\ ingest'.pc = "add_sample"
           \/ ingest.pc = "update_store" /\ ingest'.pc = "update_sample"
        /\ store' = [store EXCEPT ![ingest.cid] = ingest.new]
        /\ ingest'.cid = ingest.cid /\ ingest'.old = ingest.old
    BY <1>9 DEF AddStore, UpdateStore, IngestAt, IngestGoto, ThreadTypeOK
  <2>2. \A d \in Cids : SampleOf(d)' = SampleOf(d)
    BY <2>1 DEF SampleOf, InRequest, CoreTypeOK
  <2>3. QED
    BY <2>1, <2>2, SamplesUnmoved
<1>10. CASE RemoveErase
  <2>1. /\ UNCHANGED <<samples, hist>>
        /\ ingest.pc = "remove_erase" /\ ingest'.pc = "remove_sample"
        /\ store' = [store EXCEPT ![ingest.cid] = Absent]
        /\ ingest'.cid = ingest.cid /\ ingest'.old = ingest.old
    BY <1>10 DEF RemoveErase, IngestAt, IngestGoto, ThreadTypeOK
  <2>2. \A d \in Cids : SampleOf(d)' = SampleOf(d)
    BY <2>1 DEF SampleOf, InRequest, CoreTypeOK
  <2>3. QED
    BY <2>1, <2>2, SamplesUnmoved
<1>11. CASE StopIngest \/ PushAbove \/ CountAbove \/ PushBelow \/ CountBelow \/ PostOutlier
  <2>1. UNCHANGED <<store, samples>>
    BY <1>11 DEF StopIngest, PushAbove, CountAbove, PushBelow, CountBelow, PostOutlier, coreVars
  <2>2. hist'.honest = hist.honest
    BY <1>11 DEF StopIngest, PushAbove, CountAbove, PushBelow, CountBelow, PostOutlier, ThreadTypeOK
  <2>3. /\ ingest.pc \in {"idle", "failed"} \cup Reporting
        /\ ingest'.pc \in {"idle", "failed", "stopped"} \cup Reporting
    BY <1>11 DEF StopIngest, PushAbove, CountAbove, PushBelow, CountBelow, PostOutlier, IngestAt,
                 IngestGoto, ThreadTypeOK, Reporting
  <2>4. \A d \in Cids : SampleOf(d)' = SampleOf(d)
    BY <2>1, <2>3 DEF SampleOf, InRequest, Reporting
  <2>5. QED
    BY <2>1, <2>2, <2>4, SamplesUnmoved
<1>12. CASE Bystander
  <2>1. UNCHANGED <<store, samples, ingest, hist>>
    BY <1>12, BystanderFacts
  <2>2. \A d \in Cids : SampleOf(d)' = SampleOf(d)
    BY <2>1 DEF SampleOf, InRequest
  <2>3. QED
    BY <2>1, <2>2, SamplesUnmoved
<1>13. QED
  BY <1>1, <1>2, <1>3, <1>4, <1>5, <1>6, <1>7, <1>8, <1>9, <1>10, <1>11, <1>12
     DEF Next, AddContribution, UpdateContribution, RemoveContribution, Shutdown, Bystander

(* The request of a well-behaved client never fails: what it removes from  *)
(* the scorer is there, and it never goes through a null position.  What   *)
(* else may bring the ingestion executor down is in RequestHonest.         *)
LEMMA NoFailureStep ==
  ASSUME StoreInv, RequestHonest, SamplesAgree, NoFailure, Next
  PROVE  NoFailure'
<1> USE DEF StoreInv, TypeOK
<1>1. RequestHonest'
  BY RequestHonestStep
<1>2. SUFFICES ASSUME hist'.honest, ingest'.pc = "failed" PROVE FALSE
  BY <1>1 DEF NoFailure, RequestHonest
<1>3. CASE RemoveSample \/ \E verdict \in Verdicts : UpdateSample(verdict)
  <2>1. /\ ingest.cid \in Cids /\ ingest.old \in Buckets
        /\ ingest.pc \in {"remove_sample", "update_sample"}
        /\ UNCHANGED hist
    BY <1>3 DEF RemoveSample, UpdateSample, IngestAt, RequestOK, Removing, Updating
  <2>2. SampleOf(ingest.cid) = ingest.old
    BY <2>1 DEF SampleOf, InRequest
  <2>3. samples[ingest.old] >= 1 /\ samples \in [Buckets -> Nat]
    BY <1>2, <2>1, <2>2, SampleHeld DEF CoreTypeOK
  <2>4. ~Scorer!RemoveThrows(ingest.old)
    BY <2>1, <2>3, RemovalWorks
  <2>5. QED
    BY <1>2, <1>3, <2>4 DEF RemoveSample, UpdateSample, IngestGoto, ThreadTypeOK, Verdicts
<1>4. CASE AddCount \/ AddStore \/ AddSample \/ UpdateUnlink \/ UpdateLink \/ UpdateStore
           \/ RemoveCount \/ RemoveErase
  BY <1>2, <1>4 DEF AddCount, AddStore, AddSample, UpdateUnlink, UpdateLink, UpdateStore,
                    RemoveCount, RemoveErase, IngestGoto, ThreadTypeOK
<1>5. CASE StopIngest \/ PushAbove \/ CountAbove \/ PushBelow \/ CountBelow \/ PostOutlier
  BY <1>2, <1>5 DEF StopIngest, PushAbove, CountAbove, PushBelow, CountBelow, PostOutlier,
                    IngestGoto, ThreadTypeOK
<1>6. ASSUME NEW c \in Cids, AddLink(c) \/ RemoveUnlink(c) \/ \E b \in Ratings : UpdateFetch(c, b)
      PROVE  FALSE
  BY <1>2, <1>6 DEF AddLink, RemoveUnlink, UpdateFetch
<1>7. CASE Bystander
  BY <1>2, <1>7, BystanderFacts DEF NoFailure
<1>8. QED
  BY <1>3, <1>4, <1>5, <1>6, <1>7
     DEF Next, AddContribution, UpdateContribution, RemoveContribution, Shutdown, Bystander

--------------------------------------------------------------------------------
(* The counter and the map *)

LEMMA CountedFinite ==
  /\ IsFiniteSet(Counted) /\ Cardinality(Counted) \in Nat
  /\ Cardinality(Counted) < CountModulus
  /\ IsFiniteSet(Counted') /\ Cardinality(Counted') \in Nat
  /\ Cardinality(Counted') < CountModulus
<1>1. Counted \in SUBSET Cids /\ Counted' \in SUBSET Cids
  BY DEF Counted
<1>2. IsFiniteSet(Cids) /\ Cardinality(Cids) \in Nat /\ Cardinality(Cids) < CountModulus
  BY StoreAssumption, FS_CardinalityType
<1>3. /\ IsFiniteSet(Counted) /\ Cardinality(Counted) \in Nat
      /\ Cardinality(Counted) <= Cardinality(Cids)
  BY <1>1, <1>2, FS_Subset, FS_CardinalityType
<1>4. /\ IsFiniteSet(Counted') /\ Cardinality(Counted') \in Nat
      /\ Cardinality(Counted') <= Cardinality(Cids)
  BY <1>1, <1>2, FS_Subset, FS_CardinalityType
<1>5. QED
  BY <1>2, <1>3, <1>4, StoreAssumption

LEMMA CountInit == Init => CountAgrees
<1> SUFFICES ASSUME Init, hist.zeroed PROVE contribution_count = Cardinality(Counted)
  BY DEF CountAgrees
<1>1. Counted = {}
  BY BucketFacts DEF Init, Counted, InRequest
<1>2. contribution_count = 0
  BY DEF Init
<1>3. QED
  BY <1>1, <1>2, FS_EmptySet

(* A counter within its range does not wrap around. *)
LEMMA NoWrap ==
  ASSUME NEW n \in Nat, n < CountModulus
  PROVE  /\ n + 1 < CountModulus => Plus1(n) = n + 1
         /\ n >= 1 => Minus1(n) = n - 1
  BY StoreAssumption DEF Plus1, Minus1

(* A step that leaves the counter and the counted entries alone. *)
LEMMA CountUnmoved ==
  ASSUME CountAgrees, hist'.honest => hist.honest, hist'.zeroed = hist.zeroed,
         UNCHANGED contribution_count, hist'.honest => Counted' = Counted
  PROVE  CountAgrees'
  BY DEF CountAgrees

LEMMA CountStep ==
  ASSUME StoreInv, RequestHonest, CountAgrees, Next
  PROVE  CountAgrees'
<1> USE BucketFacts, EntryFacts DEF StoreInv, TypeOK
<1>1. CASE AddCount
  <2>1. /\ UNCHANGED <<store, hist>>
        /\ ingest.cid \in Cids
        /\ ingest.pc = "add_count" /\ ingest'.pc = "add_store" /\ ingest'.cid = ingest.cid
        /\ contribution_count' = Plus1(contribution_count)
    BY <1>1 DEF AddCount, IngestAt, IngestGoto, ThreadTypeOK, RequestOK, Adding
  <2>2. SUFFICES ASSUME hist.honest, hist.zeroed PROVE CountAgrees'
    BY <2>1 DEF CountAgrees
  <2>3. store[ingest.cid] = Absent /\ contribution_count = Cardinality(Counted)
    BY <2>1, <2>2 DEF RequestHonest, CountAgrees
  <2>4. Counted' = Counted \cup {ingest.cid} /\ ingest.cid \notin Counted
    BY <2>1, <2>3 DEF Counted, InRequest
  <2>5. Cardinality(Counted') = Cardinality(Counted) + 1
    BY <2>4, CountedFinite, FS_AddElement
  <2>6. QED
    BY <2>1, <2>3, <2>5, CountedFinite, NoWrap DEF CountAgrees
<1>2. CASE RemoveCount
  <2>1. /\ UNCHANGED <<store, hist>>
        /\ ingest.cid \in Cids /\ ingest.old \in Buckets
        /\ ingest.pc = "remove_count" /\ ingest'.pc = "remove_erase" /\ ingest'.cid = ingest.cid
        /\ contribution_count' = Minus1(contribution_count)
    BY <1>2 DEF RemoveCount, IngestAt, IngestGoto, ThreadTypeOK, RequestOK, Removing
  <2>2. SUFFICES ASSUME hist.honest, hist.zeroed PROVE CountAgrees'
    BY <2>1 DEF CountAgrees
  <2>3. store[ingest.cid] # Absent /\ contribution_count = Cardinality(Counted)
    BY <2>1, <2>2 DEF RequestHonest, CountAgrees
  <2>4. Counted' = Counted \ {ingest.cid} /\ ingest.cid \in Counted
    BY <2>1, <2>3 DEF Counted, InRequest
  <2>5. Cardinality(Counted') = Cardinality(Counted) - 1
    BY <2>4, CountedFinite, FS_RemoveElement
  <2>6. Cardinality(Counted) >= 1
    BY <2>5, CountedFinite
  <2>7. QED
    BY <2>1, <2>3, <2>5, <2>6, CountedFinite, NoWrap DEF CountAgrees
<1>3. ASSUME NEW c \in Cids, AddLink(c) PROVE CountAgrees'
  <2>1. /\ ingest.pc = "idle" /\ ingest'.pc = "add_count"
        /\ UNCHANGED <<store, contribution_count>>
        /\ hist' = [hist EXCEPT !.honest = @ /\ store[c] = Absent]
    BY <1>3 DEF AddLink, BeginRequest, IngestAt
  <2>2. (hist'.honest => hist.honest) /\ hist'.zeroed = hist.zeroed
    BY <2>1 DEF ThreadTypeOK
  <2>3. Counted' = Counted
    BY <2>1 DEF Counted, InRequest
  <2>4. QED
    BY <2>1, <2>2, <2>3, CountUnmoved
<1>4. ASSUME NEW c \in Cids, RemoveUnlink(c) \/ \E b \in Ratings : UpdateFetch(c, b)
      PROVE  CountAgrees'
  <2>1. /\ ingest.pc = "idle" /\ ingest'.pc \notin {"remove_erase", "add_store"}
        /\ store' = Touched(c) /\ UNCHANGED contribution_count
    BY <1>4 DEF RemoveUnlink, UpdateFetch, BeginRequest, IngestAt
  <2>2. /\ hist'.zeroed = hist.zeroed
        /\ hist'.honest => hist.honest /\ store[c] # Absent
    <3>1. CASE RemoveUnlink(c)
      BY <3>1 DEF RemoveUnlink, ThreadTypeOK
    <3>2. ASSUME NEW b \in Ratings, UpdateFetch(c, b)
          PROVE  /\ hist'.zeroed = hist.zeroed
                 /\ hist'.honest => hist.honest /\ store[c] # Absent
      BY <3>2 DEF UpdateFetch, ThreadTypeOK
    <3>3. QED
      BY <1>4, <3>1, <3>2
  <2>3. hist'.honest => Counted' = Counted
    BY <2>1, <2>2 DEF Counted, InRequest, Touched
  <2>4. QED
    BY <2>1, <2>2, <2>3, CountUnmoved
<1>5. CASE AddStore \/ UpdateStore
  <2>1. /\ UNCHANGED <<contribution_count, hist>>
        /\ ingest.cid \in Cids /\ ingest.new \in Buckets /\ (UpdateStore => ingest.old \in Buckets)
        /\ \/ ingest.pc = "add_store" /\ ingest'.pc = "add_sample"
           \/ ingest.pc = "update_store" /\ ingest'.pc = "update_sample" /\ ingest.old \in Buckets
        /\ store' = [store EXCEPT ![ingest.cid] = ingest.new]
    BY <1>5 DEF AddStore, UpdateStore, IngestAt, IngestGoto, ThreadTypeOK, RequestOK, Adding, Updating
  <2>2. hist.honest => \A d \in Cids : d \in Counted' <=> d \in Counted
    BY <2>1 DEF Counted, InRequest, RequestHonest, CoreTypeOK
  <2>3. hist.honest => Counted' = Counted
    BY <2>2 DEF Counted
  <2>4. QED
    BY <2>1, <2>3, CountUnmoved
<1>6. CASE RemoveErase
  <2>1. /\ UNCHANGED <<contribution_count, hist>>
        /\ ingest.cid \in Cids
        /\ ingest.pc = "remove_erase" /\ ingest'.pc = "remove_sample"
        /\ store' = [store EXCEPT ![ingest.cid] = Absent]
    BY <1>6 DEF RemoveErase, IngestAt, IngestGoto, ThreadTypeOK, RequestOK, Removing
  <2>2. Counted' = Counted
    BY <2>1 DEF Counted, InRequest, CoreTypeOK
  <2>3. QED
    BY <2>1, <2>2, CountUnmoved
<1>7. ASSUME UNCHANGED <<store, contribution_count>>,
             hist'.honest = hist.honest, hist'.zeroed = hist.zeroed,
             ingest.pc \notin {"remove_erase", "add_store"},
             ingest'.pc \notin {"remove_erase", "add_store"}
      PROVE  CountAgrees'
  <2>1. Counted' = Counted
    BY <1>7 DEF Counted, InRequest
  <2>2. QED
    BY <1>7, <2>1, CountUnmoved
<1>8. CASE AddSample \/ UpdateUnlink \/ UpdateLink \/ RemoveSample
           \/ \E verdict \in Verdicts : UpdateSample(verdict)
  <2>1. UNCHANGED <<store, contribution_count, hist>>
    BY <1>8 DEF AddSample, UpdateUnlink, UpdateLink, RemoveSample, UpdateSample
  <2>2. /\ ingest.pc \notin {"remove_erase", "add_store"}
        /\ ingest'.pc \notin {"remove_erase", "add_store"}
    BY <1>8 DEF AddSample, UpdateUnlink, UpdateLink, RemoveSample, UpdateSample, IngestAt,
                IngestGoto, ThreadTypeOK, Verdicts
  <2>3. QED
    BY <2>1, <2>2, <1>7
<1>9. CASE StopIngest \/ PushAbove \/ CountAbove \/ PushBelow \/ CountBelow \/ PostOutlier
  <2>1. UNCHANGED <<store, contribution_count>>
    BY <1>9 DEF StopIngest, PushAbove, CountAbove, PushBelow, CountBelow, PostOutlier, coreVars
  <2>2. hist'.honest = hist.honest /\ hist'.zeroed = hist.zeroed
    BY <1>9 DEF StopIngest, PushAbove, CountAbove, PushBelow, CountBelow, PostOutlier, ThreadTypeOK
  <2>3. /\ ingest.pc \notin {"remove_erase", "add_store"}
        /\ ingest'.pc \notin {"remove_erase", "add_store"}
    BY <1>9 DEF StopIngest, PushAbove, CountAbove, PushBelow, CountBelow, PostOutlier, IngestAt,
                IngestGoto, ThreadTypeOK
  <2>4. QED
    BY <2>1, <2>2, <2>3, <1>7
<1>10. CASE Bystander
  <2>1. UNCHANGED <<store, contribution_count, ingest, hist>>
    BY <1>10, BystanderFacts
  <2>2. Counted' = Counted
    BY <2>1 DEF Counted, InRequest
  <2>3. QED
    BY <2>1, <2>2, CountUnmoved
<1>11. QED
  BY <1>1, <1>2, <1>3, <1>4, <1>5, <1>6, <1>8, <1>9, <1>10
     DEF Next, AddContribution, UpdateContribution, RemoveContribution, Shutdown, Bystander

--------------------------------------------------------------------------------

AgreementInv ==
    RequestHonest /\ NodesAgree /\ SamplesAgree /\ NoFailure /\ CountAgrees

LEMMA AgreementInvCorrect == Spec => []AgreementInv
<1>1. Init => AgreementInv
  BY RequestHonestInit, NodesInit, SamplesInit, CountInit DEF AgreementInv, Init, NoFailure
<1>2. StoreInv /\ AgreementInv /\ Next => AgreementInv'
  BY RequestHonestStep, NodesStep, SamplesStep, NoFailureStep, CountStep DEF AgreementInv
<1>3. AgreementInv /\ UNCHANGED vars => AgreementInv'
  BY DEF AgreementInv, RequestHonest, NodesAgree, NodeOf, SamplesAgree, SampleOf, NoFailure,
         CountAgrees, Counted, InRequest, vars, coreVars
<1>4. StoreInv /\ AgreementInv /\ [Next]_vars => AgreementInv'
  BY <1>2, <1>3
<1>5. QED
  BY <1>1, <1>4, StoreInvCorrect, PTL DEF Spec

(* Between any two steps of a well-behaved client's request, each entry of *)
(* the map has exactly one list node, in the list of its rating, and there *)
(* are no others.                                                          *)
THEOREM NodesCorrect == Spec => []NodesAgree
  BY AgreementInvCorrect, PTL DEF AgreementInv

(* The scorer holds exactly the ratings of the map.                        *)
THEOREM SamplesCorrect == Spec => []SamplesAgree
  BY AgreementInvCorrect, PTL DEF AgreementInv

(* No request of such a client makes the scorer throw, goes through a null *)
(* position or past the lists: what brings the ingestion executor down for *)
(* it is the removal of a tail that was cycled there, or a scorer that may *)
(* have lost its quartiles.                                                *)
THEOREM NoFailureCorrect == Spec => []NoFailure
  BY AgreementInvCorrect, PTL DEF AgreementInv

(* The counter that lets the match executor start is the number of entries *)
(* and never wraps around, if it began as zero.                            *)
THEOREM CountCorrect == Spec => []CountAgrees
  BY AgreementInvCorrect, PTL DEF AgreementInv

--------------------------------------------------------------------------------
(* The outlier queues and their counters, while only high outliers come    *)

(* A request pushes one outlier at most, so the queue of the high ones is  *)
(* never longer than the number of requests.                               *)
BacklogBound ==
    /\ requests <= MaxRequests
    /\ Len(above_outlier_queue) <= requests
    /\ ingest.pc \in Updating \cup {"push_above", "push_below"} =>
           Len(above_outlier_queue) < requests

(* The permit of shutdown is still there for a control executor that is    *)
(* about to take an outlier; the one that it was woken by was another.     *)
ShutdownPermit ==
    shutdown = "posted" /\ control \notin {"woken", "stopped"} => permits >= 1

(* Until the first low outlier the lower queue and its counter are empty   *)
(* and left alone, and the counter of the upper queue is its length, but   *)
(* for what is pushed and not counted yet, or counted off and not popped.  *)
AboveOnly ==
    ~hist.below /\ hist.zeroed =>
        /\ ingest.pc # "count_below"
        /\ below_outlier_queue = <<>> /\ below_outliers_count = 0
        /\ control \notin {"take_below", "pop_below", "undefined"}
        /\ Len(above_outlier_queue) = above_outliers_count
               + (IF ingest.pc = "count_above" THEN 1 ELSE 0)
               + (IF control = "pop_above" THEN 1 ELSE 0)

BacklogInv == BacklogBound /\ ShutdownPermit /\ AboveOnly

LEMMA BacklogInit == Init => BacklogInv
<1> SUFFICES ASSUME Init PROVE BacklogInv
  OBVIOUS
<1>1. BacklogBound
  BY StoreAssumption DEF Init, BacklogBound, Updating
<1>2. ShutdownPermit
  BY DEF Init, ShutdownPermit
<1>3. hist.zeroed => above_outliers_count = 0 /\ below_outliers_count = 0
  BY DEF Init
<1>4. AboveOnly
  BY <1>3 DEF Init, AboveOnly
<1>5. QED
  BY <1>1, <1>2, <1>4 DEF BacklogInv

(* A control executor that has read its shutdown flag and goes on was woken *)
(* by a permit for a queued outlier.                                       *)
LEMMA OutlierIsCounted ==
  ASSUME StoreInv, OutlierTokens, BacklogInv, ~hist.below, hist.zeroed,
         control \in {"above_more", "below_more", "above_any", "take_above"}
  PROVE  above_outliers_count > 0
<1>1. /\ Len(above_outlier_queue) \in Nat /\ permits \in Nat
      /\ above_outliers_count \in Nat
  BY QueueFacts, StoreAssumption DEF StoreInv, TypeOK, OutlierTypeOK
<1>2. Len(below_outlier_queue) = 0
  BY DEF BacklogInv, AboveOnly
<1>3. shutdown = "posted" => permits >= 1
  BY DEF BacklogInv, ShutdownPermit
<1>4. /\ ingest.pc = "count_above" => Len(above_outlier_queue) >= 2
      /\ Len(above_outlier_queue) >= 1
  BY <1>1, <1>2, <1>3 DEF OutlierTokens
<1>5. Len(above_outlier_queue) =
          above_outliers_count + (IF ingest.pc = "count_above" THEN 1 ELSE 0)
  BY <1>1 DEF BacklogInv, AboveOnly
<1>6. QED
  BY <1>1, <1>4, <1>5

(* The steps of the ingestion thread that report an outlier.               *)
LEMMA BacklogReport ==
  ASSUME StoreInv, BacklogInv, MaxRequests < CountModulus,
         PushAbove \/ CountAbove \/ PushBelow \/ CountBelow \/ PostOutlier
  PROVE  BacklogInv'
<1> USE DEF StoreInv, TypeOK
<1>1. /\ Len(above_outlier_queue) \in Nat /\ permits \in Nat /\ requests \in Nat
      /\ above_outliers_count \in Nat /\ above_outliers_count < CountModulus
      /\ CountModulus \in Nat /\ MaxRequests \in Nat
  BY QueueFacts, StoreAssumption DEF OutlierTypeOK, ThreadTypeOK
<1>2. CASE PushAbove
  <2>1. /\ Len(above_outlier_queue') = Len(above_outlier_queue) + 1
        /\ UNCHANGED <<below_outlier_queue, above_outliers_count, below_outliers_count,
                       permits, control, shutdown, requests, hist>>
        /\ ingest.pc = "push_above" /\ ingest'.pc = "count_above"
    BY <1>2, QueueFacts
       DEF PushAbove, IngestAt, IngestGoto, OutlierTypeOK, RequestOK, Reporting, ThreadTypeOK
  <2>2. QED
    BY <1>1, <2>1 DEF BacklogInv, BacklogBound, ShutdownPermit, AboveOnly, Updating
<1>3. CASE PushBelow
  <2>1. /\ UNCHANGED <<above_outlier_queue, permits, control, shutdown, requests>>
        /\ hist'.below
        /\ ingest.pc = "push_below" /\ ingest'.pc = "count_below"
    BY <1>3 DEF PushBelow, IngestAt, IngestGoto, ThreadTypeOK
  <2>2. QED
    BY <1>1, <2>1 DEF BacklogInv, BacklogBound, ShutdownPermit, AboveOnly, Updating
<1>4. CASE CountAbove
  <2>1. /\ UNCHANGED <<above_outlier_queue, below_outlier_queue, below_outliers_count,
                       permits, control, shutdown, requests, hist>>
        /\ above_outliers_count' = Plus1(above_outliers_count)
        /\ ingest.pc = "count_above" /\ ingest'.pc = "post_outlier"
    BY <1>4 DEF CountAbove, IngestAt, IngestGoto, ThreadTypeOK
  <2>2. ~hist.below /\ hist.zeroed => above_outliers_count + 1 < CountModulus
    BY <1>1, <2>1 DEF BacklogInv, BacklogBound, AboveOnly
  <2>3. ~hist.below /\ hist.zeroed => above_outliers_count' = above_outliers_count + 1
    BY <1>1, <2>1, <2>2, NoWrap
  <2>4. QED
    BY <1>1, <2>1, <2>3 DEF BacklogInv, BacklogBound, ShutdownPermit, AboveOnly, Updating
<1>5. CASE CountBelow
  <2>1. /\ UNCHANGED <<above_outlier_queue, permits, control, shutdown, requests, hist>>
        /\ ingest.pc = "count_below" /\ ingest'.pc = "post_outlier"
    BY <1>5 DEF CountBelow, IngestAt, IngestGoto, ThreadTypeOK
  <2>2. QED
    BY <1>1, <2>1 DEF BacklogInv, BacklogBound, ShutdownPermit, AboveOnly, Updating
<1>6. CASE PostOutlier
  <2>1. /\ UNCHANGED <<above_outlier_queue, below_outlier_queue, above_outliers_count,
                       below_outliers_count, control, shutdown, requests, hist>>
        /\ permits' = permits + 1
        /\ ingest.pc = "post_outlier" /\ ingest'.pc = "idle"
    BY <1>6 DEF PostOutlier, IngestAt, IngestGoto, ThreadTypeOK
  <2>2. QED
    BY <1>1, <2>1 DEF BacklogInv, BacklogBound, ShutdownPermit, AboveOnly, Updating
<1>7. QED
  BY <1>2, <1>3, <1>4, <1>5, <1>6

(* The steps of the control thread and of its shutdown.                    *)
LEMMA BacklogControl ==
  ASSUME StoreInv, OutlierTokens, BacklogInv, Defined,
         FetchOutlier \/ FlagShutdown \/ TriggerOutlierWait
  PROVE  BacklogInv'
<1> USE DEF StoreInv, TypeOK
<1>1. /\ Len(above_outlier_queue) \in Nat /\ permits \in Nat /\ requests \in Nat
      /\ above_outliers_count \in Nat /\ above_outliers_count < CountModulus
  BY QueueFacts, StoreAssumption DEF OutlierTypeOK, ThreadTypeOK
<1>2. UNCHANGED <<ingest, requests, hist>>
  BY DEF FetchOutlier, WaitForOutlier, TestShutdown, ChooseQueue, TakeAbove, TakeBelow,
         PopAbove, PopBelow, FlagShutdown, TriggerOutlierWait, ingestAndMatchVars
<1>3. ASSUME UNCHANGED <<above_outlier_queue, below_outlier_queue, above_outliers_count,
                         below_outliers_count>>,
             control' \notin {"take_below", "pop_below", "undefined", "pop_above"},
             control # "pop_above", ShutdownPermit'
      PROVE  BacklogInv'
  BY <1>1, <1>2, <1>3 DEF BacklogInv, BacklogBound, AboveOnly
<1>4. CASE WaitForOutlier
  <2>1. /\ UNCHANGED <<above_outlier_queue, below_outlier_queue, above_outliers_count,
                       below_outliers_count>>
        /\ control = "wait" /\ control' = "woken"
    BY <1>4 DEF WaitForOutlier
  <2>2. QED
    BY <2>1, <1>3 DEF ShutdownPermit
<1>5. CASE TestShutdown
  <2>1. /\ UNCHANGED <<above_outlier_queue, below_outlier_queue, above_outliers_count,
                       below_outliers_count, shutdown>>
        /\ control = "woken"
        /\ \/ control' = "stopped"
           \/ control' = "above_more" /\ shutdown = "none"
    BY <1>5 DEF TestShutdown, outlierVars
  <2>2. QED
    BY <2>1, <1>3 DEF ShutdownPermit
<1>6. CASE ChooseQueue
  <2>1. /\ UNCHANGED <<above_outlier_queue, below_outlier_queue, above_outliers_count,
                       below_outliers_count, permits, shutdown>>
        /\ control \in {"above_more", "below_more", "above_any"}
        /\ control' \in {"below_more", "above_any", "take_above", "take_below"}
        /\ control' = "take_below" =>
               \/ control = "below_more" /\ below_outliers_count > above_outliers_count
               \/ control = "above_any" /\ ~(above_outliers_count > 0)
    BY <1>6 DEF ChooseQueue, outlierVars
  <2>2. ShutdownPermit'
    BY <2>1 DEF BacklogInv, ShutdownPermit
  <2>3. CASE ~hist.below /\ hist.zeroed
    <3>1. above_outliers_count > 0 /\ below_outliers_count = 0
      BY <2>1, <2>3, OutlierIsCounted DEF BacklogInv, AboveOnly
    <3>2. control' # "take_below"
      BY <1>1, <2>1, <3>1
    <3>3. QED
      BY <2>1, <2>2, <3>2, <1>3
  <2>4. CASE ~(~hist.below /\ hist.zeroed)
    BY <1>1, <1>2, <2>1, <2>2, <2>4 DEF BacklogInv, BacklogBound, AboveOnly
  <2>5. QED
    BY <2>3, <2>4
<1>7. CASE TakeAbove
  <2>1. /\ UNCHANGED <<above_outlier_queue, below_outlier_queue, below_outliers_count,
                       permits, shutdown>>
        /\ above_outliers_count' = Minus1(above_outliers_count)
        /\ control = "take_above" /\ control' = "pop_above"
    BY <1>7 DEF TakeAbove
  <2>2. ~hist.below /\ hist.zeroed => above_outliers_count > 0
    BY <2>1, OutlierIsCounted
  <2>3. ~hist.below /\ hist.zeroed => above_outliers_count' = above_outliers_count - 1
    BY <1>1, <2>1, <2>2, NoWrap
  <2>4. QED
    BY <1>1, <1>2, <2>1, <2>3 DEF BacklogInv, BacklogBound, ShutdownPermit, AboveOnly
<1>8. CASE TakeBelow
  <2>1. /\ UNCHANGED <<above_outlier_queue, permits, shutdown>>
        /\ control = "take_below" /\ control' = "pop_below"
    BY <1>8 DEF TakeBelow
  <2>2. QED
    BY <1>1, <1>2, <2>1 DEF BacklogInv, BacklogBound, ShutdownPermit, AboveOnly
<1>9. CASE PopAbove
  <2>1. /\ UNCHANGED <<below_outlier_queue, above_outliers_count, below_outliers_count,
                       permits, shutdown>>
        /\ control = "pop_above"
        /\ \/ /\ above_outlier_queue = <<>> /\ UNCHANGED above_outlier_queue
              /\ control' = "undefined"
           \/ /\ Len(above_outlier_queue') = Len(above_outlier_queue) - 1
              /\ control' = "wait"
    BY <1>9, QueueFacts DEF PopAbove, OutlierTypeOK
  <2>2. ~hist.below /\ hist.zeroed => Len(above_outlier_queue) >= 1
    BY <1>1, <2>1 DEF BacklogInv, AboveOnly
  <2>3. ~hist.below /\ hist.zeroed => above_outlier_queue # <<>>
    BY <2>2
  <2>4. QED
    BY <1>1, <1>2, <2>1, <2>3 DEF BacklogInv, BacklogBound, ShutdownPermit, AboveOnly
<1>10. CASE PopBelow
  <2>1. /\ UNCHANGED <<above_outlier_queue, permits, shutdown>>
        /\ control = "pop_below" /\ control' \in {"undefined", "wait"}
    BY <1>10 DEF PopBelow
  <2>2. QED
    BY <1>1, <1>2, <2>1 DEF BacklogInv, BacklogBound, ShutdownPermit, AboveOnly
<1>11. CASE FlagShutdown \/ TriggerOutlierWait
  <2>1. /\ UNCHANGED <<above_outlier_queue, below_outlier_queue, above_outliers_count,
                       below_outliers_count, control>>
        /\ shutdown' = "posted" => permits' = permits + 1
    BY <1>11 DEF FlagShutdown, TriggerOutlierWait, outlierVars
  <2>2. QED
    BY <1>1, <1>2, <2>1 DEF BacklogInv, BacklogBound, ShutdownPermit, AboveOnly
<1>12. QED
  BY <1>4, <1>5, <1>6, <1>7, <1>8, <1>9, <1>10, <1>11 DEF FetchOutlier

(* The steps of the requests that have nothing to do with outliers.        *)
LEMMA BacklogElsewhere ==
  ASSUME StoreInv, BacklogInv,
         \/ AddContribution \/ RemoveContribution \/ FetchMatchPair \/ StopIngest \/ StopMatch
         \/ \E c \in Cids, b \in Ratings : UpdateFetch(c, b)
         \/ UpdateUnlink \/ UpdateLink \/ UpdateStore
         \/ \E verdict \in Verdicts : UpdateSample(verdict)
  PROVE  BacklogInv'
<1> USE DEF StoreInv, TypeOK
<1>1. /\ Len(above_outlier_queue) \in Nat /\ requests \in Nat /\ MaxRequests \in Nat
  BY QueueFacts, StoreAssumption DEF OutlierTypeOK, ThreadTypeOK
<1>2. UNCHANGED <<outlierVars, control, shutdown>>
  BY DEF AddContribution, AddLink, AddCount, AddStore, AddSample, RemoveContribution,
         RemoveUnlink, RemoveCount, RemoveErase, RemoveSample, UpdateFetch, UpdateUnlink,
         UpdateLink, UpdateStore, UpdateSample, StopIngest, StopMatch, FetchMatchPair,
         MatchBegin, MatchThrow, MatchQueued, MatchFirst, MatchSecond, ingestAndControlVars
<1>3. ASSUME /\ hist'.below = hist.below /\ hist'.zeroed = hist.zeroed
             /\ ingest.pc # "count_above" /\ ingest'.pc \notin {"count_above", "count_below"}
             /\ requests' <= MaxRequests /\ requests' \in Nat
             /\ \/ requests' > requests
                \/ /\ requests' = requests
                   /\ ingest'.pc \in Updating \cup {"push_above", "push_below"} =>
                          ingest.pc \in Updating \cup {"push_above", "push_below"}
      PROVE  BacklogInv'
  <2>1. BacklogBound'
    BY <1>1, <1>2, <1>3 DEF BacklogInv, BacklogBound, outlierVars
  <2>2. ShutdownPermit'
    BY <1>2 DEF BacklogInv, ShutdownPermit, outlierVars
  <2>3. AboveOnly'
    BY <1>1, <1>2, <1>3 DEF BacklogInv, AboveOnly, outlierVars
  <2>4. QED
    BY <2>1, <2>2, <2>3 DEF BacklogInv
<1>4. requests <= MaxRequests
  BY DEF BacklogInv, BacklogBound
<1>5. ASSUME NEW c \in Cids,
             AddLink(c) \/ RemoveUnlink(c) \/ \E b \in Ratings : UpdateFetch(c, b)
      PROVE  BacklogInv'
  <2>1. /\ ingest.pc = "idle" /\ requests < MaxRequests /\ requests' = requests + 1
        /\ ingest'.pc \in {"add_count", "crashed", "damaged", "remove_count", "update_unlink"}
    BY <1>5 DEF AddLink, RemoveUnlink, UpdateFetch, BeginRequest, IngestAt
  <2>2. hist'.below = hist.below /\ hist'.zeroed = hist.zeroed
    BY <1>5 DEF AddLink, RemoveUnlink, UpdateFetch, ThreadTypeOK
  <2>3. QED
    BY <1>1, <1>3, <2>1, <2>2
<1>6. ASSUME UNCHANGED <<requests, hist>>, ingest.pc # "count_above",
             ingest'.pc \notin {"count_above", "count_below"},
             ingest'.pc \in Updating \cup {"push_above", "push_below"} =>
                 ingest.pc \in Updating \cup {"push_above", "push_below"}
      PROVE  BacklogInv'
  BY <1>1, <1>3, <1>4, <1>6
<1>7. CASE AddCount \/ AddStore \/ AddSample \/ RemoveCount \/ RemoveErase \/ RemoveSample
           \/ StopIngest
  <2>1. UNCHANGED <<requests, hist>>
    BY <1>7 DEF AddCount, AddStore, AddSample, RemoveCount, RemoveErase, RemoveSample, StopIngest
  <2>2. /\ ingest.pc # "count_above"
        /\ ingest'.pc \in {"add_store", "add_sample", "idle", "remove_erase",
                           "remove_sample", "failed", "crashed", "stopped"}
    BY <1>7 DEF AddCount, AddStore, AddSample, RemoveCount, RemoveErase, RemoveSample,
                StopIngest, IngestAt, IngestGoto, ThreadTypeOK
  <2>3. QED
    BY <1>6, <2>1, <2>2 DEF Updating
<1>8. CASE UpdateUnlink \/ UpdateLink \/ UpdateStore
           \/ \E verdict \in Verdicts : UpdateSample(verdict)
  <2>1. UNCHANGED <<requests, hist>>
    BY <1>8 DEF UpdateUnlink, UpdateLink, UpdateStore, UpdateSample
  <2>2. /\ ingest.pc \in Updating
        /\ ingest'.pc \notin {"count_above", "count_below"}
    BY <1>8 DEF UpdateUnlink, UpdateLink, UpdateStore, UpdateSample, IngestAt, IngestGoto,
                ThreadTypeOK, Verdicts, Updating
  <2>3. QED
    BY <1>6, <2>1, <2>2 DEF Updating
<1>9. CASE FetchMatchPair \/ StopMatch
  <2>1. UNCHANGED <<ingest, requests, hist>>
    BY <1>9, BystanderFacts DEF Bystander
  <2>2. QED
    BY <1>2, <2>1 DEF BacklogInv, BacklogBound, ShutdownPermit, AboveOnly, outlierVars
<1>10. QED
  BY <1>5, <1>7, <1>8, <1>9 DEF AddContribution, RemoveContribution

(* Together with the balance of the permits the backlog is inductive.      *)
LEMMA BacklogCorrect ==
  ASSUME MaxRequests < CountModulus
  PROVE  Spec => []BacklogInv
<1>1. StoreInv /\ OutlierTokens /\ BacklogInv /\ [Next]_vars => BacklogInv'
  <2> SUFFICES ASSUME StoreInv, OutlierTokens, BacklogInv, [Next]_vars PROVE BacklogInv'
    OBVIOUS
  <2>1. CASE Next
    BY <2>1, BacklogReport, BacklogControl, BacklogElsewhere
       DEF Next, UpdateContribution, Shutdown
  <2>2. CASE UNCHANGED vars
    BY <2>2 DEF BacklogInv, BacklogBound, ShutdownPermit, AboveOnly, vars, outlierVars
  <2>3. QED
    BY <2>1, <2>2
<1>2. QED
  BY <1>1, BacklogInit, StoreInvCorrect, OutlierTokensCorrect, PTL DEF Spec

(* As long as fewer requests than the counters can count were processed    *)
(* and none reported a low outlier, the control executor pops no empty     *)
(* queue, however its reads of the two counters interleave with the        *)
(* reports and with the shutdown.                                          *)
THEOREM PopsOnlyQueuedCorrect ==
  ASSUME MaxRequests < CountModulus
  PROVE  Spec => []PopsOnlyQueued
<1>1. BacklogInv => PopsOnlyQueued
  BY DEF BacklogInv, AboveOnly, PopsOnlyQueued
<1>2. QED
  BY <1>1, BacklogCorrect, PTL

--------------------------------------------------------------------------------
(* The match thread finds a sample *)

(* Removals are remembered from their first step on; and from the moment a *)
(* refill begins, the scorer has a sample, unless there was a removal.     *)
SamplesPresent ==
    /\ ingest.pc \in Removing => hist.removed
    /\ match.pc \in {"first", "second", "pair"} /\ ~hist.removed /\ hist.honest /\ hist.zeroed =>
           ~Scorer!NoSample

MatchInv == SamplesPresent /\ MatchFailsOnlyAfterRemoval

LEMMA MatchInit == Init => MatchInv
  BY DEF Init, MatchInv, SamplesPresent, MatchFailsOnlyAfterRemoval, Removing

(* Of two contributions that are counted one is not in the middle of its   *)
(* request, and so has its sample.                                         *)
LEMMA TwoCounted ==
  ASSUME StoreInv, AgreementInv, hist.honest, hist.zeroed, contribution_count >= 2
  PROVE  ~Scorer!NoSample
<1>1. Cardinality(Counted) >= 2
  BY DEF AgreementInv, CountAgrees
<1>2. PICK c \in Counted : c # ingest.cid
  <2> SUFFICES ASSUME Counted \subseteq {ingest.cid} PROVE FALSE
    OBVIOUS
  <2>1. Cardinality(Counted) <= Cardinality({ingest.cid})
    BY FS_Subset, FS_Singleton
  <2>2. Cardinality({ingest.cid}) = 1
    BY FS_Singleton
  <2>3. QED
    BY <1>1, <2>1, <2>2, CountedFinite
<1>3. c \in Cids /\ store[c] # Absent /\ SampleOf(c) = store[c]
  BY <1>2 DEF Counted, SampleOf, InRequest
<1>4. store[c] \in Buckets
  BY <1>3 DEF AgreementInv, RequestHonest, StoreInv, TypeOK, CoreTypeOK, Entries
<1>5. samples[store[c]] >= 1
  BY <1>3, <1>4, SampleHeld DEF AgreementInv
<1>6. QED
  BY <1>4, <1>5 DEF Scorer!NoSample

(* The scorer is not emptied by an addition or an update.                  *)
LEMMA SamplesStay ==
  ASSUME StoreInv, AddSample \/ (\E verdict \in Verdicts : UpdateSample(verdict)),
         ~Scorer!NoSample
  PROVE  ~Scorer!NoSample'
<1> USE DEF StoreInv, TypeOK, CoreTypeOK
<1>1. CASE AddSample
  <2>1. ingest.new \in Buckets /\ samples' = [samples EXCEPT ![ingest.new] = @ + 1]
    BY <1>1 DEF AddSample, Scorer!With, IngestAt, RequestOK, Adding
  <2>2. samples'[ingest.new] # 0
    BY <2>1
  <2>3. QED
    BY <2>1, <2>2 DEF Scorer!NoSample
<1>2. ASSUME NEW verdict \in Verdicts, UpdateSample(verdict) PROVE ~Scorer!NoSample'
  <2>1. ingest.new \in Buckets /\ ingest.old \in Buckets
    BY <1>2 DEF UpdateSample, IngestAt, RequestOK, Updating
  <2>2. CASE Scorer!RemoveThrows(ingest.old)
    <3>1. UNCHANGED samples
      BY <1>2, <2>2 DEF UpdateSample
    <3>2. QED
      BY <3>1 DEF Scorer!NoSample
  <2>3. CASE ~Scorer!RemoveThrows(ingest.old)
    <3>1. samples' = [Scorer!Without(ingest.old) EXCEPT ![ingest.new] = @ + 1]
      BY <1>2, <2>3 DEF UpdateSample, Rest!With
    <3>2. Scorer!Without(ingest.old) \in [Buckets -> Nat]
      BY <2>1, <2>3, WithoutFacts
    <3>3. samples'[ingest.new] # 0
      BY <2>1, <3>1, <3>2
    <3>4. QED
      BY <2>1, <3>3 DEF Scorer!NoSample
  <2>4. QED
    BY <2>2, <2>3
<1>3. QED
  BY <1>1, <1>2

LEMMA MatchStep ==
  ASSUME StoreInv, AgreementInv, MatchInv, MinMatchCount >= 2, Next
  PROVE  MatchInv'
<1> USE DEF StoreInv, TypeOK
<1>1. CASE MatchBegin
  <2>1. /\ contribution_count >= MinMatchCount /\ match'.pc = "first"
        /\ UNCHANGED <<samples, ingest, hist>>
    BY <1>1 DEF MatchBegin, EnoughContributions, ingestAndControlVars, coreVars
  <2>2. contribution_count >= 2
    BY <2>1, StoreAssumption DEF CoreTypeOK
  <2>3. hist.honest /\ hist.zeroed => ~Scorer!NoSample
    BY <2>2, TwoCounted
  <2>4. QED
    BY <2>1, <2>3 DEF MatchInv, SamplesPresent, MatchFailsOnlyAfterRemoval, Scorer!NoSample
<1>2. CASE MatchThrow
  <2>1. /\ match.pc \in {"first", "second"} /\ match'.pc = "failed"
        /\ Scorer!NoSample /\ UNCHANGED <<samples, ingest, hist>>
    BY <1>2 DEF MatchThrow, ingestAndControlVars, coreVars, ThreadTypeOK
  <2>2. QED
    BY <2>1 DEF MatchInv, SamplesPresent, MatchFailsOnlyAfterRemoval
<1>3. CASE MatchQueued \/ StopMatch \/ \E c \in Cids \cup {0} : MatchFirst(c) \/ MatchSecond(c)
  <2>1. UNCHANGED <<samples, ingest, hist>>
    BY <1>3 DEF MatchQueued, StopMatch, MatchFirst, MatchSecond, ingestAndControlVars, coreVars
  <2>2. /\ match'.pc # "failed"
        /\ match'.pc \in {"first", "second", "pair"} => match.pc \in {"first", "second", "pair"}
    <3>1. ASSUME NEW c \in Cids \cup {0}, MatchFirst(c) \/ MatchSecond(c)
          PROVE  /\ match.pc \in {"first", "second"}
                 /\ match'.pc \in {"first", "second", "pair"}
      BY <3>1 DEF MatchFirst, MatchSecond, ThreadTypeOK
    <3>2. CASE MatchQueued \/ StopMatch
      BY <3>2 DEF MatchQueued, StopMatch, ThreadTypeOK
    <3>3. QED
      BY <1>3, <3>1, <3>2
  <2>3. QED
    BY <2>1, <2>2 DEF MatchInv, SamplesPresent, MatchFailsOnlyAfterRemoval, Scorer!NoSample
<1>4. ASSUME UNCHANGED match,
             hist'.honest => hist.honest, hist'.zeroed = hist.zeroed, hist.removed => hist'.removed,
             ingest'.pc \in Removing => hist'.removed,
             ~hist.removed /\ ~Scorer!NoSample => ~Scorer!NoSample'
      PROVE  MatchInv'
  BY <1>4 DEF MatchInv, SamplesPresent, MatchFailsOnlyAfterRemoval
<1>5. UNCHANGED samples => (~Scorer!NoSample => ~Scorer!NoSample')
  BY DEF Scorer!NoSample
<1>6. CASE FetchOutlier \/ FlagShutdown \/ TriggerOutlierWait
  <2>1. UNCHANGED <<samples, ingest, hist>>
    BY <1>6, BystanderFacts DEF Bystander
  <2>2. UNCHANGED match
    BY <1>6 DEF FetchOutlier, WaitForOutlier, TestShutdown, ChooseQueue, TakeAbove, TakeBelow,
                PopAbove, PopBelow, FlagShutdown, TriggerOutlierWait, ingestAndMatchVars
  <2>3. QED
    BY <1>4, <1>5, <2>1, <2>2 DEF MatchInv, SamplesPresent
<1>7. ASSUME NEW c \in Cids,
             AddLink(c) \/ RemoveUnlink(c) \/ \E b \in Ratings : UpdateFetch(c, b)
      PROVE  MatchInv'
  <2>1. UNCHANGED <<match, samples>>
    BY <1>7 DEF AddLink, RemoveUnlink, UpdateFetch, outlierVars
  <2>2. /\ hist'.honest => hist.honest
        /\ hist'.zeroed = hist.zeroed
        /\ hist.removed => hist'.removed
        /\ ingest'.pc \in Removing => hist'.removed
    <3>1. CASE AddLink(c)
      <4>1. /\ hist' = [hist EXCEPT !.honest = @ /\ store[c] = Absent]
            /\ ingest'.pc = "add_count"
        BY <3>1 DEF AddLink
      <4>2. QED
        BY <4>1 DEF ThreadTypeOK, Removing
    <3>2. CASE RemoveUnlink(c)
      <4>1. hist' = [hist EXCEPT !.honest = @ /\ store[c] # Absent, !.removed = TRUE]
        BY <3>2 DEF RemoveUnlink
      <4>2. QED
        BY <4>1 DEF ThreadTypeOK
    <3>3. ASSUME NEW b \in Ratings, UpdateFetch(c, b)
          PROVE  /\ hist' = [hist EXCEPT !.honest = @ /\ store[c] # Absent /\ b \in Buckets]
                 /\ ingest'.pc = "update_unlink"
      BY <3>3 DEF UpdateFetch
    <3>4. CASE \E b \in Ratings : UpdateFetch(c, b)
      <4>1. PICK b \in Ratings :
                /\ hist' = [hist EXCEPT !.honest = @ /\ store[c] # Absent /\ b \in Buckets]
                /\ ingest'.pc = "update_unlink"
        BY <3>3, <3>4
      <4>2. QED
        BY <4>1 DEF ThreadTypeOK, Removing
    <3>5. QED
      BY <1>7, <3>1, <3>2, <3>4
  <2>3. QED
    BY <1>4, <1>5, <2>1, <2>2
<1>8. CASE AddCount \/ AddStore \/ UpdateUnlink \/ UpdateLink \/ UpdateStore \/ RemoveCount
           \/ RemoveErase \/ StopIngest
  <2>1. UNCHANGED <<match, samples, hist>>
    BY <1>8 DEF AddCount, AddStore, UpdateUnlink, UpdateLink, UpdateStore, RemoveCount,
                RemoveErase, StopIngest, coreVars
  <2>2. ingest'.pc \in Removing => ingest.pc \in Removing
    BY <1>8 DEF AddCount, AddStore, UpdateUnlink, UpdateLink, UpdateStore, RemoveCount,
                RemoveErase, StopIngest, IngestAt, IngestGoto, ThreadTypeOK, Removing
  <2>3. QED
    BY <1>4, <1>5, <2>1, <2>2 DEF MatchInv, SamplesPresent
<1>9. CASE PushAbove \/ CountAbove \/ PushBelow \/ CountBelow \/ PostOutlier
  <2>1. UNCHANGED <<match, samples>>
    BY <1>9 DEF PushAbove, CountAbove, PushBelow, CountBelow, PostOutlier, coreVars
  <2>2. /\ hist'.honest = hist.honest /\ hist'.zeroed = hist.zeroed
        /\ hist'.removed = hist.removed /\ ingest'.pc \notin Removing
    BY <1>9 DEF PushAbove, CountAbove, PushBelow, CountBelow, PostOutlier, IngestGoto,
                ThreadTypeOK, Removing
  <2>3. QED
    BY <1>4, <1>5, <2>1, <2>2
<1>10. CASE AddSample \/ \E verdict \in Verdicts : UpdateSample(verdict)
  <2>1. UNCHANGED <<match, hist>>
    BY <1>10 DEF AddSample, UpdateSample
  <2>2. ingest'.pc \notin Removing
    BY <1>10 DEF AddSample, UpdateSample, IngestGoto, ThreadTypeOK, Verdicts, Removing
  <2>3. ~Scorer!NoSample => ~Scorer!NoSample'
    BY <1>10, SamplesStay
  <2>4. QED
    BY <1>4, <2>1, <2>2, <2>3
<1>11. CASE RemoveSample
  <2>1. /\ UNCHANGED <<match, hist>> /\ ingest.pc = "remove_sample"
        /\ ingest'.pc \notin Removing
    BY <1>11 DEF RemoveSample, IngestAt, IngestGoto, ThreadTypeOK, Removing
  <2>2. hist.removed
    BY <2>1 DEF MatchInv, SamplesPresent, Removing
  <2>3. QED
    BY <1>4, <2>1, <2>2
<1>12. QED
  BY <1>1, <1>2, <1>3, <1>6, <1>7, <1>8, <1>9, <1>10, <1>11
     DEF Next, AddContribution, UpdateContribution, RemoveContribution, FetchMatchPair, Shutdown

(* With a MIN_MATCH_CONTRIBUTION_COUNT of at least two, the match executor *)
(* fails on an empty scorer only after a removal, although a contribution  *)
(* is counted before it has its sample.                                    *)
THEOREM MatchFailsOnlyAfterRemovalCorrect ==
  ASSUME MinMatchCount >= 2
  PROVE  Spec => []MatchFailsOnlyAfterRemoval
<1>1. StoreInv /\ AgreementInv /\ MatchInv /\ [Next]_vars => MatchInv'
  <2> SUFFICES ASSUME StoreInv, AgreementInv, MatchInv, [Next]_vars PROVE MatchInv'
    OBVIOUS
  <2>1. CASE UNCHANGED vars
    BY <2>1 DEF MatchInv, SamplesPresent, MatchFailsOnlyAfterRemoval, Scorer!NoSample, vars,
                coreVars
  <2>2. QED
    BY <2>1, MatchStep
<1>2. MatchInv => MatchFailsOnlyAfterRemoval
  BY DEF MatchInv
<1>3. QED
  BY <1>1, <1>2, MatchInit, StoreInvCorrect, AgreementInvCorrect, PTL DEF Spec

================================================================================
