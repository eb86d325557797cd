# Verification of the wtdal engine

TLA+ models of the engine in `src/`, TLC configurations that check them on small
instances, and proofs that TLAPS checks for every instance.  Paths below are
relative to the repository (`src/core/...` is `src/src/core/...` of the checkout,
headers are under `include/`).

## 1. The system

One process, seven threads: the orchestrator, three executors and three portals.

| Part | State | Operations | Talks to |
|---|---|---|---|
| EffSemaphore / BaseSemaphore (`util/semaphore`) | atomic `m_count`; counter, mutex, condition variable | `post`, `wait` | used by every queue and every shutdown |
| Rating list (`util/rating-list`) | `head`, `tail`, `total_c_nodes`, nodes on the heap | add, remove, cycle front to tail, free, size | one per rating, in the Elo store |
| Elo store (`core/elo-store`) | vector of `ELO_STORE_SIZE` rating lists | add, update, remove, cycle | called by the contribution store |
| IQR scorer (`util/iqr-scorer`) | lower and upper multiset, median, quartile iterators, sum, count | add, remove, random draws, `is_outlier` | called by the contribution store under a mutex |
| Contribution store (`core/contribution-store`) | map id -> (rating, position), counter, scorer, two outlier queues with counters and a semaphore | add, update, remove, `fetch_match_pair`, `fetch_outlier` | called by all three executors at once |
| Ingestion executor | request queue, mutex, semaphore | `add_ingestion`, loop, shutdown | portal -> queue -> contribution store |
| Match executor | match queue, mutex, condition variable | `fetch_match`, refill loop, shutdown | contribution store -> queue -> portal |
| Control executor | outlier queue, size, mutex | `fetch_outlier`, loop, shutdown | contribution store -> queue -> portal |
| Portals, TCP server | one client connection each, `shutdown_flag` | accept, read, write loop, shutdown | executors |
| Orchestrator, engine threads (`admin`) | global shutdown semaphore and flag, a semaphore per thread | build, wait for shutdown, shut down in order, `exit(0)` | everything |
| Elo scorer (`util/elo-scorer`) | none | rating formula | called by the ingestion executor |
| Logger, main | none that matters | output, start | |

Hard behaviours, and what has to be right:

* **Semaphores**: two counters read and written by different threads; no token and
  no wakeup may be lost, and a waiter with a token must get on.
* **Contribution store**: each request is four to eight critical sections over four
  structures, overtaken by matches and outliers; after each of them the structures must
  agree once the request in progress is accounted for, positions must point at nodes,
  and the executors must not be brought down.
* **Rating list**: pointer surgery over long sequences of calls with reused addresses;
  it must stay a queue.
* **IQR scorer**: special cases by size and parity, iterators that survive insertions and
  erasures; it must be a bag with the right median, quartiles and draws.
* **Match executor**: a condition variable whose condition other threads change; it
  must be woken when it is needed and when it has to stop.
* **Ingestion**: a queue and a semaphore that must stay in step, in order and once each.
* **Control**: a queue whose size is read without its mutex; outliers must reach the client
  in order and once each.
* **Launch and shutdown**: any error in any thread, at any time since its launch, must lead
  to the end of the process; threads are asked to stop and waited for one after the
  other, and portals may be without a client.

`PROJECT.json` lists the hazards at their lines.

## 2. Modules

| Module | Models | State corresponds to |
|---|---|---|
| `Semaphore` | what a semaphore promises | `permits`: waits that can return without a post; `waiting`: suspended threads |
| `EffSemaphore` | `util/semaphore.cpp`, one step per atomic access or critical section | the counters of both classes; `pc` of each thread |
| `EffSemaphoreProofs` | theorems about it | |
| `SampleBag` | what the store relies on in the scorer | `samples`: multiplicities; `blurred`: the quartiles may be lost, so that a call may crash |
| `IQRScorer` | `util/iqr-scorer.cpp`, one action per call | multisets as sorted sequences, iterators as positions in them |
| `IQRScorerProofs` | theorems about it, and that it implements `SampleBag` | |
| `RotatingList` | what a rating list promises | the nodes in order |
| `RatingList` | `util/rating-list.cpp`, one action per call | heap: `live`, `next`, `prev`; `head`, `tail`, `total_c_nodes` |
| `RatingListProofs` | theorems about it, and that it implements `RotatingList` | |
| `ContributionStore` | `core/contribution-store.cpp` with `core/elo-store.cpp`, and the three executor threads as its callers | map, node counts per list and id, the node each list cycled last, scorer, counters, queues; one pc per thread |
| `MCContributionStore` | the instance that is checked: ids can be permuted | |
| `ContributionStoreProofs` | theorems about it | |
| `MatchExecutor` | `exec/match-executor.cpp` on top of `ContributionStore` | queue size, who holds the mutex, who waits; the variables of the store |
| `MatchExecutorProofs` | theorems about it | |
| `IngestionPipeline` | ingestion portal, from `accept` on, and executor | queue, semaphore, pcs, flags |
| `IngestionPipelineProofs` | theorems about it | |
| `Supervision` | what the orchestrator and its threads promise each other | `alarm`, and which threads run, were asked to stop, are known to have ended |
| `EngineShutdown` | `admin/`, `portal/`, `util/tcp-server.hpp`, `exec/control-executor.cpp`, from launch to `exit(0)` | a pc and a flag per thread, global flag and semaphore, acceptor and socket per portal, the queues of outliers |
| `EngineShutdownProofs` | theorems about it, and that it implements `Supervision` | |
| `MCEngineShutdown` | the instance that is checked | |
| `SequenceLemmas` | lemmas on sequences, and that a set of natural numbers has a least one, that several proofs share | |

How they compose: `EffSemaphore` implements `Semaphore`, and `IngestionPipeline` uses
`Semaphore` for its semaphore.  `IQRScorer` implements `SampleBag`, and
`ContributionStore` uses `SampleBag` for its scorer.  `RatingList` implements
`RotatingList`; `ContributionStore` needs less of a list, only which nodes it has and which
of them was cycled last.  `MatchExecutor` instantiates `ContributionStore` and composes its
own steps with those of the ingestion and the match thread there (`Draw`, `BeginIngest`,
`GoOnIngest`), so that a refill meets a store that changes between any two of its draws; the
outlier part of the store and its history are held constant.  `EngineShutdown` implements
`Supervision`; it has the control portal and the control executor in full, and of the other
portals and executors what the orchestrator sees of them: a call that returns, a loop that
ends when it was told to, an exception - or, for those in `MayHang`, a call that does not
return and a loop that does not end.  Which do, and why, is what `IngestionPipeline` and
`MatchExecutor` are about.

Abstractions that matter when reading a result:

* A rating is the bucket it rounds to, or `OutOfRange`: nothing in the code checks that
  there is a list for it.  `Calculated` gives the buckets a result can round to, over all
  expected outcomes between 0 and 1 (a client that sends an infinite or undefined
  opponent rating is left out).  An update out of range is undefined behaviour
  (`UpdateLink`).
* Clients are called well-behaved (`hist.honest`) while they add an id that is absent,
  update or remove one that is present, and the results of their updates have a list.
  With `ELO_K_FACTOR` 40 and ten lists the last is not in the hands of a client; it is
  with the million lists that the comment at `core/elo-store.hpp:9` announces, as
  long as ratings stay away from both ends.
* `ContributionStore` has two things go wrong that do not need an ill-behaved client.  A list
  remembers whose node it cycled to the tail last (`requeued`), until another node is linked;
  the removal of that node, in a remove or an update, leaves the list damaged, as `RatingList`
  shows, and the behaviour ends in `"damaged"`.  The scorer remembers that it may have lost its
  quartiles (`blurred`), and then every call may end in `"crashed"`: `SampleBag` says when, and
  `IQRScorer` implements it.  Outlier verdicts are nondeterministic, which covers wrong quartiles.
* Undefined behaviour ends a behaviour (a null position, a freed node, `pop` of an empty
  queue; `Defined`, `Crashed`), except in `IQRScorer`, where a build may crash or go on with an arbitrary
  quartile: quartiles never influence the multisets, so everything else stays defined.
* An undefined step of the store ends the whole process.  It does so in `ContributionStore`,
  `MatchExecutor` and `IngestionPipeline`; it is left out of `EngineShutdown`, where of all that
  can end a process at once only the null pointer of `shutdown_socket` and the pop of an empty
  queue are steps.
* The medians of the scorer are exact: the `uint32_t` sum of two of them (`CompositeMedian`)
  cannot wrap for ratings that a list has room for.
* History variables record what clients have asked for (`honest`, `removed`, `below`) or
  which case has happened (`stale_removed`, `repeated`, `shrunk`, `lost`, ...); no action
  reads them.
* Operators marked `(* mutant *)` are not part of a specification: each is a plausible
  bug in the operator it precedes and is recorded in `PROJECT.json` with the property
  that notices it.

## 3. Runs

| Run | Question | Instance |
|---|---|---|
| `semaphore` | Is the two-counter semaphore a semaphore, and fair? | 2 posters, 3 waiters, `m_count` up to 2 |
| `store` | Do the structures agree, for well-behaved clients and for any? What makes a request fail? | 3 ids (symmetric), 2 ratings, 4 requests, counters that begin as 0 or 2 of 8 |
| `rating_list` | Is the list a rotating queue? | 4 addresses, unbounded calls |
| `scorer` | Is the scorer a bag with the right statistics? | 6 values, 6 samples, sum modulo 4, unbounded calls |
| `match_executor` | Does refill wake up, does fetch return, does shutdown end? | the store with any clients, 2 ids, 2 ratings and 4 requests; refill at 1, limit 3, minimum 2, 1 spurious wakeup |
| `ingestion` | In order, once, never empty, and stopped unless something blocks? | 4 requests |
| `engine` | Does an error anywhere end the process, cleanly and in order? Do outliers arrive? | 2 portals, 2 executors, the other of each may hang; 2 packets, 2 outliers, high or low |

The bounds are chosen so that the cases meet: three waiters and two posters let a late
waiter steal a token from a notified one; three ids let two of them be in one list, where
one can be drawn and then updated or removed, while the third moves between lists, and put
three samples into the scorer, from which the removal of one can lose its quartiles; four
requests are the addition of all and an update or a removal of one, or an update after a
removal; four addresses allow a removal in the middle and the reuse of an address;
six samples put three into each multiset, so that every parity and every position
relative to a quartile occurs; in the match executor four requests let the number of
contributions reach the minimum, fall below it while a refill is under way, and reach it
again, and one spurious wakeup moves a test of the predicate to where no notification puts it;
a second portal and a second executor make the order of the shutdown, and a thread
that fails while another is waited for, visible; two outliers can be at two stages of the
control pipeline, and two packets let a portal be asked to shut down and go on, or fetch twice.
The second executor of `engine` stands for two of the program: it reports outliers, as the
ingestion executor does, and may hang, as the match executor does.

Runs that find a violation each show one disagreement between the code and its own
comments (`PROJECT.json`, findings):

* `store_low_outlier`: a low outlier makes the control executor pop an empty queue.
* `rating_list_middle`: removing the node that was cycled last damages the list.
* `scorer_quartiles`: quartiles go wrong with equal samples or when a multiset empties.
* `match_executor_shutdown`: the notification of shutdown can be lost; the process hangs.
* `match_executor_refill`: an executor asleep for lack of contributions stays asleep.

The passing runs state how far each of these reaches: `WellFormed` and `NoUseAfterFree`
hold until a stale tail is removed, `QuartilesKept` names the two causes of wrong
quartiles, `PopsOnlyQueued` holds until the first low outlier, `NoLostRefill` and
`ShutdownEndsUnlessLost` single out the lost notification.  Three properties name all the
exceptions that they have:

* `NoFailure`, for well-behaved clients: a request damages a list when it removes or moves the
  contribution that was drawn last from its list, if no other was linked there since (this takes
  an addition or two and a draw), and it crashes in a scorer that may have lost its quartiles,
  which begins with two equal ratings - the rule, since all contributions start with the same
  one - or with a removal that leaves two samples of three but not their middle.
* `ErrorEndsProcess`: the null pointer (`NullSocket`), a portal without a client (`NoClient`), a
  portal or executor that is waited for but blocked (`Hangs`), a low outlier (`LostOutlier`).
* `ShutdownEnds` of `IngestionPipeline`: a crash, the portal without a client, and another portal
  that does not stop (the orchestrator stays at `"others"`).

More observations are in the models without a run of their own:

* The constructor of the contribution store gives its three `std::atomic<uint32_t>`
  counters no value and the object comes from `new`, so `ContributionStore` starts them
  with any of `UninitValues`; what depends on a start from zero says so (`hist.zeroed`).
* A scorer of size one "removes" a sample it does not have instead of throwing
  (`RefusesAsPromised`).
* The second loop of `fetch_match_pair` repeats *while* the second item differs from the
  first (`core/contribution-store.cpp:113`), so a pair is always a contribution with
  itself (`MatchSecond`).  When the first item is removed meanwhile, the loop goes on until
  that id is added again or the last contribution goes and the draw throws; until
  then, perhaps for ever, the match executor keeps `match_queue_mutex`.  The loop for one item
  goes on in the same way when every list it can draw is empty, which takes a client that
  adds an id twice or removes one twice.  `FetchReturns` and `ShutdownEndsUnlessLost` name
  both states (`Orphaned`); without the exception both properties are violated.
* A shutdown that begins before a portal has made its first socket dereferences a null
  pointer (`ShutdownSocket`), and a taken port ends the process in `exit(0)` with threads
  still running (`LaunchThrows`).  `ErrorEndsProcess` counts neither as a shutdown: it names
  them; `CleanExit` is about shutdowns that come to their end.
* A portal whose client has not come is blocked in `accept`.  Closing the acceptor from
  another thread need not wake it (POSIX leaves that open), and if it does not, the
  orchestrator waits for ever: the exception `NoClient` of `ErrorEndsProcess`, and of
  `ShutdownEnds` in `IngestionPipeline`.
* The match portal is told to shut down while it may be inside `fetch_match`, which waits for
  `match_queue_mutex`; if the refill that holds it never ends, neither does the call, and
  the orchestrator does not get as far as the executors.

Deadlock is checked in `semaphore`; the others can stop for good because
requests are bounded, a process ends, or a behaviour ends at an undefined step.

### Fairness

* `EffSemaphore`: a thread inside `post` or `wait` that is not blocked takes its next step
  (weak fairness per thread).  Nobody has to call, spurious wakeups need not occur.
* `MatchExecutor`: the executor's thread, a `fetch_match` whose mutex stays free, an
  ingestion in progress and a shutdown in progress go on, and a fatal error begins a
  shutdown. Which item a draw finds is random. One that the loop rejects changes
  nothing of the loop, so weak fairness of the draws that do says that an item that can be
  drawn, and goes on being drawable, comes in the end, as it does with probability one.
  Spurious wakeups are bounded, because endless ones could keep an unfair mutex busy.
* `IngestionPipeline`: the portal, the executor and the orchestrator go on while not
  blocked, `accept` on a closed acceptor throws, and a read on a socket that was shut down
  returns.  A portal that is blocked in `accept` need not return, and nothing is assumed of
  the shutdown of the other portals (`OthersStopped`).
* `EngineShutdown`: every thread goes on while not blocked, a read on a socket that was
  shut down returns, and an executor that was told to stop and woken leaves its loop.  The
  calls of the portals and the loops of the executors in `MayHang` are not fair: the match portal
  can wait for an endless refill, and the match executor can be in one or miss its notification.
  No client need connect or send, and no platform need interrupt an `accept`.

No fairness is assumed of clients, or of failures.

## 4. Proofs

`EffSemaphoreProofs`, for finite sets of threads of any size and any initial count:

* `TypeCorrect`: `Spec => []TypeOK`.
* `ConservationCorrect`: `Spec => []TokensConserved`.  With `TypeOK` the balance is inductive:
  each step moves one thread between two labels (`StepMove`, `NotifyMove`) and the
  cardinalities of the labels follow (`ActionCounts`).
* `WakeupCorrect`: `Spec => []NoLostWakeup`, from the same lemmas; `BasePost` adds a token
  and wakes one thread, `BaseBlock` needs zero tokens.
* `RefinementCorrect`: `Spec => Abstract!Spec`; the balance is what makes the case
  `m_count < 0` of a post, and a take, a step of the abstract semaphore.

Assumed: `SemaphoreAssumption` (finite thread sets, a natural initial count below the
bound).  `MaxCount` keeps `m_count` inside `int32_t`; the proofs hold for every `MaxCount`.

`ContributionStoreProofs`, for any finite set of ids, at least two lists, any modulus that
exceeds the number of ids (`cid` is a `uint32_t`, as the counters are), any initial
contents of the counters, any number of requests and any clients:

* `TypeCorrect`: `Spec => []TypeOK`, and `PositionsCorrect`: `Spec => []PositionsValid`.
  Neither is inductive: that `Unlinked` leaves a natural number needs the position to be
  valid, and that a stored position is valid needs the node linked some steps before.
  `StoreInv` adds `RequestOK`, what the ingestion thread knows of its request at each label.
  One lemma per request (`AddStep`, `UpdateStep`, `RemoveStep`, `ReportStep`), and one for
  all other threads, which leave that part of the state alone (`BystanderFacts`).

The agreement of its parts, in the same module and under the same assumptions:

* `OutlierTokensCorrect`: `Spec => []OutlierTokens`, inductive together with `StoreInv`.
* `NodesCorrect`, `SamplesCorrect`, `NoFailureCorrect`, `CountCorrect`: the agreement of
  lists, scorer and counter with the map.  Needed first is `RequestHonest`, what holds of the
  entry of the id in progress while clients are well-behaved; it is inductive with
  `StoreInv`.  `NodesStep` and `SamplesStep` then split the steps into those that leave
  `NodeOf` and `SampleOf` alone and those that move one id, where `NodesMoved` and
  `HoldersMoved` give the effect on the counts.  `NoFailure` follows from `SamplesAgree` and
  the requests' guards: the sample to be removed has a holder, so the bag has it and does not
  throw; the entry of a well-behaved request has a position and its new rating a list, so that
  neither `UnlinkCrashes` nor the vector bound is met; and with one node for each id
  (`NodesAgree`) only a stale tail damages a list.  `CountStep` needs that there
  are fewer ids than counter values, so that `Plus1` and `Minus1` do not wrap (`NoWrap`).

* `PopsOnlyQueuedCorrect`: `Spec => []PopsOnlyQueued`, for `MaxRequests < CountModulus`.  The
  hypothesis is needed: with 2^32 outliers in the queue their counter is zero again, and
  `fetch_outlier` turns to the other queue.  The invariant (`BacklogInv`) says that until the
  first low outlier the lower queue is empty, and the counter of the upper one is its
  length but for a push not counted and a take not popped yet (`AboveOnly`); that the queue is
  no longer than the requests (`BacklogBound`), so that the counter does not wrap; and that
  the permit of a shutdown is still there for an executor that has read its flag before
  (`ShutdownPermit`).  With `OutlierTokens` it follows that an executor that chooses a queue was
  woken by a permit for an outlier that is counted (`OutlierIsCounted`).
* `MatchFailsOnlyAfterRemovalCorrect`, for `MinMatchCount >= 2` (the code has 5).  With a minimum
  of one it is false: the contribution is counted before it has its sample.  The invariant
  carries the sample from the start of a refill, where `CountAgrees` gives two counted ids of
  which one is not in the middle of its request (`TwoCounted`), through the additions and
  updates that follow (`SamplesStay`).

`MatchExecutorProofs`, for any refill size below the limit, any minimum of contributions and
any clients (their requests may be ill-behaved; a behaviour ends where the store is undefined):

* `QueueTypeCorrect`: `Spec => []TypeOK`.  That the queue keeps within its limit needs
  `RoomForMatch`: there is room for the pair in hand from the test of the limit on, because
  `fetch_match` only takes from the queue, and not without the mutex.
* `RefillNotLost`: `Spec => []NoLostRefill`.  Inductive once it is stated from the test of the
  predicate on (`SleepsOnlyWhenFilled`): a thread between the test and the block holds the mutex.

`IngestionPipelineProofs`, for any number of requests:

* `PermitsCorrect`, `PopsCorrect`: `Spec => []PermitsMatchQueue` and `[]PopsQueued`, from
  `PermitInv`.  The balance alone is not inductive: that the executor finds a request when it
  goes on after its test of the flag needs that the flag is set before the permit of
  shutdown is posted (`FlagBeforePermit`) and that this permit is still there if the
  test was before the flag (`ShutdownPermitLeft`).
* `OrderCorrect`: `Spec => []InOrderOnce`, with what the executor holds at each label
  (`HoldsOnlyHandled`) and that a push follows a read (`ReadBeforePush`).

`EngineShutdownProofs`, for any number of portals and executors, packets and outliers:

* `ReportsReach`, `CallsCorrect`, `ExitCorrect`: `NoLostReport`, `CallsServed` and `CleanExit`.  Their
  invariant is `ShutdownInv`.  It gives each stage of the orchestrator its meaning in terms of
  a thread's place in `ShutdownOrder`: threads that come before the current one have ended
  and their semaphore was taken, those after it have not been asked (`FlagInv`,
  `EndInv`, `ConnectionInv`); during the launch, threads not launched are `"unborn"`
  (`UnbornInv`); and a shutdown is only under way, and a thread only past the report of its
  error, when the alarm was raised (`AlarmInv`).  A step of a thread is first summarised by
  its effect on that thread alone (`ThreadEffect`), a step of the orchestrator by the edge of
  its stages that it takes (`StageSteps`), and the invariant is proved from the summaries.
* `SupervisionImplemented`: `Spec => ImplementsSupervision`, the refinement of `Supervision`:
  initial states map to initial states, and under `ShutdownInv` every step maps to `Alarm`,
  `Ask`, `End`, `Stop` or a stutter.
* `QueuedOnlyCorrect`, `OutlierOrderCorrect`: `PopsQueuedOnly` and `OutliersInOrder`, from
  `OutlierInv`: `outlier_queue_size` plus a push not counted yet is the length of the
  queue, and the portal pops only while the size is at least one (`SizeInv`); the permits
  match the high outliers in the store, the low ones and the shutdown (`OutlierPermits`), so
  that without a low one a fetch finds an outlier; and the executor holds one at
  the labels between a fetch and a push only (`HeldInv`).

Assumed there: `EngineAssumption` (threads are named by strings) and `ThreadsDistinct` (no object
occurs twice in the two orders, which hold for each of its own: `admin/orchestrator.cpp`
allocates each with a `new` of its own).

`RatingListProofs`, for any finite set of addresses and unbounded calls:

* `TypeCorrect`: `Spec => []TypeOK`, whatever is removed; the count is the cardinality of the
  heap because additions use a free address and removals a live one.
* `WellFormedCorrect`, `NoUseAfterFreeCorrect`: from `ListInv`, which says that until a stale
  tail is removed there is a sequence `w` in whose order the nodes are linked (`Chain(w)`).
  `WellFormed` itself says where `Walk` leads, and a recursive function is of no use to a proof
  about one step; with a sequence the new order can be named: `Append(w, n)`
  (`AddToChain`), `w` without one element whatever branch of the removal is taken
  (`RemoveFromChain`), `Append(Tail(w), Head(w))` (`CycleChain`).
* `RotatingListImplemented`: `Spec => ImplementsRotatingList`.  That the chain is what `Walk`
  computes (`WalkIsChain`) is an induction over the length; it is done without the
  library's induction theorems, by looking at the first place where the two
  differ (`Least`: "less than" on the natural numbers is well-founded).

`IQRScorerProofs`, for any set of natural numbers as samples, any number of them and any width
of the sum:

* `TypeCorrect`, `PartitionedCorrect`: `TypeOK` and `Partitioned`.  `Partitioned` speaks of one
  sequence, the calls work on two multisets and a median; `IInv` therefore says of each
  multiset that it is sorted and of `median` how it lies between the two, once for no
  sample, for an odd and for an even number (`Arranged`).  Each of the calls is one lemma that
  gives the new arrangement, from what an insertion (`PutInOne`) and an erasure (`TakeOut`) do to
  a sorted sequence; `OrderedSingle` and `OrderedPair` turn an arrangement into the sequence.
* `RefusesAsPromisedCorrect`, `SampleBagImplemented`: `RefusesAsPromised` and `Spec =>
  ImplementsSampleBag`.  `AddArranges` and `RemoveArranges` say how a call changes the
  multiplicity of every sample: up or down by one for its own, not at all for the others,
  though samples move from one multiset through the median to the other.
* `DrawsInBoundsCorrect`: `DrawsInBounds`, from the same arrangement.
* `QuartilesKeptCorrect`: `QuartilesKept`.  The value of a quartile is not inductive: its iterators
  have to be at the middle elements (`Proper`), and that no two samples are equal
  (`NoneRepeated`) is what makes `AddQuartile` and `RemoveQuartile` move them to the right side
  (`AddKeepsMiddle`, `RemoveKeepsMiddle`).
* `SumKeptCorrect`: `Spec => []SumKept`, for a finite set of samples (in the code they have 32
  bits).  The sum over the bag is a fold, that is a recursive function on the subsets of
  `Values`.  That there is such a function (`PartialSum`, `SumExists`) and that it changes by the
  sample whose multiplicity changes (`SumMoves`) are inductions on the size of a subset, done
  with `Least` as for the rating list: a smallest subset for which it fails has a smaller one
  without the element that the fold takes next.  `ModUnique` and `ModPlus` are the arithmetic of
  a counter that wraps.

Only model-checked: liveness (`FetchReturns`, `ShutdownEndsUnlessLost`, `HandledOrShutdown`,
`ShutdownEnds`, `ErrorEndsProcess` and the fairness part of `ImplementsSemaphore`), which under
fairness is beyond the prover.

## 5. Not modelled, and the plan

Not modelled: the destructors with `free_list_memory`, which never run (`execute` ends in
`exit(0)`); `dump_*_outlier_until`, `verify_contribution`, `get_rating_list_size`,
`force_write_packet` and `write_empty_loopback`, which have no callers;
`print_quartile_set`, the logger and `main`, which are output and start-up; Boost.Asio,
of which `EngineShutdown` has what the code relies on; the arithmetic of `is_outlier`
and `get_mean`, whose verdicts are nondeterministic in `ContributionStore`.  Which
contributions a queued match names is not followed after the draw: a match may be
stale when it is fetched (`exec/match-executor.cpp:64`), and nothing promises otherwise.

Every safety property of a passing run has a theorem.
