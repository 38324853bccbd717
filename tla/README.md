# TLA+ models of the course registration system

The system registers university students in course sections (lop hoc phan). A
student files a wish for a section; a periodic batch ranks the wishes with
TOPSIS and gives out the seats. This directory holds TLA+ models of that
system, TLC configurations that check them on small instances, and TLAPS proofs
of the properties that matter most for instances of every size.

## 1. The system

Clients speak HTTP to an **API gateway** (`web-registeter/api/api.go`), which
answers from a Redis/Dragonfly cache or sends a request over NATS to **db-service**
(`web-registeter/db/db.go`, three pods), which works on ScyllaDB tables. The rest
of the repository is earlier versions of the same services, a Kubernetes scheduler
plugin, metric collectors, load tests and third-party code.

| part | state | operations | interacts with |
|---|---|---|---|
| API gateway | cache entries with a TTL of 600 s | handleCachedQuery, handleMutation, handleGetDanhSachLopHocPhan, cache invalidation | NATS request/reply on `db.query`; subscription to invalidations published by batches |
| db-service pod | `workerSem`, `batchSem`, `handlerWg`, NATS subscriptions, ticker | message callbacks, handlers, batch ticks, shutdown | NATS, ScyllaDB |
| registration | tables `dang_ky` (one row for a student and section) and `lop_hoc_phan_counter` | DANG_KY_MON_HOC, HUY_DANG_KY, processPendingBatch | the tables, shared by all pods and batches |
| rule engine | none | RuleEngine.Filter: refuses wishes of students already registered for the course | called by the batch |
| TOPSIS ranking | none | RankByCourse: scores and order of the wishes of each course | called by the batch |
| allocation optimizer | locals of Solve | greedy loop, local search | called by the batch |
| read queries | none | sections, lists, counters, status of a registration | the tables |
| adaptive worker count | `config.MaxWorkers` | updateWorker every 10 s | CPU and RAM load |
| strategy experiment (`files(2)`) | in-memory sections | FIFO, rule-based, TOPSIS-only, hybrid simulation | a copy of the ranking and of the optimizer |
| earlier services (JavaScript, Go, `NguyenKhoi`) | the same tables | registration in the request: check the counter, insert, add one; the Go ports write without looking | NATS or HTTP |
| metric collectors (`export_metrix/main.py`) | a window of samples | aggregate, delete the old rows, insert, retry | the table `MetricData` |
| RedisMetricPlugin (scheduler) | package variables: anchors of the normalisation, worst and best alternative | Score, called for all nodes in parallel | `MetricData` |

What is hard:

- *Interleaving.* A pod runs up to three batches at a time, each pod has its own
  ticker, and nothing in the tables is locked or conditional: every statement of
  every handler and batch may come between any two of another.
- *Stale snapshots.* A batch scans the pending rows once, reads the seats of a
  section once, and writes much later; rows may have been cancelled, confirmed
  or filed anew in between. An UPDATE in CQL creates a row that is missing.
- *Delivery.* Subscriptions name no queue group, so each request is handled by
  every pod. A saturated pod, a pod that shuts down and a failing statement drop it.
- *Partial failure and crashes.* Status and counter are separate statements,
  executed by 24 workers in any order. Errors are logged and forgotten. Batches
  are not in `handlerWg`, so a shutdown cuts them off.
- *Bounded pool.* Two subscriptions share one semaphore that callbacks take and
  handlers return, with a timer that answers "saturated, retry later".
- *Shared package variables.* Parallel calls of Score normalise and rank in the same
  globals.
- *Numbers.* The comparison of the ranking has a tolerance and is not transitive; a
  metric of 0 escapes the normalisation; equal metrics give a closeness of 0/0.
- *Shutdown.* Context, wait group with a timeout, NATS close, all racing handlers.

What makes each part correct: a section is never oversold; counter and confirmed
rows agree; a confirmed seat is not taken away; nobody appears in a section they
did not ask for; one section per course; every wish is answered; seats go by
score and, at equal score, by the tie-break; a student who is told of success is on
file; the scheduler prefers a node that no other beats; the pool bounds its handlers; a refused message is not handled; a pod that
is told to stop stops.

## 2. The modules

| module | models | in the code |
|---|---|---|
| `Allocation` | the decisions of Solve on a plan: canAssign, doAssign, defer | db.go 467-563 |
| `AllocationOptimizer` | Solve as a state machine: `Greedy`, `StartSearch`, `Swap`, `Return` | db.go 500-613 |
| `DangKy` | the two tables, the two handlers that write, processPendingBatch, pods that stop | db.go 1052-1114, 1334-1633, 1694-1710 |
| `SeatAllocation` | abstract specification: what registration promises a student | init.sql, comments of db.go |
| `WorkerPool` | one pod: callbacks, semaphore, handlers, ticker, shutdown | db.go 1762-1944 |
| `ApiCache` | the gateway: look-ups, mutations, fills and deletions of cache entries, the message of a batch | api.go 192-750; db.go 811-1040, 1626-1667 |
| `SyncRegistration` | the earlier services that answer when they are done, JavaScript and Go | db-service.js 178-303, golang/main.go 381-433 |
| `Ranking` | operators: pools, comparison, stable sort, tie-break | db.go 199-213, 295-300, 424-443 |
| `Strategies` | the four strategies of the experiment and the batch on the same students | files(2)/main.go 342-527, db.go 1494-1529 |
| `MetricCollector` | the collectors and the table they fill | main.py 203-383 |
| `NodeScoring` | concurrent calls of Score over that table | calculator.go 61-828, plugin.go 52-95 |
| `AllocationProofs`, `AllocationOptimizerProofs` | theorems about Solve | |
| `DangKyProofs` | types, wishes, plans, statements, counters and seats; then outcomes, careful clients, the refinement | |
| `ApiCacheProofs`, `WorkerPoolProofs`, `SyncRegistrationProofs`, `NodeScoringProofs`, `StrategiesProofs` | theorems about their components; `NodeScoringProofs` about the collectors and `StrategiesProofs` about `Ranking` too | |
| `MCAllocationOptimizer`, `MCDangKy`, `MCWorkerPool`, `MCApiCache`, `MCSyncRegistration`, `MCStrategies`, `MCNodeScoring` | instances for TLC | |

`DangKy` EXTENDS `Allocation`, so a batch takes exactly the decisions that
`AllocationOptimizer` is checked for, and `DangKyProofs`, `AllocationOptimizerProofs` and
`StrategiesProofs` share the lemmas of `AllocationProofs`. `Strategies` EXTENDS `Allocation` too, with `Ranking`;
`NodeScoring` composes the scheduler plugin with `MetricCollector`. `DangKy` INSTANCEs `SeatAllocation` under a refinement mapping.

**AllocationOptimizer.** `plan` bundles the five locals of Solve (`capLeft`,
`assignedCourse`, `studentSections`, `confirmed`, `waitlist`). `todo` and `IsNext`
stand for the stable sort by descending score. `assignedCourse` keeps one course
for each student, as the code does. `Swap` is one round of the local search: the
first improving pair in loop order. Scores are integers: Solve only adds and
compares them, and the tolerance 1e-9 becomes "greater than 0".

**DangKy.** One action per statement sent to ScyllaDB; `batch[b]` holds the
locals of one goroutine of processPendingBatch for each pod and slot of
`batchSem`:

| action | code |
|---|---|
| `Send` | a request on `db.query`: a delivery for each pod |
| `Drop` | a delivery without effect: saturated, shutting down, failing |
| `DangKyMonHoc` | the INSERT of handleDangKyMonHoc |
| `HuyXoa`, `HuyTru` | DELETE and counter update of handleHuyDangKy |
| `Scan` | the query for ChoXuLy rows; primaryRowByCourse |
| `CheckRow` | checkDaDangKyMonHoc for a row; after the last one the verdict of the rule engine |
| `Reject` | UPDATE to TuChoi for a refused row |
| `ReadSlot` | fetchSlotConLai for a section, from addEdge |
| `Allocate` | the greedy loop of Solve on the one or two edges of a request; after the last one the list of writes |
| `Write` | a statement taken by one of the write workers: confirm, move, count, wait |
| `Crash` | a pod stops; its batches, deliveries and half-done HUYs are gone |

Abstractions: a failing statement has no effect. The scores come from student profiles,
which are outside the system, so any order of requests may come out of the
ranking; within a request the primary section comes first. The tables are one
copy (ScyllaDB's replication is not modelled). `ConsiderRequest` omits the local
search, which is sound because of `NeverSwaps`, proved below for such edges. The
tables change only through the statements modelled. A client asks each request
at most once, except that each pod gets it.

**WorkerPool.** The callback of a subscription is `Free`, in its select, or between
the slot and the `go` statement; `CallbackStep` are the cases of the select.
`Handle` ends a query of a message, `Finish` answers and returns the slot.
`Signal`, `StopTicker`, `Unsubscribe`, `Drained`, `DrainTimeout`, `Close` and `Exit`
are the shutdown of main. Durations are left open: a timer may fire at any time.

**ApiCache.** A key names a query and its parameters, as generateCacheKey does:
`ChiTiet(x)`, the detail of a section; `DangKyCua(s, f)`, the registrations of a
student for a filter; `DanhSach`, the sections of the course.

| action | code |
|---|---|
| `HandleCachedQuery` | a miss, or an entry that cannot be read, sends the query to db-service |
| `ReadRows`, `ReadCounters` | the two reads of a handler; statements of others come in between |
| `ReadRowsInPart`, `ReadCountersInPart` | a read that breaks off: logged, and what was read answers as a success |
| `GiveUpQuery` | timeout, client gone, or no success |
| `SetToCache`, `SetFails` | the goroutine that fills the cache after the response |
| `Expire` | 600 s are over, or a second gateway deletes the key |
| `HandleMutation`, `GiveUpMutation` | a POST that waits for the first answer of any pod |
| `DangKyMonHoc`, `HuyXoa`, `HuyTru`, `JobFails`, `JobDropped` | a handler of the POST in one pod; `Responds` is what its answer does in the gateway |
| `DeleteCacheKey`, `DeleteFails` | the goroutine of invalidateRelatedCaches, key by key |
| `StartBatch`, `Write`, `WriteFails`, `BatchCrash` | a batch, as far as look-ups can see it |
| `PublishCacheInvalidation`, `PublishLost` | the message of a batch, sent once |
| `SubscribeCacheInvalidation`, `DeleteBatchKey`, `DeleteBatchKeyFails` | its callback in the gateway |
| `Restart` | main returns as soon as ListenAndServe does; fills, deletions and messages are gone |

What the code does and the model keeps: after HUY the key of the list names the filters
"`<nil>`" (`Nil`), which no fill uses; a batch deletes lists with empty filters only; the
list of the sections of a course is deleted by nobody. Such entries end with their TTL.
Abstractions: a batch may decide anything about pending rows, one batch at a time;
TuChoi and DanhSachCho are one status, `KhongXep`; of rows a look-up sees status and
counter. That the detail of a section fails as a whole (no part of it is a success) is in
`GiveUpQuery`. BatchGetCounters and the status of a registration go past the cache.

**SyncRegistration.** `service` says which of the two services is deployed, and the names in
`Statements` are the statements of a handler in the order of the code. db-service.js
looks before it writes (`dem`, `trung`, `tim`) and subscribes in a queue group;
golang/main.go writes blindly and every pod gets every request (`Receivers`). A handler
goes on after the gateway gave its request up (`Timeout`). `Fails` is a statement
that ends in an error, executed or not; `Dies` a handler whose pod stops; `Lost` a delivery
the Go service drops at shutdown. Each request of a client is a member of `Posts`, so a
repeated one is a request of its own; `ma_dang_ky` is the request and the pod that
handled it, since the code makes it from the clock. The ghost variable `crowd` remembers
how many handlers were past the check of a section at a time.

**Ranking and Strategies.** A request carries its closeness: rankPool computes it from
ten criteria with floating-point weights, and only its order matters afterwards.
`Tolerance` is the 1e-9 of the comparison, one step of closeness in the instance, so near
scores that are not equal, and chains of them, happen. `SortStable` is insertion sort, which
`sort.SliceStable` is for up to 20 elements; for an intransitive comparison the algorithm
matters. Solve sorts the edges again by the exact score, so near scores that the tie-break
put in order are taken apart again; ties stay in the order of the edges. That order is the
ranking's in a batch and the students' in runHybrid, which is why `TieBreakKept` does not
speak of the hybrid. The local search is left out by `NeverSwaps`.

**MetricCollector and NodeScoring.** A collector deletes the rows of its node one by one and
inserts the new one; `Transient` starts the exchange again up to 5 times, with the failed
statement executed or not. main.py sets NODE_ID = "1" as a constant (main.py:27): collectors
that share a node_id delete each other's rows, and `OneRowPerNode` speaks of those that
do not. In `NodeScoring` each access of a call to a shared variable is a step: `Anchor`,
`Lower` and `Store` set the minima and maxima, `Zero` and `Fill` replace an anchor of 0,
`Normalise` reads one for each cell, `Worst` and `Best` write the alternatives, `Diw` and
`Dib` compare one row with them, `Rank` takes the closest row and gives 100 to the node
whose name is "node" and the row's position in the scan. The loops run over Total_Node = 3
rows (a constant of the code, whatever the table holds): with fewer rows the index panics and the scheduler
restarts (`Panic`), further rows are neither normalised nor ranked. SwapMemory is treated as a cost like
the others. Abstractions: maximum, mean and minimum of a metric are one number; the
entropy weights are an operator constant that is 0 for a criterion equal on all nodes; a row is
compared with an alternative at one moment; rows whose Scan fails, which the code skips,
do not occur.

## 3. What is checked

Runs that pass:

| run | instance | shows |
|---|---|---|
| `Allocation` | 3 sections of 2 courses; every table of scores of 2 students with and without conflicts; every batch of 3 students | no seat is lost or invented, order by score (`NoJustifiedEnvy`), one seat per course, a search that swaps stops at a local optimum, on a batch it never swaps |
| `DangKyIsolated` | 3 students, 3 sections of one seat, cancellations, one batch at a time, one pod, clients that look first | `LedgerBalanced`, and the system implements `SeatAllocation` |
| `DangKyAnyClient` | 2 students who file, change and repeat wishes blindly; one batch at a time | no overselling, one section per course, outcomes kept |
| `DangKyTwoBatches` | 3 students for one seat, one with an alternative, 2 batches at a time, no cancellation | every row confirmed or about to be is counted or about to be, whatever the interleaving (`SeatsAccounted`); the section is oversold, but at most as many times over as batches run at a time, by how many batches ever (`OversellLimited`) |
| `DangKyRestart` | blind clients, a cancellation at any time, a failing statement, a pod stopped anywhere | nobody lands in a section not asked for; what goes wrong goes back to a fault, and each fault does only its own damage (`FaultsExplain`); every wish is answered in the end |
| `WorkerPool` | 2 slots, 3 messages on 2 subjects, handlers that hang, shutdown at any time | a slot for each callback on its way and each handler, and no other (`SlotsConserved`); a pod does not handle what it answered with "saturated"; answers; shutdown completes |
| `ApiCache` | a student, two sections, a wish on file, one registration or cancellation, look-ups of a list and of a section, one failure or crash, restarts at any time | whatever a batch changes is owed a deletion (`BatchOwesItsChanges`); a deletion owed is never forgotten (`DebtsArePaid`); the cache does not stay wrong (`EventuallyCurrent`) |
| `SyncRegistration` | 2 students, a section of one seat, registrations, a repetition and a cancellation, 2 pods, a fault or a time-out, both services | rows and counter part by no more than faults and repeated handlers explain (`LedgerDrift`); a section is oversold by no more than the handlers that were past its check together (`OversellBounded`); a success is on file (`SuccessOnFile`), under the identifier the student was given if one pod handles a request (`IdentifierOnFile`) |
| `NodeScoring` | 2 collectors, 2 nodes, 2 calls, a cost and a benefit, metrics of 0 and ties | a row per node through retries; a call that nothing overlaps gives TOPSIS of what it read, whatever earlier calls left behind (`AloneIsRight`); it prefers no node that another beats in every respect (`PreferredIsBest`), if no cost is 0 |
| `Strategies` | 4 students, 2 courses, 3 sections of 1 or 2 seats, closeness 0 to 3, all orders of the map | how many each strategy serves (`HybridServesAtLeast`); that a first choice is lost only to students who are at least as close, also where the seat is their alternative (`DisplacedFairly`); seats by closeness (`SeatsGoByCloseness`), then by the tie-break (`TieBreakKept`) |

Disagreements between the code and what it says of itself. Each run is a
counterexample found by TLC; `PROJECT.json` quotes the comment:

| run | property | counterexample |
|---|---|---|
| `DangKyOversell` | `NoOversell` | two batches read the same free seat before either counts it; both confirm |
| `NodeScoringZero` | `SmallestIsBest` | a cost of 0 is skipped by the guard `> 0` of the normalisation and stays 0, the value of the worst node: a worse node is preferred |

Counterexamples that no run repeats. Each appears when a configuration is
changed as told and checks the property:

| property | change | counterexample |
|---|---|---|
| `RefusedHasOther` | `DangKyTwoBatches.cfg`, Requests <- OneWish | two batches scan one wish; the first confirms it, the second counts the confirmed row itself as an earlier registration (db.go:1465) and writes TuChoi over DaDangKy (db.go:1482). The comment at db.go:1332 says "in another section"; the query names none |
| `OneSectionPerCourse` | `DangKyAnyClient.cfg`, Students = {s1}, Courses = {A, B, C}, Sections = {1, 2, 3, 4}, CourseOf <- TwoOfAOneOfBOneOfC, SoLuongToiDa <- Seats1111, Requests <- SeatedAndTwoWishes, SPECIFICATION SeatedSpec | a batch considers a student's wishes for courses A, B, A: `assignedCourse` has forgotten A (db.go:533), and the student gets both sections of it. The student starts with a seat in a section that clashes with one of the two, so that criterion C7 (db.go:1457) gives them different scores |
| `EveryCallIsRight` | `NodeScoring.cfg` | a call of Score sets the anchors anew while another one normalises with them: the other prefers a row that is not the best of those it read (calculator.go:116), though plugin.go:33 says "computed directly from ScyllaDB at each call" |
| `CounterNatural` | `DangKyIsolated.cfg`, Requests <- OneChange, Replicas = {r1, r2} | one cancellation is handled by two pods: two seats are given back (db.go:1764) |
| `DrainedIsFinal` | `WorkerPool.cfg` | a callback holds its slot, has not yet called `wg.Add`, and main finds `handlerWg` empty (db.go:1769) |
| `FaultsExplain` without its clause for cancellations | `DangKyRestart.cfg` | a row cancelled during a batch comes back by the UPDATE of the batch without its course, so the next batch does not see it: two sections of a course (db.go:1577) |
| `SeatsGoByCloseness` with one Tolerance for the whole pool | `Strategies.cfg` | three scores, each near to the next: the tie-break carries the last one to the top (db.go:296) |
| `TieBreakKept` without `NearIsTransitive`, or for near scores in a batch | `Strategies.cfg` | a chain of near scores; Solve decides again by the exact score (db.go:516) |

Known, described and not run: status and counter are separate statements, so a pod that
stops in between leaves them different for ever, as no later batch looks at the row
(db.go:1604); a wish repeated after it was confirmed puts the row
back to ChoXuLy while its seat stays counted (db.go:1091); a batch that scanned a
row before its cancellation brings the row back (db.go:1577), as an UPDATE creates
missing rows; the handler of `db.batch.query` takes one slot and starts as many
goroutines as there are queries (db.go:1811).

The conditions of the positive results are the point of the pairs: one batch at a
time gives `NoOversell` and `OutcomeKept`, two batches do not; careful clients
and no crash give `LedgerBalanced`. `SeatsAccounted` survives two
batches but not cancellations by clients that have nothing to cancel.

Three properties say less than their names may suggest. `SeatsAccounted` counts the
statements under way on both sides: between a confirm and its count the counter is
behind the confirmed rows, and fetchSlotConLai of another batch reports the seat as free
(`DangKyOversell`). What it excludes is a seat that is never counted; what the race costs
is `OversellLimited`. `RejectedNeverHandled` is about one pod: Subscribe names no queue
group (db.go:1764), so while this pod answers "saturated" another one may handle the very
message, and a client that tries again may be handled twice. `HybridServesAtLeast` counts
seats and not who sits in them: an alternative edge may take the last seat of a section
that is another student's first choice. `DisplacedFairly` says when: if that student is
no closer.

### Bounds

- `Students`, `Sections`, `Courses`: two or three of each. Competition needs two
  students for one seat; an alternative needs two sections of a course;
  `assignedCourse` needs a second course.
- `Requests`: each instance names the requests its clients may send, each once.
- `BatchSlots`: 1 or 2. The races are between two batches; a third adds no new pair. `OversellLimited` needs more
  students than seats for two batches, three for one seat; four students, a fourth wish or two pods
  of two batches take more than the time of a run, and `OversellIsLimited` covers them.
- `Replicas`: 1, and 2 where double delivery matters. Two batches of one pod and one
  batch each of two pods interleave alike.
- `MaxFailures`, `MaxCrashes`: bounds on failing statements and stopped pods, one of each
  in `DangKyRestart`, with one batch at a time, as the liveness check of more is too large.
  `FaultsExplained` is the same invariant for any number of them.
- `MaxIter`: 5 rounds of the local search in place of 500, more than any run needs:
  `LocalOptimum` fails if the bound is what stops it.
- `MaxWorkers` 2 with 3 messages, one of two queries: the pool is full and a message waits.
- `ApiCache`: `MaxPosts` 1, the registration or cancellation that races look-ups and a batch;
  `MaxErrors` 1, shared by failing reads, failing writes of a batch, unreadable entries and
  crashes, since each alone leaves a wrong entry behind. Two keys are looked up, a list
  and the detail of the alternative section, one look-up at a time: with a third key the
  graph is too large for the liveness check, and keys do not interact. Restarts, lost
  messages and failing deletions are not bounded.
- `SyncRegistration`: as many requests as it takes to repeat a registration and cancel it; two
  pods, and `MaxFaults` 1, a failed statement, a handler that dies or a time-out, because each fault does
  its damage alone and the bounds of the properties count them.
- `NodeScoring`: one cost and one benefit in place of 7 and 1, since criteria are treated alike;
  2 rows and Total_Node 2, so that fewer rows than Total_Node happen. Two budgets share the run
  (`MCSpec`): collectors that fail and retry with nobody reading, and two calls over tables
  that change under them without failures; together they are too large.
- `Strategies`: three students of one course are what a chain of near scores needs; the first of
  them has fixed preferences, without loss of the interesting orders. The order of submission is
  fixed too, because runFIFO is there for comparison only.
- `CHECK_DEADLOCK FALSE` is set where the system may stop: when all requests are
  sent and answered, when Solve has returned, when the pod has exited.

### Fairness

- `DangKy!FairSpec`: weak fairness of the steps of each batch slot. The ticker
  fires for ever, and the goroutine of a batch runs on until it returns. Clients
  and handlers have no fairness; failures and crashes are bounded by the constants,
  since no wish can be answered if every statement fails for ever.
- `WorkerPool!FairSpec`: goroutines that can go on do (a `select` with a ready case
  takes one, the NATS client calls a free callback), and the timers of the callback
  (2 s) and of the shutdown (15 s) fire. Nobody has to send a signal. Handlers may hang;
  `MessagesAnswered` assumes of one message only that its own handler ends.
- `ApiCache!FairSpec`: weak fairness of `Expire` for each key that is looked up, because
  Redis drops an entry 600 s after its fill; and of the end of each fill, because the
  client of the cache has timeouts. Nobody has to ask, answer, publish or delete anything:
  that the cache does not stay wrong rests on the TTL alone.

Every property has a mutant of the modelled code that breaks it under its own
run's configuration; the mutated forms stand in front of the definitions they replace.

## 4. What is proved

TLAPS checks these theorems for every value of the constants that satisfies the
assumptions named in the modules.

| theorem | statement |
|---|---|
| `AllocationOptimizerProofs!TypeCorrect` | `Spec => []TypeOK` |
| `AllocationOptimizerProofs!CapacityKept` | `Spec => []CapacityExact`: Solve never oversells, whatever edges, conflicts and swaps |
| `AllocationOptimizerProofs!EdgesKept` | `Spec => []EdgesConserved`: no edge is lost or answered twice |
| `AllocationOptimizerProofs!WaitlistOrder` | `Spec => []WaitlistSorted`: the final sort changes nothing |
| `AllocationOptimizerProofs!BatchNeverSwaps` | `Spec => NeverSwaps`: on edges shaped as the batch builds them, the local search finds nothing |
| `AllocationOptimizerProofs!PriorityRespected` | `Spec => []NoJustifiedEnvy`: in a batch of any size nobody is passed over for a lower score |
| `AllocationOptimizerProofs!OneSeatPerCourse` | `Spec => []OneSectionPerCourse`: one request for a course gives at most one seat of it |
| `AllocationOptimizerProofs!NobodyClashes` | `Spec => [](Orderly => NoClash)`: no student holds two conflicting sections, also after swaps |
| `AllocationOptimizerProofs!SearchedToTheEnd` | `Spec => [](iter < MaxIter /\ AskedOnce(input.edges) => LocalOptimum)`: a search that its bound did not stop leaves no swap that pays |
| `AllocationOptimizerProofs!SwapsRaiseTheTotal` | `Spec => ScoreRises`, if each call is a batch or asks for no section twice: a swap raises the total that `confirmed` records |
| `DangKyProofs!TypeCorrect` | `Spec => []TypeOK`: including that no batch works with a negative number of seats |
| `DangKyProofs!OnlyAsked` | `Spec => []OnlyAskedSections`: for any pods, batches, failures and crashes |
| `DangKyProofs!SeatsStayAccounted` | `NoFaults /\ NoCancellations => (Spec => []SeatsAccounted)`: for any number of pods and batches at a time; counts and confirmations under way included |
| `DangKyProofs!OversellIsLimited` | `NoFaults /\ NoCancellations => (Spec => []OversellLimited)`: for any number of pods and batches at a time, and of batches ever |
| `DangKyProofs!SeatsSuffice` | `OneBatch /\ NoFaults /\ NoCancellations => (Spec => []NoOversell)` |
| `DangKyProofs!OutcomesLast` | `OneBatch /\ OneCourseRemembered => (Spec => OutcomeKept)`: through failures and stopped pods |
| `DangKyProofs!OneSection` | `OneBatch /\ OneCourseRemembered /\ NoCancellations /\ MaxFailures = 0 => (Spec => []OneSectionPerCourse)`: also when pods stop |
| `DangKyProofs!FaultsExplained` | `OneBatch /\ OneCourseRemembered => (Spec => []FaultsExplain)`: for any number of faults and cancellations |
| `DangKyProofs!RowsAreCounted` | `OneBatch /\ NoFaults /\ CarefulClient => (Spec => []LedgerBalanced)`: through cancellations |
| `DangKyProofs!SeatsArePromised` | `OneBatch /\ NoFaults /\ CarefulClient => (Spec => ImplementsSeats)`: `DangKy` implements `SeatAllocation` |
| `ApiCacheProofs!TypeCorrect` | `Spec => []TypeOK`: only successful answers are in the cache, under keys that clients ask for |
| `ApiCacheProofs!ChangesAreOwed` | `Spec => BatchOwesItsChanges`: for any batch, any decision and any order of its statements |
| `ApiCacheProofs!NoDebtForgotten` | `Spec => DebtsArePaid`: for any number of pods, mutations and look-ups |
| `WorkerPoolProofs!TypeCorrect` | `Spec => []TypeOK`: only delivered messages are handled |
| `WorkerPoolProofs!SlotsAreConserved` | `Spec => []SlotsConserved`: for any subjects, messages and slots; from it `HandlersBounded`, that no more handlers run than there are slots |
| `WorkerPoolProofs!RejectedIsFinal` | `Spec => []RejectedNeverHandled`: for the pod that answered |
| `SyncRegistrationProofs!TypeCorrect` | `Spec => []TypeOK`: a success has an identifier some pod made for that request |
| `SyncRegistrationProofs!SuccessIsOnFile` | `Spec => []SuccessOnFile`: for both services, any faults and any number of pods |
| `SyncRegistrationProofs!IdentifierIsOnFile` | `Spec => []IdentifierOnFile`: rests on the queue group of db-service.js |
| `SyncRegistrationProofs!DriftIsBounded` | `Spec => []LedgerDrift`: for both services, any faults, requests and pods |
| `SyncRegistrationProofs!OversellIsBounded` | `Spec => []OversellBounded`: for any number of handlers at a time |
| `NodeScoringProofs!NodesHaveOneRow` | `Spec => []OneRowPerNode`: for any collectors, failures and attempts |
| `NodeScoringProofs!AloneIsTopsis` | `Spec => []AloneIsRight`: for any nodes, rows, criteria and weights |
| `NodeScoringProofs!TypeCorrect` | `WeightsAreNatural => (Spec => []TypeOK)`: however calls interleave, what they index and choose from is there |
| `NodeScoringProofs!DominatedIsNotPreferred` | `Spec => []PreferredIsBest`, if no difference is lost in rounding or weighing: no row that beats the preferred one in every respect |
| `StrategiesProofs!TypeCorrect` | `Spec => []TypeOK`: including that no strategy confirms a student twice |
| `StrategiesProofs!AsManyServed` | `Spec => []HybridServesAtLeast`: the order decides who is served, never how many; it counts seats |
| `StrategiesProofs!DisplacedByCloser` | `Spec => []DisplacedFairly`: a first choice is lost only when the section is full, and only to students at least as close |
| `StrategiesProofs!CloserFirst` | `Spec => []SeatsGoByCloseness`: for any number of students in a pool, in spite of the intransitive comparison |
| `StrategiesProofs!TiesDecided` | `Spec => []TieBreakKept`: through the sort of the edges in a batch too |

Assumptions. Of `AllocationOptimizer`: calls are well typed, `MaxIter` is positive,
`NoCourse` is no course. Of `DangKy`: sections are numbers, functions on sections are
typed, requests are requests, every set of sections has a last one
(`LastSectionAssumption`, true because there are finitely many), and there are finitely many
students and pods (`FinitenessAssumption`; sets of rows and deliveries are counted). Of `ApiCache`:
requests, keys and wishes on file are what their names say, the bounds are natural
numbers, and no status is "no row" (`CacheAssumption`). Of `WorkerPool`: there are finitely many
subjects, each message has one, and there is at least one slot (`PoolAssumption`). Of
`SyncRegistration`: finitely many requests and pods, at least one pod (with none, requests to the Go service
count as handled by nobody and `LedgerDrift` says less than nothing is lost), typed requests, and
`NoId` is no identifier (`SyncAssumption`). Of `MetricCollector` and `NodeScoring`: a collector has a node_id and an
aggregate to store, attempts and the numbers of nodes and criteria are positive, metrics are natural numbers for each
criterion, `TokenOrder` ranks the values of node_id (`CollectorAssumption`, `ScoringAssumption`). Of `Ranking` and
`Strategies`: the tolerance is a natural number (`ToleranceAssumption`), and a population is one that generateData returns -
each student once, first choice and alternative different, a section part of one course (`PopulationsAssumption`). TLC evaluates all of them on every run.

Conditions. Some theorems about `DangKy` hold under conditions on the instance. Each one is
satisfied by a run of section 3, and leaving it out lets one of the counterexamples there in:

| condition | meaning | satisfied by | without it |
|---|---|---|---|
| `OneBatch` | one pod, one batch at a time | `DangKyAnyClient`, `DangKyIsolated`, `DangKyRestart` | `DangKyOversell`; `RefusedHasOther` with two batches |
| `OneCourseRemembered` | who wishes for two sections of a course in wishes of their own has no wish for another course | `DangKyAnyClient`, `DangKyRestart` | wishes for courses A, B, A (db.go:533) |
| `NoFaults` | no statement fails, no pod stops | `DangKyAnyClient`, `DangKyIsolated`, `DangKyTwoBatches` | a confirmation without its count (db.go:1604) |
| `NoCancellations` | nobody sends HUY | `DangKyAnyClient`, `DangKyTwoBatches` | a row cancelled during a batch comes back (db.go:1577) |
| `CarefulClient` | a student asks for a course while nothing of it is on file, cancels only what is confirmed, and waits for the answer | `DangKyIsolated` | a confirmed wish repeated goes back to ChoXuLy, its seat stays counted (db.go:1091) |

Of `AllocationOptimizer`, `Orderly` says that conflicts are mutual (the code looks a pair up in
one order) and either the call is a batch, which never swaps, or a section belongs to one
course and the edges of a student for a course follow each other in the order of the sort, so
that `studentSections` loses with a section no other seat of the student. `AskedOnce` says that
no student asks twice for a section: otherwise `scoreOf` has the score of the last edge
only, and the search optimises another total than the recorded one. `SwapsRaiseTheTotal` asks it of the calls
that are no batches; `InputsAskOnce` of `MCAllocationOptimizer` says that those of the run satisfy it. `BatchShaped` and
`OneRequestPerCourse` stand in the properties themselves.

Of `NodeScoring`, `WeightsAreNatural` says that `Entropy_w` gives each criterion a weight, and
`Separates` that of two unlike metrics of a column without a 0 the weighed normalised values are unlike too:
without it a row that is better only where the weight is 0, or by less than a step of `Scale`, is as close as the
other. The run satisfies both (`MetricsSeparated` of `MCNodeScoring`).

Arguments.

- *CapacityKept* counts positions of `confirmed`: a confirmation adds one position to
  one section and takes one from its `capLeft`; a swap exchanges one position of each
  of two sections (`SwappedSeats`).
- *EdgesKept* needs that `todo` is a finite set and that `Consider` appends to exactly
  one of two lists (`ConsiderLists`).
- *WaitlistOrder* strengthens the property by "no edge still to do scores more than one that
  waits" (`WaitlistAboveTodo`), which the descending order of the loop keeps.
- *BatchNeverSwaps* shows that in such input the score of a student does not depend on
  the section of a course (`NoBetterSection`): the gain of each pair is at most 0.
- *PriorityRespected* needs three facts of the greedy loop (`GreedyFair`): a course in
  `assignedCourse` is held, what is confirmed ranks before what is still to do, and each
  edge on the waitlist has a reason - its student holds the course, a clash, or a full
  section of higher scores. The last one stays true because a full section takes nobody
  (`TurnOutranked`); `CapacityKept` gives that "no seat" means exactly 0.
- *OneSeatPerCourse* shows why one entry of `assignedCourse` is enough (`Remembered`): when a
  student's entry was overwritten since the course was given, an edge to another course
  came in between, in the order of the sort (`InOrder`). Both edges of a request have one
  score and stand next to each other, so nothing can (`NotYetHeld`).
- *NobodyClashes* keeps that every section held is in `studentSections` (`Recorded`). A swap takes
  a section out of that set; it is held no second time because a student has one seat of
  a course (`SwapSafe`, the invariant of *OneSeatPerCourse*, which a swap keeps since nobody's courses
  change) and a section one course. What is left in the set is what `SwapFeasible` compares.
- *SearchedToTheEnd* keeps that recorded scores are those of `scoreOf` (`ScoresRecorded`), and that Solve
  returns at its bound or when no pair improves (`SearchEnded`). `GainSymmetric` covers the pairs
  the double loop does not look at.
- *SwapsRaiseTheTotal* compares two sums. The total is a recursive function over the confirmed list, so that a
  list with other scores has a total that differs by the sum of the differences (`TotalGrows`): were
  there an index where it does not, there would be a least one (`LeastNumber`). A swap changes the scores
  at two positions (`RecordedKept`), by the gain that was found to be positive; a batch never swaps.
- *DangKyProofs!TypeCorrect* is not inductive alone. `GoodLocals` adds that the rows a batch
  still has to check, the edges of its plan and the statements it will execute all come
  from rows it scanned, and that a primary row exists for each of them (`PrimaryRowIn`).
- *OnlyAsked* strengthens by: the alternative written in a row was asked for too, and so
  were section and alternative of every row remembered by a batch, though that row may
  have changed since. Requests are never unsent (`SentGrows`), so stale rows do no harm.
- *SeatsStayAccounted* bounds a count that is missing (`LedgerBound`): rows confirmed or about to be are no
  more than the counter and the counts to come, plus a failure each, the counts of one pod for each
  stop, and the cancellations taken. The statements of a plan come in pairs, a status and a count
  for each assignment (`WritesOnce`), and a failure takes one of them.
- *SeatsSuffice* adds what a plan disposes of (`Fits`): counted seats, those about to be counted and
  those of the plan, free or given away, are no more than the section has. It holds with one batch
  because nobody counts between the read of a counter and the statements of that plan; with
  `LedgerBound` the confirmed rows fit too.
- *OversellIsLimited* counts what each batch may still count (`Claims`): the seats its plan disposes of and the
  counts among its statements. No claim exceeds the section, and counter and claims together stay within the section times
  the number of batches (`CrowdBound`): a batch that reads the counter claims no more than is free, so with it the
  others have their whole section each at most (`ClaimedApart`); later its claim only turns into
  counts (`ClaimChanged`). With `LedgerBound` the confirmed rows are within the same number. That the counter is never
  negative, which the read needs, rests on nobody cancelling.
- *OutcomesLast* and *OneSection* need that the optimizer gives a student one seat of a course
  (`GoodPlan`, `OnceInv`): what it gave is remembered as long as the student has a wish for the course left.
  `Unseated` says that a batch writes to no confirmed row: it scanned pending rows, and the only seats
  given since are its own. `ClearedFree` says that a student who passed the check has no seat of the course, and
  stays so until the statement that gives one; `CourseKnown`, that the check can see a seat, because rows
  name their course unless a cancellation deleted them; `Single` is the property with its exceptions.
- *FaultsExplained* puts `LedgerInv`, `FitInv` and `OutcomeInv` together; the damage a stopped pod
  does is bounded because it has at most one count of a section for each student (`OneBatchLoss`).
- *RowsAreCounted* turns the bound into an equation. Careful clients have one request open
  (`OneOpen`), which finds things as the client saw them (`InTurn`): no row of the course, or a confirmed row to
  cancel. So a student has one row of a course (`OneRow`), the rows a batch works on are still
  pending when it writes (`Waiting`), and no UPDATE meets a row that is counted or gone.
- *SeatsArePromised* maps each step. Scan, check, reads, allocation, counts, drops and the second half of
  a cancellation leave `wishes`, `cancels` and `seated` alone; `Send` asks; a confirming statement is a seat
  given - its section has a seat left by `Fits` and `Balanced`, and its student none of the course by
  `OneRow`; the DELETE of a cancellation gives it back.
- *ApiCacheProofs!TypeCorrect* adds to the types that a look-up under way asks for a key a
  client may ask for, that a mutation the gateway waits for has a request, and that the
  message of the running batch will name what its statements change (`BatchOK`).
- *ChangesAreOwed* follows from `BatchOK`: a statement for a counter names a section of the
  message, one for a row a student of it.
- *NoDebtForgotten* goes through the holders of a debt (`KeepsDebts`): the batch hands its
  keys to a message, the message to the callback, and callback and goroutines let go of
  a key only with its entry. A mutation that waits owes nothing yet.
- *SlotsAreConserved* and *RejectedIsFinal* rest on `Held`: a message waits in one place, once in the
  queue of its subject or in its callback, and is untouched there - neither running nor
  answered, no query of it handled. So the message a callback starts is not running already
  and the slot of the callback becomes the slot of one more handler (`Slots`), and a message the timer answers has
  no other answer and no way back (`Answering`). `HandlersBounded` follows: the semaphore has `MaxWorkers`
  places, and a handler has one of its own.
- *SuccessIsOnFile* strengthens by: a handler past its INSERT has its row on file, unless a
  cancellation was asked for (`Filed`), and the statements of a handler are those of its
  request (`Kinded`). A repeated INSERT overwrites the row and leaves it on file.
- *IdentifierIsOnFile* adds that one pod works on a request (`OneHandler`, from `Receivers`) and that
  the row of a student nobody else asked for is that handler's own (`OwnRow`).
- *DriftIsBounded* counts handlers as they finish with their row (`Done`), behind the queue group once for a
  request, otherwise once in each pod, and calls those beyond the first of a student repeats (`Spent`). A
  row has an owner that is done (`RowsOwned`), so an INSERT over a row is a repeat; a DELETE that finds no
  row comes after another cancellation of the student (`XoaSeen`), or, in the Go service, spends itself.
- *OversellIsBounded* adds that counter and handlers past the check fit, but for those that were there
  together (`Crowded`): who passes the check alone saw a counter below the limit.
- *NodesHaveOneRow* says of a collector that shares its node_id with nobody (`SoleRow`): there is one row
  at most, and while it deletes, that row is among those it selected. So the INSERT, which comes when nothing
  is left to delete, finds none; an attempt that starts again selects anew. Another collector deletes rows of its own
  node_id only (`OwnRows`), calls of Score delete none.
- *AloneIsTopsis* follows a call through its loops (`Progress`). While a call that no other
  overlapped is under way there is no other (`Solo`), so what it wrote to the package variables is still there. An
  anchor is the extreme of the rows scanned so far (`Lowered`), then of all of them, with 0 made 1 (`Zeroed`); the
  cells before the one at hand are normalised (`NormalisedTo`), the criteria before it have their alternatives
  (`Choosing`), the rows before it were compared with both (`Comparing`). `CellByCell` says that the double loop meets
  every cell once. The anchors are set anew from the first row of the table, so what
  stood there before does not matter.
- *NodeScoringProofs!TypeCorrect* holds for calls that overlap as well: a call past the loop that panics has all
  `Total_Node` rows (`RowsThere`), a column has a least and a greatest value (`ColumnBounds`), and there is a row that no other is
  closer than, because comparing two quotients by products is transitive where the denominators are
  positive (`QuotientsOrdered`, `MaximalRow`). `WeightsAreNatural`: `Entropy_w` gives each criterion of a table
  a weight. The weights of `MCNodeScoring` do.
- *DominatedIsNotPreferred* adds to *AloneIsTopsis* what the formula does. In a table without a cost of 0 a
  better metric is a better normalised one (`TableNormalised`); so a row that dominates another
  is farther from the worst alternative and nearer to the best one, in one of them strictly
  (`DistanceBelow`, by least counterexample over the criteria), and its quotient is larger (`QuotientsGrow`): the row it
  dominates is not on top (`DominatedRowLoses`).
- *StrategiesProofs* begins with the lists. `InsertionSorts` follows the stable sort: elements that are neighbours are in
  order whatever the relation; all elements are if ties are transitive; and of two that tie the one that stood
  first stays first. `Flattened` and `PoolPicks` say what a concatenation and a pool consist of. `Places` and `Pool` are recursive
  functions, so each fact about them is had by the smallest length at which it would fail
  (`SmallestNumber`). From these come the orders a strategy works in: a pool (`PoolRanked`), the ranked pools in any order of
  the map (`MapRanked`), the edges by score (`SortedByScore`).
- *CloserFirst* in a pool: from one place to the next the closeness rises by one tolerance at most (`NeighboursClose`,
  `SmallSteps`), which is where the bound of `SeatsGoByCloseness` comes from. `TiesDecided` has transitive ties instead.
- The loops keep that every first choice is still to come, is confirmed, or came too late (`Inv`, `AtWork`): its section is full, and
  whoever holds a seat of it stands before it in the order (`GoneFairly`). It is never passed over because the
  student holds the course already, as the alternative comes after it (`Queued`).
- *DisplacedByCloser* takes the same facts for hybrid and batch, where a student who is moved counts as well as one who
  is refused (`RefusedAreDisplaced`): what happened to the first choice does not depend on whether the
  alternative had a seat.
- *AsManyServed* counts by injections: the seats of a section and the students who want it (`FullOrServed`, `OnlyWanting`).

The code sorts blocks of 20 by insertion and merges longer lists. If ties are transitive, as they are for the order of
submission, the fixed rule and the scores, both give the same list; for closeness in a pool of more than 20 with
chains of near scores the bound of `CloserFirst` is one of insertion sort only.

Only model-checked, and why:

- liveness (`WishesAnswered`, `MessagesAnswered`, `ShutdownCompletes`, `EventuallyCurrent`), which the
  prover does not cover;
- `LocalOptimum` for students who ask twice; for a search that runs into its bound it is false;
- `PreferredIsBest` where a difference is lost in rounding or weighing, where it may be false (a weight of 0).

Only proved: `NoClash` and `ScoreRises` speak of conflicts, or of scores that differ within a request, which no caller of Solve
passes (db.go:1527, files(2)/main.go:454). They hold of Solve under the conditions above, and no run spends its time on them.

## 5. What is not modelled

- The closeness of TOPSIS: entropy and AHP weights, normalisation, distances of ten floating-point
  criteria (db.go 215-291, 307-420), and with it schedules and their overlap, which are one of the criteria.
  `DangKy` lets any order of requests come out, `Ranking` any closeness. A failing ranking
  (an empty pool, a vector of the wrong length) cannot happen with what the batch passes.
- `NguyenKhoi/main.go`: an earlier gateway, cache and service in one process. It inserts a row as
  DaDangKy and adds one to the counter, the order that `SyncRegistration` models for the
  Go service; its cache is the one of `ApiCache` without messages.
- updateWorker: reads CPU and RAM load and writes `config.MaxWorkers`, which main has read
  before. `WorkerPool` takes any positive number of slots.
- The calculators (`RL-v/calculator/main.go` and its three copies): the arithmetic of
  calculator.go in a single loop, one reader, nothing shared.
- generateData, evaluate and the CSV output of the experiment; `default-scheduller/web-registeter/files (2)/main.go`,
  an older form of it that does not compile (a float constant given to an int).
- The cache and read queries of the earlier services; an entry that is at most one TTL older than the
  tables, which needs a clock.
- The other plugins under `scheduler-plugins` (third-party code), seed data, k6 scripts,
  manifests, and the skeletons under `main/`, which nothing deploys.

`PROJECT.json` lists each part with its status, and the hazards of the code line by line with the
properties that cover them.
