----------------------------- MODULE WorkerPool -----------------------------
(***************************************************************************)
(* One pod of db-service in web-registeter/db/db.go between NATS and the   *)
(* handlers: the two subscriptions of startSubscriptions, the worker pool  *)
(* they share, the ticker that starts batches, and the shutdown of main.   *)
(* What a handler or a batch does to the tables is in DangKy.              *)
(*                                                                         *)
(* The NATS client calls the callback of a subscription for one message at *)
(* a time; the callback waits in its select for a slot of workerSem, for   *)
(* its two seconds to pass, or for the context to be cancelled.  A select  *)
(* with several ready cases takes any of them.                             *)
(***************************************************************************)
EXTENDS Integers, Sequences, FiniteSets, SequencesExt

CONSTANTS
    Messages,     \* requests, each published once
    Subjects,     \* db.query and db.batch.query
    SubjectOf,    \* the subject of a message
    Queries,      \* how many queries a message carries: 1 on db.query
    MaxWorkers,   \* cap(workerSem)
    BatchSlots    \* cap(batchSem): 3 in main

ASSUME PoolAssumption ==
    /\ IsFiniteSet(Subjects)
    /\ SubjectOf \in [Messages -> Subjects]
    /\ Queries \in [Messages -> Nat]
    /\ MaxWorkers \in Nat \ {0}
    /\ BatchSlots \in Nat \ {0}

VARIABLES
    delivered,  \* messages NATS has handed to the client library
    queue,      \* subject -> messages the client library holds for it
    callback,   \* subject -> where its callback is, and with which message
    sem,        \* len(workerSem), the slots of the pool that are taken
    running,    \* messages whose handler goroutine runs, in handlerWg
    left,       \* message -> queries of it still to be handled
    answers,    \* message -> the answers sent for it
    batches,    \* processPendingBatch goroutines, not in handlerWg
    ticker,     \* the goroutine of the ticker is alive, in handlerWg
    cancelled,  \* the context is done
    subscribed, \* the two subscriptions are in place
    main        \* where the main goroutine is

vars == <<delivered, queue, callback, sem, running, left, answers, batches, ticker,
          cancelled, subscribed, main>>

pod  == <<batches, ticker, cancelled, subscribed, main>>
pool == <<delivered, queue, callback, sem, running, left, answers>>

\* main waits for a signal; then for handlerWg or 15 seconds; then closes the
\* connection; then the process is gone.  "finished" and "timed out" are what
\* it logs on the way.
MainStates == {"serving", "draining", "finished", "timed out", "closed", "exited"}

Answers == {"reply", "saturated"}

\* The connection carries messages until main closes it.
Connected == main \notin {"closed", "exited"}

Alive == main # "exited"

Free == [pc |-> "free", msg |-> << >>]

\* The callbacks that got a slot and have not started their handler yet.
Acquired == {s \in Subjects : callback[s].pc = "acquired"}

\* handlerWg counts the handlers started and the ticker, not the callbacks.
WgIsZero == running = {} /\ ~ticker

Init ==
    /\ delivered = {}
    /\ queue = [s \in Subjects |-> << >>]
    /\ callback = [s \in Subjects |-> Free]
    /\ sem = 0
    /\ running = {}
    /\ left = Queries
    /\ answers = [m \in Messages |-> {}]
    /\ batches = 0
    /\ ticker = TRUE
    /\ cancelled = FALSE
    /\ subscribed = TRUE
    /\ main = "serving"

-----------------------------------------------------------------------------
(***************************************************************************)
(* Subscriptions and handlers                                              *)
(***************************************************************************)

\* A message is delivered once, while the subscription stands.
Deliver(m) ==
    /\ subscribed /\ Connected
    /\ m \notin delivered
    /\ delivered' = delivered \union {m}
    /\ queue' = [queue EXCEPT ![SubjectOf[m]] = Append(@, m)]
    /\ UNCHANGED <<callback, sem, running, left, answers, pod>>

\* The client library calls the callback with the oldest message.
Call(s) ==
    /\ Connected
    /\ callback[s] = Free
    /\ queue[s] # << >>
    /\ callback' = [callback EXCEPT ![s] = [pc |-> "select", msg |-> <<Head(queue[s])>>]]
    /\ queue' = [queue EXCEPT ![s] = Tail(@)]
    /\ UNCHANGED <<delivered, sem, running, left, answers, pod>>

\* case workerSem <- struct{}{}
Acquire(s) ==
    /\ Alive
    /\ callback[s].pc = "select"
    /\ sem < MaxWorkers
    /\ sem' = sem + 1
    /\ callback' = [callback EXCEPT ![s] = [pc |-> "acquired", msg |-> callback[s].msg]]
    /\ UNCHANGED <<delivered, queue, running, left, answers, pod>>

\* wg.Add(1) and the go statement, after the slot was taken; the goroutine
\* keeps the slot.
Start(s) ==
    /\ Alive
    /\ callback[s].pc = "acquired"
    /\ running' = running \union ToSet(callback[s].msg)
    /\ callback' = [callback EXCEPT ![s] = Free]
    /\ UNCHANGED <<delivered, queue, sem, left, answers, pod>>

\* A response is sent only over an open connection; the error of Respond is
\* not looked at.
Respond(m, a) ==
    answers' = [answers EXCEPT ![m] = IF Connected THEN @ \union {a} ELSE @]

\* Mutated forms of Saturated: the callback goes on waiting after its answer,
\* and it ends without one.
SaturatedGoesOn(s) ==
    /\ Alive
    /\ callback[s].pc = "select"
    /\ Respond(callback[s].msg[1], "saturated")
    /\ UNCHANGED <<delivered, queue, callback, sem, running, left, pod>>

SaturatedSilent(s) ==
    /\ Alive
    /\ callback[s].pc = "select"
    /\ callback' = [callback EXCEPT ![s] = Free]
    /\ UNCHANGED <<delivered, queue, sem, running, left, answers, pod>>

\* case <-timer.C
Saturated(s) ==
    /\ Alive
    /\ callback[s].pc = "select"
    /\ Respond(callback[s].msg[1], "saturated")
    /\ callback' = [callback EXCEPT ![s] = Free]
    /\ UNCHANGED <<delivered, queue, sem, running, left, pod>>

\* case <-ctx.Done()
GiveUp(s) ==
    /\ Alive
    /\ cancelled
    /\ callback[s].pc = "select"
    /\ callback' = [callback EXCEPT ![s] = Free]
    /\ UNCHANGED <<delivered, queue, sem, running, left, answers, pod>>

\* handleQuery ends for one query of a message; on db.batch.query they all
\* run at the same time, in an errgroup without a limit.
Handle(m) ==
    /\ Alive
    /\ m \in running
    /\ left[m] > 0
    /\ left' = [left EXCEPT ![m] = @ - 1]
    /\ UNCHANGED <<delivered, queue, callback, sem, running, answers, pod>>

\* Mutated form of Finish: the slot is given back at the end of the handler
\* instead of by a defer, and a return in between keeps it.
FinishKeepingSlot(m) ==
    /\ Alive
    /\ m \in running
    /\ left[m] = 0
    /\ Respond(m, "reply")
    /\ running' = running \ {m}
    /\ UNCHANGED <<delivered, queue, callback, sem, left, pod>>

\* The handler answers and gives back its slot and its place in handlerWg.
Finish(m) ==
    /\ Alive
    /\ m \in running
    /\ left[m] = 0
    /\ Respond(m, "reply")
    /\ sem' = sem - 1
    /\ running' = running \ {m}
    /\ UNCHANGED <<delivered, queue, callback, left, pod>>

-----------------------------------------------------------------------------
(***************************************************************************)
(* Batches and shutdown                                                    *)
(***************************************************************************)

\* Mutated form of Tick: a batch without a slot of batchSem.
TickAnyway ==
    /\ Alive
    /\ ticker
    /\ batches' = batches + 1
    /\ UNCHANGED <<pool, ticker, cancelled, subscribed, main>>

\* A tick with a slot free in batchSem starts a batch; without one it is
\* skipped.
Tick ==
    /\ Alive
    /\ ticker
    /\ batches < BatchSlots
    /\ batches' = batches + 1
    /\ UNCHANGED <<pool, ticker, cancelled, subscribed, main>>

BatchDone ==
    /\ Alive
    /\ batches > 0
    /\ batches' = batches - 1
    /\ UNCHANGED <<pool, ticker, cancelled, subscribed, main>>

\* SIGINT or SIGTERM, then cancel().
Signal ==
    /\ main = "serving"
    /\ main' = "draining"
    /\ cancelled' = TRUE
    /\ UNCHANGED <<pool, batches, ticker, subscribed>>

StopTicker ==
    /\ Alive
    /\ cancelled /\ ticker
    /\ ticker' = FALSE
    /\ UNCHANGED <<pool, batches, cancelled, subscribed, main>>

\* Unsubscribing removes the messages the client library still holds.
Unsubscribe ==
    /\ Alive
    /\ cancelled /\ subscribed
    /\ subscribed' = FALSE
    /\ queue' = [s \in Subjects |-> << >>]
    /\ UNCHANGED <<delivered, callback, sem, running, left, answers, batches, ticker,
                   cancelled, main>>

\* Mutated form of DrainTimeout: main waits for handlerWg without a limit.
DrainWithoutTimeout == main = "draining" /\ FALSE /\ UNCHANGED vars

\* handlerWg.Wait() returns before the 15 seconds are over, or it does not.
Drained ==
    /\ main = "draining"
    /\ WgIsZero
    /\ main' = "finished"
    /\ UNCHANGED <<pool, batches, ticker, cancelled, subscribed>>

DrainTimeout ==
    /\ main = "draining"
    /\ main' = "timed out"
    /\ UNCHANGED <<pool, batches, ticker, cancelled, subscribed>>

Close ==
    /\ main \in {"finished", "timed out"}
    /\ main' = "closed"
    /\ UNCHANGED <<pool, batches, ticker, cancelled, subscribed>>

\* main returns: every goroutine that is left is gone.
Exit ==
    /\ main = "closed"
    /\ main' = "exited"
    /\ queue' = [s \in Subjects |-> << >>]
    /\ callback' = [s \in Subjects |-> Free]
    /\ sem' = 0
    /\ running' = {}
    /\ batches' = 0
    /\ ticker' = FALSE
    /\ UNCHANGED <<delivered, left, answers, cancelled, subscribed>>

Shutdown == Signal \/ StopTicker \/ Unsubscribe \/ Drained \/ DrainTimeout \/ Close \/ Exit

CallbackStep(s) == Acquire(s) \/ Start(s) \/ Saturated(s) \/ GiveUp(s)

Next ==
    \/ \E m \in Messages : Deliver(m) \/ Handle(m) \/ Finish(m)
    \/ \E s \in Subjects : Call(s) \/ CallbackStep(s)
    \/ Tick \/ BatchDone
    \/ Shutdown

Spec == Init /\ [][Next]_vars

\* Goroutines that can go on do, and timers fire.  Handlers may hang, and
\* nobody has to send a signal.
FairSpec ==
    /\ Spec
    /\ \A s \in Subjects : WF_vars(Call(s)) /\ WF_vars(CallbackStep(s))
    /\ WF_vars(StopTicker) /\ WF_vars(Unsubscribe)
    /\ WF_vars(Drained \/ DrainTimeout) /\ WF_vars(Close) /\ WF_vars(Exit)

\* The handler of a message does not hang: its statements have the timeout of
\* gocql.
HandlerEnds(m) == WF_vars(Handle(m)) /\ WF_vars(Finish(m))

-----------------------------------------------------------------------------

\* Every part of the state has its type.
TypeOK ==
    /\ delivered \subseteq Messages
    /\ queue \in [Subjects -> Seq(Messages)]
    /\ callback \in [Subjects ->
          {Free} \union [pc : {"select", "acquired"}, msg : {<<m>> : m \in Messages}]]
    /\ sem \in 0..MaxWorkers
    /\ running \subseteq delivered
    /\ left \in [Messages -> Nat]
    /\ answers \in [Messages -> SUBSET Answers]
    /\ batches \in 0..BatchSlots
    /\ ticker \in BOOLEAN
    /\ cancelled \in BOOLEAN
    /\ subscribed \in BOOLEAN
    /\ main \in MainStates

\* Every slot of workerSem that is taken has its holder, a callback on its way
\* to the go statement or a handler, and every holder has a slot of its own:
\* whichever way a callback or a handler ends, no slot is lost (the pool would
\* shrink until nobody is served) or given back twice (it would grow).
SlotsConserved == sem = Cardinality(running) + Cardinality(Acquired)

\* What this pod refuses with "worker pool saturated, retry later" it does not
\* handle: the timer and the slot of one select are never both taken, and
\* nothing of the message was, is or will be done here.  It says nothing of
\* the other pods: Subscribe names no queue group, each pod has the message,
\* and a client that retries may repeat what one of them did.
RejectedNeverHandled ==
    \A m \in Messages :
        "saturated" \in answers[m] =>
            /\ answers[m] = {"saturated"}
            /\ left[m] = Queries[m]
            /\ m \notin running \union UNION {ToSet(callback[s].msg) : s \in Subjects}

\* A message that reaches a pod which is not told to stop is answered, by its
\* handler or by the timer of its callback, provided that its own handler does
\* not hang: handlers of other messages that do cannot keep it waiting.
MessagesAnswered ==
    \A m \in Messages :
        HandlerEnds(m) => (m \in delivered ~> answers[m] # {} \/ cancelled)

\* A pod that is told to stop stops, even when handlers hang.
ShutdownCompletes == cancelled ~> main = "exited"

\* When main logs "All handlers finished", no handler runs.  Broken by a
\* callback that has its slot and starts its handler late (README).
DrainedIsFinal == main = "finished" => running = {}

=============================================================================
