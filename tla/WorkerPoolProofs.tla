-------------------------- MODULE WorkerPoolProofs --------------------------
(***************************************************************************)
(* Theorems about WorkerPool: its types, that every slot of the pool has   *)
(* its holder, and that a message this pod refuses it never handles.       *)
(***************************************************************************)
EXTENDS WorkerPool, FiniteSetTheorems, SequenceTheorems, TLAPS

Waits(s) == callback[s].pc \in {"select", "acquired"}

Msg(s) == callback[s].msg[1]

\* Messages that were received and nothing more.
Untouched == {m \in delivered : m \notin running /\ answers[m] = {} /\ left[m] = Queries[m]}

\* A message waits in one place: in the queue of its subject, once, or in
\* its callback.
Held ==
    \A s \in Subjects :
        /\ \A i \in 1..Len(queue[s]) : queue[s][i] \in Untouched /\ SubjectOf[queue[s][i]] = s
        /\ \A i, j \in 1..Len(queue[s]) : queue[s][i] = queue[s][j] => i = j
        /\ Waits(s) => /\ Msg(s) \in Untouched /\ SubjectOf[Msg(s)] = s
                       /\ \A i \in 1..Len(queue[s]) : queue[s][i] # Msg(s)

CallbackType == {Free} \union [pc : {"select", "acquired"}, msg : {<<m>> : m \in Messages}]

-----------------------------------------------------------------------------
(***************************************************************************)
(* Types                                                                   *)
(***************************************************************************)

\* A callback that is not free has one message.
LEMMA CallbackCases ==
    ASSUME NEW c \in CallbackType
    PROVE  /\ c.pc \in {"select", "acquired"} =>
                  /\ c.msg[1] \in Messages
                  /\ c.msg = <<c.msg[1]>>
                  /\ c = [pc |-> c.pc, msg |-> c.msg]
                  /\ ToSet(c.msg) = {c.msg[1]}
                  /\ c # Free
           /\ c.pc \notin {"select", "acquired"} => c = Free /\ ToSet(c.msg) = {}
<1>1. CASE c = Free
  BY <1>1 DEF Free, ToSet
<1>2. CASE c \in [pc : {"select", "acquired"}, msg : {<<m>> : m \in Messages}]
  <2>1. PICK m \in Messages : c.msg = <<m>>
    BY <1>2
  <2>2. c.msg[1] = m /\ ToSet(c.msg) = {m}
    BY <2>1 DEF ToSet
  <2>3. c = [pc |-> c.pc, msg |-> c.msg] /\ c.pc \in {"select", "acquired"}
    BY <1>2
  <2> QED
    BY <2>1, <2>2, <2>3 DEF Free
<1> QED
  BY <1>1, <1>2 DEF CallbackType

\* The slots of the pool and their holders, counted over finite sets.
Slots == IsFiniteSet(running) /\ SlotsConserved

LEMMA AcquiredFinite == IsFiniteSet(Acquired) /\ Cardinality(Acquired) \in Nat
<1>1. Acquired \subseteq Subjects
  BY DEF Acquired
<1> QED
  BY <1>1, PoolAssumption, FS_Subset, FS_CardinalityType

LEMMA TypeStep ==
    ASSUME TypeOK, Held, Slots, [Next]_vars
    PROVE  TypeOK'
<1> USE PoolAssumption
<1>0. \A s \in Subjects : callback[s] \in CallbackType
  BY DEF TypeOK, CallbackType
<1> USE DEF TypeOK, pod, pool
<1>1. CASE \E m \in Messages : Deliver(m)
  <2>1. PICK m \in Messages : Deliver(m)
    BY <1>1
  <2>2. SubjectOf[m] \in Subjects
    OBVIOUS
  <2>3. Append(queue[SubjectOf[m]], m) \in Seq(Messages)
    BY <2>2
  <2> QED
    BY <2>1, <2>2, <2>3 DEF Deliver
<1>2. CASE \E m \in Messages : Handle(m)
  BY <1>2 DEF Handle
<1>3. CASE \E m \in Messages : Finish(m)
  <2>1. PICK m \in Messages : Finish(m)
    BY <1>3
  <2>2. m \in running /\ sem' = sem - 1
    BY <2>1 DEF Finish
  <2>3. Cardinality(running) \in Nat \ {0}
    BY <2>2, FS_CardinalityType, FS_EmptySet DEF Slots
  <2>4. sem - 1 \in 0..MaxWorkers
    BY <2>3, AcquiredFinite DEF Slots, SlotsConserved
  <2> QED
    BY <2>1, <2>2, <2>4 DEF Finish, Respond, Answers
<1>4. CASE \E s \in Subjects : Call(s)
  <2>1. PICK s \in Subjects : Call(s)
    BY <1>4
  <2>2. Head(queue[s]) \in Messages /\ Tail(queue[s]) \in Seq(Messages)
    BY <2>1 DEF Call
  <2> QED
    BY <2>1, <2>2 DEF Call
<1>5. CASE \E s \in Subjects : Acquire(s)
  <2>1. PICK s \in Subjects : Acquire(s)
    BY <1>5
  <2>2. callback[s].msg \in {<<m>> : m \in Messages}
    BY <2>1 DEF Acquire, Free
  <2>3. sem' \in 0..MaxWorkers
    BY <2>1 DEF Acquire
  <2> QED
    BY <2>1, <2>2, <2>3 DEF Acquire
<1>6. CASE \E s \in Subjects : Start(s)
  <2>1. PICK s \in Subjects : Start(s)
    BY <1>6
  <2>2. ToSet(callback[s].msg) = {Msg(s)}
    BY <2>1, <1>0, CallbackCases DEF Start, Msg
  <2>3. Msg(s) \in delivered
    BY <2>1 DEF Start, Held, Waits, Untouched
  <2> QED
    BY <2>1, <2>2, <2>3 DEF Start
<1>7. CASE \E s \in Subjects : Saturated(s)
  <2>1. PICK s \in Subjects : Saturated(s)
    BY <1>7
  <2> QED
    BY <2>1 DEF Saturated, Respond, Answers
<1>8. CASE \E s \in Subjects : GiveUp(s)
  BY <1>8 DEF GiveUp
<1>9. CASE Tick
  BY <1>9 DEF Tick
<1>10. CASE BatchDone
  BY <1>10 DEF BatchDone
<1>14. CASE Signal
  BY <1>14 DEF Signal, MainStates
<1>15. CASE StopTicker
  BY <1>15 DEF StopTicker
<1>16. CASE Drained \/ DrainTimeout \/ Close
  BY <1>16 DEF Drained, DrainTimeout, Close, MainStates
<1>17. << >> \in Seq(Messages)
  BY EmptySeq
<1>11. CASE Unsubscribe
  BY <1>11, <1>17 DEF Unsubscribe
<1>12. CASE Exit
  <2>1. /\ queue' \in [Subjects -> Seq(Messages)]
        /\ callback' \in [Subjects -> {Free} \union [pc : {"select", "acquired"},
                                                  msg : {<<m>> : m \in Messages}]]
    BY <1>12, <1>17 DEF Exit
  <2>2. batches' \in 0..BatchSlots /\ sem' \in 0..MaxWorkers /\ running' \subseteq delivered' /\ main' \in MainStates
    BY <1>12 DEF Exit, MainStates
  <2> QED
    BY <1>12, <2>1, <2>2 DEF Exit
<1>13. CASE UNCHANGED vars
  BY <1>13 DEF vars
<1> QED
  BY <1>1, <1>2, <1>3, <1>4, <1>5, <1>6, <1>7, <1>8, <1>9, <1>10, <1>11, <1>12, <1>13,
     <1>14, <1>15, <1>16 DEF Next, CallbackStep, Shutdown

-----------------------------------------------------------------------------
(***************************************************************************)
(* Where a message is                                                      *)
(***************************************************************************)

\* A message that has not come in has no answer, one that is handled has none
\* yet, and "saturated" is the end of it.
Answering ==
    /\ \A m \in Messages \ delivered : answers[m] = {} /\ left[m] = Queries[m]
    /\ \A m \in running : answers[m] = {}
    /\ \A m \in Messages : "saturated" \in answers[m] =>
           answers[m] = {"saturated"} /\ left[m] = Queries[m] /\ m \notin running

IInv == TypeOK /\ Held /\ Answering /\ Slots

\* A held message is a message.
LEMMA HeldTypes ==
    ASSUME TypeOK, NEW s \in Subjects
    PROVE  /\ Len(queue[s]) \in Nat
           /\ \A i \in 1..Len(queue[s]) : queue[s][i] \in Messages
           /\ Waits(s) => /\ Msg(s) \in Messages
                          /\ callback[s].msg = <<Msg(s)>>
                          /\ ToSet(callback[s].msg) = {Msg(s)}
           /\ ~Waits(s) => callback[s] = Free
<1>1. queue[s] \in Seq(Messages)
  BY DEF TypeOK
<1>2. callback[s] \in CallbackType
  BY DEF TypeOK, CallbackType
<1> QED
  BY <1>1, <1>2, ElementOfSeq, LenProperties, CallbackCases DEF Waits, Msg

\* If no message moves into a place and those in a place stay untouched,
\* Held is kept.
LEMMA HeldStays ==
    ASSUME Held, TypeOK, UNCHANGED queue,
           \A s \in Subjects : Waits(s)' => Waits(s) /\ Msg(s)' = Msg(s),
           \A s \in Subjects : \A i \in 1..Len(queue[s]) : queue'[s][i] \in Untouched',
           \A s \in Subjects : Waits(s)' => Msg(s)' \in Untouched'
    PROVE  Held'
  BY DEF Held

\* The message of a callback is in no queue and no other callback.
LEMMA InOnePlace ==
    ASSUME Held, TypeOK, NEW s \in Subjects, Waits(s)
    PROVE  /\ \A t \in Subjects : \A i \in 1..Len(queue[t]) : queue[t][i] # Msg(s)
           /\ \A t \in Subjects \ {s} : Waits(t) => Msg(t) # Msg(s)
  BY DEF Held

LEMMA DeliverHeld ==
    ASSUME TypeOK, Held, Answering, NEW m \in Messages, Deliver(m)
    PROVE  Held'
<1> DEFINE t == SubjectOf[m]
<1>1. t \in Subjects /\ queue[t] \in Seq(Messages)
  BY PoolAssumption DEF TypeOK
<1>2. /\ m \notin delivered /\ delivered' = delivered \union {m}
      /\ UNCHANGED <<callback, running, left, answers>>
  BY DEF Deliver
<1>3. /\ \A s \in Subjects \ {t} : queue'[s] = queue[s]
      /\ queue'[t] = Append(queue[t], m)
  BY <1>1 DEF Deliver, TypeOK
<1>4. /\ Len(queue[t]) \in Nat
      /\ Len(queue'[t]) = Len(queue[t]) + 1
      /\ \A i \in 1..Len(queue[t]) : queue'[t][i] = queue[t][i]
      /\ queue'[t][Len(queue[t]) + 1] = m
  BY <1>1, <1>3, AppendProperties, LenProperties
<1> HIDE DEF t
<1>5. m \in Untouched'
  BY <1>2 DEF Untouched, Answering, TypeOK
<1>6. \A x : x \in Untouched => x \in Untouched' /\ x # m
  BY <1>2 DEF Untouched
<1>7. \A s \in Subjects : (Waits(s)' <=> Waits(s)) /\ Msg(s)' = Msg(s)
  BY <1>2 DEF Waits, Msg
<1>8. t = SubjectOf[m]
  BY DEF t
<1> SUFFICES ASSUME NEW s \in Subjects
             PROVE  /\ \A i \in 1..Len(queue'[s]) : queue'[s][i] \in Untouched' /\ SubjectOf[queue'[s][i]] = s
                    /\ \A i, j \in 1..Len(queue'[s]) : queue'[s][i] = queue'[s][j] => i = j
                    /\ Waits(s) => /\ Msg(s) \in Untouched' /\ SubjectOf[Msg(s)] = s
                                   /\ \A i \in 1..Len(queue'[s]) : queue'[s][i] # Msg(s)
  BY <1>7 DEF Held
<1>9. CASE s # t
  BY <1>9, <1>3, <1>6 DEF Held
<1>10. CASE s = t
  <2>1. \A i \in 1..Len(queue'[t]) : \/ i \in 1..Len(queue[t]) /\ queue'[t][i] = queue[t][i]
                                     \/ i = Len(queue[t]) + 1 /\ queue'[t][i] = m
    BY <1>4
  <2>2. /\ \A i \in 1..Len(queue[t]) : queue[t][i] \in Untouched /\ SubjectOf[queue[t][i]] = t
        /\ \A i, j \in 1..Len(queue[t]) : queue[t][i] = queue[t][j] => i = j
        /\ Waits(t) => /\ Msg(t) \in Untouched /\ SubjectOf[Msg(t)] = t
                       /\ \A i \in 1..Len(queue[t]) : queue[t][i] # Msg(t)
    BY <1>1 DEF Held
  <2>3. \A i \in 1..Len(queue'[t]) : queue'[t][i] \in Untouched' /\ SubjectOf[queue'[t][i]] = t
    BY <2>1, <2>2, <1>5, <1>6, <1>8
  <2>4. \A i, j \in 1..Len(queue'[t]) : queue'[t][i] = queue'[t][j] => i = j
    BY <2>1, <2>2, <1>6
  <2>5. Waits(t) => /\ Msg(t) \in Untouched' /\ SubjectOf[Msg(t)] = t
                    /\ \A i \in 1..Len(queue'[t]) : queue'[t][i] # Msg(t)
    BY <2>1, <2>2, <1>6
  <2> QED
    BY <1>10, <2>3, <2>4, <2>5
<1> QED
  BY <1>9, <1>10

LEMMA CallHeld ==
    ASSUME TypeOK, Held, NEW t \in Subjects, Call(t)
    PROVE  Held'
<1>1. queue[t] \in Seq(Messages) /\ queue[t] # << >> /\ callback[t] = Free
  BY DEF Call, TypeOK
<1>2. UNCHANGED <<delivered, running, left, answers>>
  BY DEF Call
<1>3. /\ \A s \in Subjects \ {t} : queue'[s] = queue[s] /\ callback'[s] = callback[s]
      /\ queue'[t] = Tail(queue[t])
      /\ callback'[t] = [pc |-> "select", msg |-> <<Head(queue[t])>>]
  BY DEF Call, TypeOK
<1>4. /\ Len(queue[t]) \in Nat \ {0}
      /\ Len(queue'[t]) = Len(queue[t]) - 1
      /\ \A i \in 1..Len(queue'[t]) : queue'[t][i] = queue[t][i + 1]
      /\ Head(queue[t]) = queue[t][1]
  BY <1>1, <1>3, HeadTailProperties, LenProperties, EmptySeq
<1>5. Waits(t)' /\ Msg(t)' = queue[t][1]
  BY <1>3, <1>4 DEF Waits, Msg
<1>6. \A s \in Subjects \ {t} : (Waits(s)' <=> Waits(s)) /\ Msg(s)' = Msg(s)
  BY <1>3 DEF Waits, Msg
<1>7. \A x : x \in Untouched' <=> x \in Untouched
  BY <1>2 DEF Untouched
<1> SUFFICES ASSUME NEW s \in Subjects
             PROVE  /\ \A i \in 1..Len(queue'[s]) : queue'[s][i] \in Untouched' /\ SubjectOf[queue'[s][i]] = s
                    /\ \A i, j \in 1..Len(queue'[s]) : queue'[s][i] = queue'[s][j] => i = j
                    /\ Waits(s)' => /\ Msg(s)' \in Untouched' /\ SubjectOf[Msg(s)'] = s
                                    /\ \A i \in 1..Len(queue'[s]) : queue'[s][i] # Msg(s)'
  BY DEF Held
<1>8. CASE s # t
  BY <1>8, <1>3, <1>6, <1>7 DEF Held
<1>9. CASE s = t
  <2>1. \A i \in 1..Len(queue'[t]) : i + 1 \in 1..Len(queue[t]) /\ i + 1 # 1 /\ queue'[t][i] = queue[t][i + 1]
    BY <1>4
  <2>2. 1 \in 1..Len(queue[t])
    BY <1>4
  <2>3. /\ \A i \in 1..Len(queue[t]) : queue[t][i] \in Untouched /\ SubjectOf[queue[t][i]] = t
        /\ \A i, j \in 1..Len(queue[t]) : queue[t][i] = queue[t][j] => i = j
    BY DEF Held
  <2>4. \A i \in 1..Len(queue'[t]) : queue'[t][i] \in Untouched' /\ SubjectOf[queue'[t][i]] = t
    BY <2>1, <2>3, <1>7
  <2>5. ASSUME NEW i \in 1..Len(queue'[t]), NEW j \in 1..Len(queue'[t]),
               queue'[t][i] = queue'[t][j]
        PROVE  i = j
    <3>1. /\ i + 1 \in 1..Len(queue[t]) /\ j + 1 \in 1..Len(queue[t])
          /\ queue[t][i + 1] = queue[t][j + 1]
      BY <2>1, <2>5
    <3>2. i + 1 = j + 1
      BY <3>1, <2>3
    <3>3. i \in Int /\ j \in Int
      BY <1>4
    <3> QED
      BY <3>2, <3>3
  <2>6. Msg(t)' \in Untouched' /\ SubjectOf[Msg(t)'] = t
    BY <2>2, <2>3, <1>5, <1>7
  <2>7. \A i \in 1..Len(queue'[t]) : queue'[t][i] # Msg(t)'
    BY <2>1, <2>2, <2>3, <1>5
  <2> QED
    BY <1>9, <2>4, <2>5, <2>6, <2>7
<1> QED
  BY <1>8, <1>9

\* The callback of a subject gets its slot.
LEMMA AcquireStep ==
    ASSUME TypeOK, NEW s \in Subjects, Acquire(s)
    PROVE  /\ callback[s].pc = "select" /\ callback'[s].pc = "acquired"
           /\ Waits(s) /\ Waits(s)' /\ Msg(s)' = Msg(s)
           /\ \A t \in Subjects \ {s} : callback'[t] = callback[t]
           /\ sem' = sem + 1
           /\ UNCHANGED <<delivered, queue, running, left, answers, pod>>
  BY DEF Acquire, TypeOK, Waits, Msg

\* The callback of a subject ends, by the timer, by the context or with the
\* start of its handler.
LEMMA CallbackEnds ==
    ASSUME TypeOK, NEW s \in Subjects, Start(s) \/ Saturated(s) \/ GiveUp(s)
    PROVE  /\ Waits(s) /\ callback'[s] = Free /\ ~Waits(s)'
           /\ \A t \in Subjects \ {s} : callback'[t] = callback[t]
           /\ UNCHANGED <<delivered, queue, sem, left, pod>>
           /\ Msg(s) \in Messages
<1>1. /\ callback' = [callback EXCEPT ![s] = Free] /\ UNCHANGED <<delivered, queue, sem, left, pod>>
      /\ Waits(s)
  BY DEF Start, Saturated, GiveUp, Waits, Respond
<1> QED
  BY <1>1, HeldTypes DEF TypeOK, Waits, Free

\* What the end of a callback does to its message.
LEMMA EndedMessage ==
    ASSUME TypeOK, Held, NEW s \in Subjects, Start(s) \/ Saturated(s) \/ GiveUp(s)
    PROVE  /\ Msg(s) \in Untouched
           /\ \/ Start(s) /\ running' = running \union {Msg(s)} /\ UNCHANGED answers
              \/ Saturated(s) /\ UNCHANGED <<running, answers>>
              \/ /\ Saturated(s)
                 /\ UNCHANGED running
                 /\ answers' = [answers EXCEPT ![Msg(s)] = {"saturated"}]
              \/ GiveUp(s) /\ UNCHANGED <<running, answers>>
<1>1. Waits(s) /\ Msg(s) \in Messages
  BY CallbackEnds
<1>2. Msg(s) \in Untouched
  BY <1>1 DEF Held
<1>3. CASE Start(s)
  BY <1>1, <1>2, <1>3, HeldTypes DEF Start
<1>4. CASE Saturated(s)
  <2>1. answers[Msg(s)] = {} /\ answers \in [Messages -> SUBSET Answers]
    BY <1>2 DEF Untouched, TypeOK
  <2>2. CASE Connected
    BY <1>1, <1>2, <1>4, <2>1, <2>2 DEF Saturated, Respond, Msg
  <2>3. CASE ~Connected
    <3>1. answers' = [answers EXCEPT ![Msg(s)] = answers[Msg(s)]]
      BY <1>4, <2>3 DEF Saturated, Respond, Msg
    <3>2. answers' = answers
      BY <3>1, <2>1, <1>1
    <3> QED
      BY <3>2, <1>2, <1>4 DEF Saturated
  <2> QED
    BY <2>2, <2>3
<1>5. CASE GiveUp(s)
  BY <1>2, <1>5 DEF GiveUp
<1> QED
  BY <1>3, <1>4, <1>5

LEMMA CallbackHeld ==
    ASSUME TypeOK, Held, NEW s \in Subjects, CallbackStep(s)
    PROVE  Held'
<1>1. CASE Acquire(s)
  <2>1. \A t \in Subjects : (Waits(t)' <=> Waits(t)) /\ Msg(t)' = Msg(t)
    BY <1>1, AcquireStep DEF Waits, Msg
  <2>2. UNCHANGED queue /\ Untouched' = Untouched
    BY <1>1, AcquireStep DEF Untouched
  <2>3. /\ \A t \in Subjects : \A i \in 1..Len(queue[t]) : queue'[t][i] \in Untouched'
        /\ \A t \in Subjects : Waits(t)' => Msg(t)' \in Untouched'
    BY <2>1, <2>2 DEF Held
  <2> QED
    BY <2>1, <2>2, <2>3, HeldStays
<1>2. CASE Start(s) \/ Saturated(s) \/ GiveUp(s)
  <2>1. \A t \in Subjects : Waits(t)' => t # s /\ Waits(t) /\ Msg(t)' = Msg(t)
    BY <1>2, CallbackEnds DEF Waits, Msg
  <2>2. UNCHANGED queue
    BY <1>2, CallbackEnds
  <2>3. \A x \in Untouched : x # Msg(s) => x \in Untouched'
    BY <1>2, CallbackEnds, EndedMessage DEF Untouched, TypeOK
  <2>4. Waits(s)
    BY <1>2, CallbackEnds
  <2>5. /\ \A t \in Subjects : \A i \in 1..Len(queue[t]) : queue[t][i] # Msg(s)
        /\ \A t \in Subjects \ {s} : Waits(t) => Msg(t) # Msg(s)
    BY <2>4, InOnePlace
  <2>6. /\ \A t \in Subjects : \A i \in 1..Len(queue[t]) : queue'[t][i] \in Untouched'
        /\ \A t \in Subjects : Waits(t)' => Msg(t)' \in Untouched'
    BY <2>1, <2>2, <2>3, <2>5 DEF Held
  <2>7. \A t \in Subjects : Waits(t)' => Waits(t) /\ Msg(t)' = Msg(t)
    BY <2>1
  <2> QED
    BY <2>2, <2>6, <2>7, HeldStays
<1> QED
  BY <1>1, <1>2 DEF CallbackStep

\* A handler works on a message that is running, so that none that waits
\* changes.
LEMMA HandlerHeld ==
    ASSUME TypeOK, Held, NEW m \in Messages, Handle(m) \/ Finish(m)
    PROVE  Held'
<1>1. m \in running /\ running' \subseteq running /\ UNCHANGED <<queue, callback, delivered>>
  BY DEF Handle, Finish
<1>2. \A x \in Messages \ {m} : left'[x] = left[x] /\ answers'[x] = answers[x]
  BY DEF Handle, Finish, Respond, TypeOK
<1>3. Untouched \subseteq Untouched'
  BY <1>1, <1>2 DEF Untouched, TypeOK
<1>4. \A t \in Subjects : (Waits(t)' <=> Waits(t)) /\ Msg(t)' = Msg(t)
  BY <1>1 DEF Waits, Msg
<1>5. /\ \A t \in Subjects : \A i \in 1..Len(queue[t]) : queue'[t][i] \in Untouched'
      /\ \A t \in Subjects : Waits(t)' => Msg(t)' \in Untouched'
  BY <1>1, <1>3, <1>4 DEF Held
<1> QED
  BY <1>1, <1>4, <1>5, HeldStays

\* Steps that leave the pool alone.
PodStep ==
    Tick \/ BatchDone \/ Signal \/ StopTicker \/ Drained \/ DrainTimeout \/ Close \/ UNCHANGED vars

LEMMA PodKeeps ==
    ASSUME PodStep
    PROVE  UNCHANGED pool
  BY DEF PodStep, Tick, BatchDone, Signal, StopTicker, Drained, DrainTimeout, Close, vars, pool

LEMMA PodHeld ==
    ASSUME Held, TypeOK, PodStep
    PROVE  Held'
<1>1. UNCHANGED <<delivered, queue, callback, running, left, answers>>
  BY PodKeeps DEF pool
<1>2. Untouched' = Untouched
  BY <1>1 DEF Untouched
<1>3. \A t \in Subjects : (Waits(t)' <=> Waits(t)) /\ Msg(t)' = Msg(t)
  BY <1>1 DEF Waits, Msg
<1>4. /\ \A t \in Subjects : \A i \in 1..Len(queue[t]) : queue'[t][i] \in Untouched'
      /\ \A t \in Subjects : Waits(t)' => Msg(t)' \in Untouched'
  BY <1>1, <1>2, <1>3 DEF Held
<1> QED
  BY <1>1, <1>3, <1>4, HeldStays

\* The queues are emptied, and with Exit the callbacks too.
LEMMA EmptiedHeld ==
    ASSUME TypeOK, Held, Unsubscribe \/ Exit
    PROVE  Held'
<1>1. \A t \in Subjects : queue'[t] = << >>
  BY DEF Unsubscribe, Exit
<1>2. \A t \in Subjects : 1..Len(queue'[t]) = {}
  BY <1>1
<1>3. CASE Unsubscribe
  <2>1. Untouched' = Untouched
    BY <1>3 DEF Unsubscribe, Untouched
  <2>2. \A t \in Subjects : (Waits(t)' <=> Waits(t)) /\ Msg(t)' = Msg(t)
    BY <1>3 DEF Unsubscribe, Waits, Msg
  <2> QED
    BY <1>2, <2>1, <2>2 DEF Held
<1>4. CASE Exit
  <2>1. \A t \in Subjects : ~Waits(t)'
    BY <1>4 DEF Exit, Waits, Free
  <2> QED
    BY <1>2, <2>1 DEF Held
<1> QED
  BY <1>3, <1>4

LEMMA HeldStep ==
    ASSUME TypeOK, Held, Answering, [Next]_vars
    PROVE  Held'
<1>1. CASE \E m \in Messages : Deliver(m)
  BY <1>1, DeliverHeld
<1>2. CASE \E m \in Messages : Handle(m) \/ Finish(m)
  BY <1>2, HandlerHeld
<1>3. CASE \E s \in Subjects : Call(s)
  BY <1>3, CallHeld
<1>4. CASE \E s \in Subjects : CallbackStep(s)
  BY <1>4, CallbackHeld
<1>5. CASE PodStep
  BY <1>5, PodHeld
<1>6. CASE Unsubscribe \/ Exit
  BY <1>6, EmptiedHeld
<1> QED
  BY <1>1, <1>2, <1>3, <1>4, <1>5, <1>6 DEF Next, Shutdown, PodStep

-----------------------------------------------------------------------------
(***************************************************************************)
(* Answers                                                                 *)
(***************************************************************************)

LEMMA CallbackAnswers ==
    ASSUME TypeOK, Held, Answering, NEW s \in Subjects, CallbackStep(s)
    PROVE  Answering'
<1>1. CASE Acquire(s)
  BY <1>1, AcquireStep DEF Answering
<1>2. CASE Start(s) \/ Saturated(s) \/ GiveUp(s)
  <2>1. Msg(s) \in Messages /\ UNCHANGED <<delivered, left>>
    BY <1>2, CallbackEnds
  <2>2. Msg(s) \in Untouched
    BY <1>2, EndedMessage
  <2>3. CASE running' = running \union {Msg(s)} /\ UNCHANGED answers
    BY <2>1, <2>2, <2>3 DEF Answering, Untouched
  <2>4. CASE UNCHANGED <<running, answers>>
    BY <2>1, <2>4 DEF Answering
  <2>5. CASE UNCHANGED running /\ answers' = [answers EXCEPT ![Msg(s)] = {"saturated"}]
    <3>1. /\ answers'[Msg(s)] = {"saturated"}
          /\ \A m \in Messages : m # Msg(s) => answers'[m] = answers[m]
      BY <2>1, <2>5 DEF TypeOK
    <3> QED
      BY <2>1, <2>2, <2>5, <3>1 DEF Answering, Untouched, TypeOK
  <2> QED
    BY <1>2, <2>3, <2>4, <2>5, EndedMessage
<1> QED
  BY <1>1, <1>2 DEF CallbackStep

LEMMA HandlerAnswers ==
    ASSUME TypeOK, Answering, NEW m \in Messages, Handle(m) \/ Finish(m)
    PROVE  Answering'
<1>1. m \in running /\ m \in delivered /\ answers[m] = {} /\ UNCHANGED delivered
  BY DEF Handle, Finish, TypeOK, Answering
<1>2. CASE Handle(m)
  <2>1. \A x \in Messages \ {m} : left'[x] = left[x]
    BY <1>2 DEF Handle, TypeOK
  <2> QED
    BY <1>1, <1>2, <2>1 DEF Handle, Answering
<1>3. CASE Finish(m)
  <2>1. /\ \A x \in Messages \ {m} : answers'[x] = answers[x]
        /\ answers'[m] \in {{}, {"reply"}}
    BY <1>1, <1>3 DEF Finish, Respond, TypeOK
  <2>2. UNCHANGED left /\ running' = running \ {m}
    BY <1>3 DEF Finish
  <2> QED
    BY <1>1, <2>1, <2>2 DEF Answering, TypeOK
<1> QED
  BY <1>2, <1>3

LEMMA AnsweringStep ==
    ASSUME TypeOK, Held, Answering, [Next]_vars
    PROVE  Answering'
<1>1. CASE \E m \in Messages : Deliver(m)
  BY <1>1 DEF Deliver, Answering
<1>2. CASE \E m \in Messages : Handle(m) \/ Finish(m)
  BY <1>2, HandlerAnswers
<1>3. CASE \E s \in Subjects : Call(s)
  BY <1>3 DEF Call, Answering
<1>4. CASE \E s \in Subjects : CallbackStep(s)
  BY <1>4, CallbackAnswers
<1>5. CASE PodStep
  BY <1>5, PodKeeps DEF pool, Answering
<1>6. CASE Unsubscribe
  BY <1>6 DEF Unsubscribe, Answering
<1>7. CASE Exit
  BY <1>7 DEF Exit, Answering
<1> QED
  BY <1>1, <1>2, <1>3, <1>4, <1>5, <1>6, <1>7 DEF Next, Shutdown, PodStep

-----------------------------------------------------------------------------
(***************************************************************************)
(* Slots                                                                   *)
(***************************************************************************)

LEMMA SlotsStep ==
    ASSUME TypeOK, Held, Slots, [Next]_vars
    PROVE  Slots'
<1> DEFINE k == Cardinality(running)
           a == Cardinality(Acquired)
<1>0. /\ IsFiniteSet(running) /\ k \in Nat /\ a \in Nat /\ IsFiniteSet(Acquired)
      /\ sem = k + a
  BY AcquiredFinite, FS_CardinalityType DEF Slots, SlotsConserved
<1> HIDE DEF k, a
<1>1. CASE \E m \in Messages : Deliver(m)
  BY <1>1 DEF Deliver, Slots, SlotsConserved, Acquired
<1>2. CASE \E m \in Messages : Handle(m)
  BY <1>2 DEF Handle, Slots, SlotsConserved, Acquired
<1>3. CASE \E m \in Messages : Finish(m)
  <2>1. PICK m \in Messages : Finish(m)
    BY <1>3
  <2>2. m \in running /\ running' = running \ {m} /\ Acquired' = Acquired
    BY <2>1 DEF Finish, Acquired
  <2>3. IsFiniteSet(running') /\ Cardinality(running') = k - 1
    BY <1>0, <2>2, FS_RemoveElement DEF k
  <2>4. Cardinality(Acquired') = a
    BY <2>2 DEF a
  <2>5. sem' = Cardinality(running') + Cardinality(Acquired')
    BY <1>0, <2>1, <2>3, <2>4 DEF Finish
  <2> QED
    BY <2>3, <2>5 DEF Slots, SlotsConserved
<1>4. CASE \E s \in Subjects : Call(s)
  <2>1. PICK s \in Subjects : Call(s)
    BY <1>4
  <2>2. Acquired' = Acquired /\ UNCHANGED <<running, sem>>
    BY <2>1 DEF Call, Acquired, TypeOK, Free
  <2> QED
    BY <2>2 DEF Slots, SlotsConserved
<1>5. CASE \E s \in Subjects : Acquire(s)
  <2>1. PICK s \in Subjects : Acquire(s)
    BY <1>5
  <2>2. s \notin Acquired /\ Acquired' = Acquired \union {s} /\ UNCHANGED running
    BY <2>1, AcquireStep DEF Acquired
  <2>3. sem' = sem + 1
    BY <2>1 DEF Acquire
  <2>4. Cardinality(Acquired') = a + 1
    BY <1>0, <2>2, FS_AddElement DEF a
  <2>5. IsFiniteSet(running') /\ Cardinality(running') = k
    BY <1>0, <2>2 DEF k
  <2>6. sem' = Cardinality(running') + Cardinality(Acquired')
    BY <1>0, <2>3, <2>4, <2>5
  <2> QED
    BY <2>5, <2>6 DEF Slots, SlotsConserved
<1>6. CASE \E s \in Subjects : Start(s)
  <2>1. PICK s \in Subjects : Start(s)
    BY <1>6
  <2>2. s \in Acquired /\ Acquired' = Acquired \ {s}
    <3>1. callback[s].pc = "acquired"
      BY <2>1 DEF Start
    <3>2. callback'[s].pc = "free" /\ \A t \in Subjects \ {s} : callback'[t] = callback[t]
      BY <2>1, CallbackEnds DEF Free
    <3> QED
      BY <3>1, <3>2 DEF Acquired
  <2>3. Msg(s) \in Untouched
    BY <2>1, EndedMessage
  <2>4. Msg(s) \notin running /\ running' = running \union {Msg(s)}
    BY <2>1, <2>3, CallbackEnds, HeldTypes DEF Untouched, Start
  <2>5. IsFiniteSet(running') /\ Cardinality(running') = k + 1
    BY <1>0, <2>4, FS_AddElement DEF k
  <2>6. Cardinality(Acquired') = a - 1
    BY <1>0, <2>2, FS_RemoveElement DEF a
  <2>7. sem' = Cardinality(running') + Cardinality(Acquired')
    BY <1>0, <2>1, <2>5, <2>6, CallbackEnds
  <2> QED
    BY <2>5, <2>7 DEF Slots, SlotsConserved
<1>7. CASE \E s \in Subjects : Saturated(s) \/ GiveUp(s)
  <2>1. PICK s \in Subjects : Saturated(s) \/ GiveUp(s)
    BY <1>7
  <2>2. callback[s].pc = "select" /\ UNCHANGED <<running, sem>>
    BY <2>1 DEF Saturated, GiveUp
  <2>3. Acquired' = Acquired
    BY <2>1, <2>2, CallbackEnds DEF Acquired, Free
  <2> QED
    BY <2>2, <2>3 DEF Slots, SlotsConserved
<1>8. CASE PodStep
  BY <1>8, PodKeeps DEF pool, Slots, SlotsConserved, Acquired
<1>9. CASE Unsubscribe
  BY <1>9 DEF Unsubscribe, Slots, SlotsConserved, Acquired
<1>10. CASE Exit
  <2>1. running' = {} /\ Acquired' = {} /\ sem' = 0
    BY <1>10 DEF Exit, Acquired, Free
  <2>2. IsFiniteSet(running') /\ Cardinality(running') = 0 /\ Cardinality(Acquired') = 0
    BY <2>1, FS_EmptySet
  <2>3. sem' = Cardinality(running') + Cardinality(Acquired')
    BY <2>1, <2>2
  <2> QED
    BY <2>2, <2>3 DEF Slots, SlotsConserved
<1> QED
  BY <1>1, <1>2, <1>3, <1>4, <1>5, <1>6, <1>7, <1>8, <1>9, <1>10
     DEF Next, Shutdown, PodStep, CallbackStep

-----------------------------------------------------------------------------
(***************************************************************************)
(* The theorems                                                            *)
(***************************************************************************)

LEMMA InitHolds == Init => IInv
<1> SUFFICES ASSUME Init PROVE IInv
  OBVIOUS
<1>1. TypeOK
  <2>1. << >> \in Seq(Messages)
    BY EmptySeq
  <2>2. queue \in [Subjects -> Seq(Messages)]
    BY <2>1 DEF Init
  <2>3. 0 \in 0..BatchSlots /\ 0 \in 0..MaxWorkers
    BY PoolAssumption
  <2> QED
    BY <2>2, <2>3, PoolAssumption DEF Init, TypeOK, MainStates
<1>2. \A s \in Subjects : 1..Len(queue[s]) = {} /\ ~Waits(s)
  BY DEF Init, Waits, Free
<1>3. Held
  BY <1>2 DEF Held
<1>4. Answering
  BY DEF Init, Answering
<1>5. Acquired = {} /\ running = {} /\ sem = 0
  BY DEF Init, Acquired, Free
<1>6. Slots
  BY <1>5, FS_EmptySet DEF Slots, SlotsConserved
<1> QED
  BY <1>1, <1>3, <1>4, <1>6 DEF IInv

LEMMA StepKeeps == IInv /\ [Next]_vars => IInv'
  BY TypeStep, HeldStep, AnsweringStep, SlotsStep DEF IInv

LEMMA Inductive == Spec => []IInv
  BY InitHolds, StepKeeps, PTL DEF Spec

\* A pod's queues, callbacks, handlers, answers and states of main are what
\* they should be: every message that is handled was delivered.
THEOREM TypeCorrect == Spec => []TypeOK
<1>1. IInv => TypeOK
  BY DEF IInv
<1> QED
  BY <1>1, Inductive, PTL

\* workerSem holds one slot for each callback on its way to the go statement
\* and for each handler, for any number of messages, subjects and slots:
\* startSubscriptions neither loses a slot nor gives one back twice.
THEOREM SlotsAreConserved == Spec => []SlotsConserved
<1>1. IInv => SlotsConserved
  BY DEF IInv, Slots
<1> QED
  BY <1>1, Inductive, PTL

\* The two subscriptions together never run more handlers than workerSem has
\* room for: what a slot per holder and the capacity of the channel give.
COROLLARY HandlersBounded == Spec => [](Cardinality(running) <= MaxWorkers)
<1>1. ASSUME IInv
      PROVE  Cardinality(running) <= MaxWorkers
  <2>1. Cardinality(running) \in Nat /\ Cardinality(Acquired) \in Nat
    BY <1>1, AcquiredFinite, FS_CardinalityType DEF IInv, Slots
  <2>2. sem <= MaxWorkers /\ sem = Cardinality(running) + Cardinality(Acquired)
    BY <1>1 DEF IInv, TypeOK, Slots, SlotsConserved
  <2>3. MaxWorkers \in Nat
    BY PoolAssumption
  <2> QED
    BY <2>1, <2>2, <2>3
<1> QED
  BY <1>1, Inductive, PTL

\* What startSubscriptions answers with "worker pool saturated" was not
\* handled by this pod, is not handled by it and waits nowhere in it.
THEOREM RejectedIsFinal == Spec => []RejectedNeverHandled
<1>1. ASSUME IInv
      PROVE  RejectedNeverHandled
  <2> SUFFICES ASSUME NEW m \in Messages, "saturated" \in answers[m]
               PROVE  /\ answers[m] = {"saturated"}
                      /\ left[m] = Queries[m]
                      /\ m \notin running \union UNION {ToSet(callback[s].msg) : s \in Subjects}
    BY DEF RejectedNeverHandled
  <2>1. answers[m] = {"saturated"} /\ left[m] = Queries[m] /\ m \notin running
    BY <1>1 DEF IInv, Answering
  <2>2. ASSUME NEW s \in Subjects
        PROVE  m \notin ToSet(callback[s].msg)
    <3>1. CASE Waits(s)
      <4>1. Msg(s) # m
        BY <1>1, <3>1, <2>1 DEF IInv, Held, Untouched
      <4>2. ToSet(callback[s].msg) = {Msg(s)}
        BY <1>1, <3>1, HeldTypes DEF IInv
      <4> QED
        BY <4>1, <4>2
    <3>2. CASE ~Waits(s)
      <4>1. callback[s] = Free
        BY <1>1, <3>2, HeldTypes DEF IInv
      <4>2. ToSet(callback[s].msg) = {}
        BY <4>1 DEF Free, ToSet
      <4> QED
        BY <4>2
    <3> QED
      BY <3>1, <3>2
  <2> QED
    BY <2>1, <2>2
<1> QED
  BY <1>1, Inductive, PTL

=============================================================================
