------------------------ MODULE AllocationOptimizer ------------------------
(***************************************************************************)
(* AllocationOptimizer.Solve of web-registeter/db/db.go as a state         *)
(* machine: a stable sort of the edges by descending score, a greedy loop  *)
(* that confirms or waitlists one edge at a time, and a local search that  *)
(* swaps the sections of two confirmed students of one course while a swap *)
(* raises the total score, at most MaxIter times.                          *)
(*                                                                         *)
(* Scores are integers: Solve only compares and adds them, and the         *)
(* tolerance 1e-9 becomes "greater than 0".                                *)
(***************************************************************************)
EXTENDS Allocation

CONSTANTS
    Inputs,     \* the calls: [edges, capacity, conflicts]
    MaxIter     \* o.MaxSwapIter, 500 when it is not set

Input == [edges     : Seq(Edge),
          capacity  : [Sections -> Nat],
          conflicts : SUBSET (Sections \X Sections)]

ASSUME InputsAssumption == Inputs \subseteq Input
ASSUME MaxIterAssumption == MaxIter \in Nat \ {0}

VARIABLES
    input,      \* the receiver and the argument of Solve
    todo,       \* the positions of the edges the greedy loop has not reached
    plan,       \* capLeft, assignedCourse, studentSections, confirmed, waitlist
    iter,       \* rounds of the local search that ended in a swap
    phase       \* "greedy", "search" or "done"

vars == <<input, todo, plan, iter, phase>>

Phases == {"greedy", "search", "done"}

-----------------------------------------------------------------------------

\* Mutated form of IsNext: ascending order.
IsNextAscending(k) ==
    /\ k \in todo
    /\ \A m \in todo : \/ input.edges[m].score > input.edges[k].score
                      \/ /\ input.edges[m].score = input.edges[k].score
                         /\ k <= m

\* The edge the greedy loop takes next: of those it has not reached, the one
\* a stable sort by descending score (sort.SliceStable) puts first.
IsNext(k) ==
    /\ k \in todo
    /\ \A m \in todo : \/ input.edges[m].score < input.edges[k].score
                      \/ /\ input.edges[m].score = input.edges[k].score
                         /\ k <= m

\* The positions of the edges of a student to a section.
Hits(edges, student, section) ==
    {i \in 1..Len(edges) : edges[i].student = student /\ edges[i].section = section}

\* scoreOf[student][section]: the last edge wins, a missing entry is 0.
ScoreIn(edges, student, section) ==
    LET hits == Hits(edges, student, section)
    IN  IF hits = {} THEN 0
        ELSE edges[CHOOSE i \in hits : \A j \in hits : j <= i].score

ScoreOf(student, section) == ScoreIn(input.edges, student, section)

\* Mutated form of Gain: what the first student wins, without the second.
GainOfFirst(a, b) ==
    ScoreOf(a.student, b.section) - ScoreOf(a.student, a.section)

Gain(a, b) ==
    (ScoreOf(a.student, b.section) + ScoreOf(b.student, a.section))
      - (ScoreOf(a.student, a.section) + ScoreOf(b.student, b.section))

\* One direction of swapFeasible: a may give up its section for sec.
MayMove(a, sec) ==
    \A existing \in plan.studentSections[a.student] \ {a.section} :
        <<sec, existing>> \notin input.conflicts

SwapFeasible(a, b) == MayMove(a, b.section) /\ MayMove(b, a.section)

\* Mutated form of Improves: a swap that gains nothing is taken too.
ImprovesOrTies(i, j) ==
    LET a == plan.confirmed[i]
        b == plan.confirmed[j]
    IN  /\ a.course = b.course
        /\ a.section # b.section
        /\ Gain(a, b) >= 0
        /\ SwapFeasible(a, b)

\* The test of the double loop on positions i < j of confirmed.
Improves(i, j) ==
    LET a == plan.confirmed[i]
        b == plan.confirmed[j]
    IN  /\ a.course = b.course
        /\ a.section # b.section
        /\ Gain(a, b) > 0
        /\ SwapFeasible(a, b)

Pairs == {p \in (1..Len(plan.confirmed)) \X (1..Len(plan.confirmed)) : p[1] < p[2]}

Improving == {p \in Pairs : Improves(p[1], p[2])}

\* The double loop stops at the first improving pair in its order.
IsFirst(p) ==
    /\ p \in Improving
    /\ \A r \in Improving : p[1] < r[1] \/ (p[1] = r[1] /\ p[2] <= r[2])

\* An assignment after a swap: another section, and the score the student has
\* there.
Moved(a, section) ==
    [student |-> a.student, course |-> a.course, section |-> section,
     score |-> ScoreOf(a.student, section)]

\* applySwap: the two assignments exchange sections; the sets of sections
\* follow.
Swapped(i, j) ==
    LET a == plan.confirmed[i]
        b == plan.confirmed[j]
        left == [plan.studentSections EXCEPT ![a.student] = @ \ {a.section}]
        gone == [left EXCEPT ![b.student] = @ \ {b.section}]
        took == [gone EXCEPT ![a.student] = @ \union {b.section}]
    IN  [plan EXCEPT
            !.studentSections = [took EXCEPT ![b.student] = @ \union {a.section}],
            !.confirmed = [@ EXCEPT ![i] = Moved(a, b.section),
                                    ![j] = Moved(b, a.section)]]

-----------------------------------------------------------------------------

Init ==
    /\ input \in Inputs
    /\ todo = 1..Len(input.edges)
    /\ plan = EmptyPlan(input.capacity)
    /\ iter = 0
    /\ phase = "greedy"

\* One turn of the greedy loop over the sorted edges.
Greedy ==
    /\ phase = "greedy"
    /\ \E k \in todo :
           /\ IsNext(k)
           /\ plan' = Consider(plan, input.edges[k], input.conflicts)
           /\ todo' = todo \ {k}
    /\ UNCHANGED <<input, iter, phase>>

StartSearch ==
    /\ phase = "greedy"
    /\ todo = {}
    /\ phase' = "search"
    /\ UNCHANGED <<input, todo, plan, iter>>

\* One round of the local search that finds an improving pair.
Swap ==
    /\ phase = "search"
    /\ iter < MaxIter
    /\ \E p \in Pairs :
           /\ IsFirst(p)
           /\ plan' = Swapped(p[1], p[2])
    /\ iter' = iter + 1
    /\ UNCHANGED <<input, todo, phase>>

\* The round that finds none, or the bound on the rounds.  The waitlist was
\* filled in descending order, so the stable sort after the loop keeps it.
Return ==
    /\ phase = "search"
    /\ iter = MaxIter \/ Improving = {}
    /\ phase' = "done"
    /\ UNCHANGED <<input, todo, plan, iter>>

Next == Greedy \/ StartSearch \/ Swap \/ Return

Spec == Init /\ [][Next]_vars

-----------------------------------------------------------------------------

\* Every part of the state has its type.
TypeOK ==
    /\ input \in Input
    /\ todo \subseteq 1..Len(input.edges)
    /\ plan \in Plan
    /\ iter \in 0..MaxIter
    /\ phase \in Phases

\* The seats handed out in a section and capLeft together are the capacity
\* the section came with, through the greedy loop and every swap, and
\* capLeft never goes below zero: Solve never oversells a section, whatever
\* edges it is given.
CapacityExact ==
    \A sec \in Sections :
        /\ plan.capLeft[sec] >= 0
        /\ plan.capLeft[sec] + Cardinality(SeatsTaken(plan, sec)) = input.capacity[sec]

\* No edge is lost or answered twice: every edge is still to do, confirmed
\* or on the waitlist.
EdgesConserved ==
    Cardinality(todo) + Len(plan.confirmed) + Len(plan.waitlist) = Len(input.edges)

\* What processPendingBatch gives to Solve: a section belongs to one course, no
\* score is negative, and scoreOf holds the same score for a student in every
\* section of one course - both edges of a request carry its score, and a
\* later request for the course overwrites both.
BatchShaped(edges) ==
    \A i, j \in 1..Len(edges) :
        /\ edges[i].score >= 0
        /\ edges[i].section = edges[j].section => edges[i].course = edges[j].course
        /\ edges[i].student = edges[j].student /\ edges[i].course = edges[j].course
             => ScoreIn(edges, edges[i].student, edges[i].section)
                  = ScoreIn(edges, edges[j].student, edges[j].section)

\* The student of every edge made one request for its course, as rowByKey has
\* it when no student has two pending rows of one course: the edges of a
\* student and course carry the score of that request and stand next to each
\* other.
OneRequestPerCourse(edges) ==
    \A i, j \in 1..Len(edges) :
        edges[i].student = edges[j].student /\ edges[i].course = edges[j].course
        => /\ edges[i].score = edges[j].score
           /\ \A k \in i..j :
                  edges[k].student = edges[i].student /\ edges[k].course = edges[i].course

\* No student asks twice for a section, so that scoreOf holds the score of
\* every edge and not only of the last one.
AskedOnce(edges) ==
    \A i, j \in 1..Len(edges) :
        edges[i].student = edges[j].student /\ edges[i].section = edges[j].section => i = j

Holds(student, course) ==
    \E i \in 1..Len(plan.confirmed) :
        plan.confirmed[i].student = student /\ plan.confirmed[i].course = course

Clashes(e) ==
    \E existing \in plan.studentSections[e.student] :
        <<e.section, existing>> \in input.conflicts

\* Priority is respected in a batch: a student who is waitlisted for a section
\* and got nothing in that course, with no clash in the way, sees a full
\* section whose every seat went to a score at least as high.
NoJustifiedEnvy ==
    BatchShaped(input.edges) =>
        \A k \in 1..Len(plan.waitlist) :
            LET e == plan.waitlist[k]
            IN  ~Holds(e.student, e.course) /\ ~Clashes(e)
                  => /\ plan.capLeft[e.section] = 0
                     /\ \A i \in SeatsTaken(plan, e.section) :
                            plan.confirmed[i].score >= e.score

\* No student with one request for each course ends up with two seats of one
\* course, although assignedCourse remembers the last course only.
OneSectionPerCourse ==
    BatchShaped(input.edges) /\ OneRequestPerCourse(input.edges) =>
        \A i, j \in 1..Len(plan.confirmed) :
            /\ plan.confirmed[i].student = plan.confirmed[j].student
            /\ plan.confirmed[i].course = plan.confirmed[j].course
            => i = j

\* No student holds two sections that conflict, also after swaps, which
\* check the sections of both students against the set studentSections.
NoClash ==
    \A i, j \in 1..Len(plan.confirmed) :
        /\ plan.confirmed[i].student = plan.confirmed[j].student
        /\ i # j
        => <<plan.confirmed[i].section, plan.confirmed[j].section>> \notin input.conflicts

\* When Solve returns, no exchange of two confirmed students of a course
\* whose new sections suit both would raise the total score: the search
\* stopped at a local optimum and not at its bound.
LocalOptimum ==
    phase = "done" =>
        \A i, j \in 1..Len(plan.confirmed) :
            LET a == plan.confirmed[i]
                b == plan.confirmed[j]
            IN  /\ a.course = b.course
                /\ ScoreOf(a.student, b.section) + ScoreOf(b.student, a.section)
                     > a.score + b.score
                => ~SwapFeasible(a, b)

\* The waitlist is in descending order of score as it is filled, so that the
\* final stable sort changes nothing.
WaitlistSorted ==
    \A k, m \in 1..Len(plan.waitlist) :
        k <= m => plan.waitlist[k].score >= plan.waitlist[m].score

\* The objective of the local search: the scores of the confirmed edges.
Total(confirmed) ==
    LET sum[k \in 0..Len(confirmed)] ==
            IF k = 0 THEN 0 ELSE sum[k - 1] + confirmed[k].score
    IN  sum[Len(confirmed)]

\* Every swap strictly raises the total of the scores recorded in confirmed,
\* although the gain is computed from scoreOf: the search cannot go in
\* circles, whatever MaxSwapIter is.
ScoreRises ==
    [][phase = "search" /\ plan' # plan
         => Total(plan'.confirmed) > Total(plan.confirmed)]_vars

\* On the edges of a batch the local search finds nothing to swap: what the
\* greedy loop confirmed is the result.
NeverSwaps == [][BatchShaped(input.edges) => ~Swap]_vars

=============================================================================
