----------------------------- MODULE Strategies -----------------------------
(***************************************************************************)
(* The ways of this repository to hand out seats by the same ranking,      *)
(* applied one after the other to the same students: the four strategies   *)
(* of the experiment web-registeter/files(2)/main.go, and the order in     *)
(* which processPendingBatch of db.go gives a batch to Solve.              *)
(*                                                                         *)
(* runFIFO, runRuleBased and runTopsisOnly only look at the section a      *)
(* student prefers; runHybrid and the batch run AllocationOptimizer.Solve  *)
(* with an edge for the alternative too.  Its local search is left out: on *)
(* such edges it never swaps (NeverSwaps of AllocationOptimizer).          *)
(***************************************************************************)
EXTENDS Allocation, Ranking

CONSTANTS
    Populations,    \* what generateData may return: [students, capacity]
    NoSection       \* AltSec = ""

Student ==
    [id : Students, course : Courses, primary : Sections,
     alt : Sections \union {NoSection}, mandatory : Nat, risk : Nat, waited : Nat,
     alternatives : Nat, submittedAt : Nat, closeness : Nat]

\* The sections a student names.
Named(s) == {s.primary, s.alt} \ {NoSection}

\* generateData: each student once, two different sections of one course, and
\* sections that belong to one course.
ASSUME PopulationsAssumption ==
    /\ NoSection \notin Sections
    /\ \A p \in Populations :
           /\ p.students \in Seq(Student)
           /\ p.capacity \in [Sections -> Nat]
           /\ \A i, j \in DOMAIN p.students :
                  p.students[i].id = p.students[j].id => i = j
           /\ \A a, b \in Range(p.students) :
                  /\ a.primary # a.alt
                  /\ Named(a) \intersect Named(b) # {} => a.course = b.course

VARIABLES
    population, \* the students and the seats of the sections
    running,    \* the strategy at work, or "none"
    queue,      \* the edges it has not looked at, in its order
    plan,       \* capLeft and confirmed; Solve's other locals for the last two
    results     \* the confirmed lists of the strategies that are done

vars == <<population, running, queue, plan, results>>

\* The rows of runMatrix, and the batch.
Names == <<"FIFO", "Rule-based", "TOPSIS", "Hybrid", "Batch">>

-----------------------------------------------------------------------------

PrimaryEdge(s) ==
    [student |-> s.id, course |-> s.course, section |-> s.primary, score |-> s.closeness]

Primaries(students) == [i \in DOMAIN students |-> PrimaryEdge(students[i])]

\* Mutated form of EdgesOf: the alternative first.
EdgesOfAltFirst(s) ==
    IF s.alt = NoSection THEN <<PrimaryEdge(s)>>
    ELSE <<[PrimaryEdge(s) EXCEPT !.section = s.alt], PrimaryEdge(s)>>

\* The edge of a student's first choice, then the one of the alternative.
EdgesOf(s) ==
    IF s.alt = NoSection THEN <<PrimaryEdge(s)>>
    ELSE <<PrimaryEdge(s), [PrimaryEdge(s) EXCEPT !.section = s.alt]>>

AllEdges(students) == FlattenSeq([i \in DOMAIN students |-> EdgesOf(students[i])])

Submitted(a, b) == a.submittedAt < b.submittedAt

\* The fixed rule of runRuleBased.
Ruled(a, b) ==
    \/ a.mandatory > b.mandatory
    \/ a.mandatory = b.mandatory /\ a.risk > b.risk
    \/ a.mandatory = b.mandatory /\ a.risk = b.risk /\ a.waited > b.waited

\* Mutated form of HigherScore: the lower score first.
LowerScore(e, f) == e.score < f.score

\* The sort at the head of Solve.
HigherScore(e, f) == e.score > f.score

\* toRequests: SubmittedAt is the time of the conversion, so the position.
ToRequests(students) ==
    [i \in DOMAIN students |-> [students[i] EXCEPT !.submittedAt = i]]

-----------------------------------------------------------------------------

Init ==
    /\ population \in Populations
    /\ running = "none"
    /\ queue = << >>
    /\ plan = EmptyPlan(population.capacity)
    /\ results = << >>

\* Mutated form of Start: the seats the strategies before have left.
StartWithLeftovers(name, orders) ==
    /\ running = "none"
    /\ Len(results) < Len(Names) /\ Names[Len(results) + 1] = name
    /\ running' = name
    /\ queue' \in orders
    /\ plan' = EmptyPlan(plan.capLeft)
    /\ UNCHANGED <<population, results>>

\* runMatrix calls the next strategy, which starts from its own copy of the
\* capacities.
Start(name, orders) ==
    /\ running = "none"
    /\ Len(results) < Len(Names) /\ Names[Len(results) + 1] = name
    /\ running' = name
    /\ queue' \in orders
    /\ plan' = EmptyPlan(population.capacity)
    /\ UNCHANGED <<population, results>>

RunFIFO == Start("FIFO", {Primaries(SortStable(population.students, Submitted))})

RunRuleBased == Start("Rule-based", {Primaries(SortStable(population.students, Ruled))})

RunTopsisOnly ==
    Start("TOPSIS", {Primaries(ranked) :
                        ranked \in InMapOrder(RankByCourse(ToRequests(population.students)))})

\* The edges are made in the order of the students, not of the ranking.
RunHybrid == Start("Hybrid", {SortStable(AllEdges(population.students), HigherScore)})

\* The edges are made in the order of the ranking, and SubmittedAt is the
\* ngay_dang_ky of the row.
Batch ==
    Start("Batch", {SortStable(AllEdges(ranked), HigherScore) :
                       ranked \in InMapOrder(RankByCourse(population.students))})

\* One turn of the loops of the first three strategies.
TakeSeat(p, e) ==
    IF p.capLeft[e.section] > 0
    THEN [p EXCEPT !.capLeft[e.section] = @ - 1, !.confirmed = Append(@, e)]
    ELSE p

Serve ==
    /\ running # "none" /\ queue # << >>
    /\ plan' = IF running \in {"Hybrid", "Batch"}
               THEN Consider(plan, Head(queue), {})
               ELSE TakeSeat(plan, Head(queue))
    /\ queue' = Tail(queue)
    /\ UNCHANGED <<population, running, results>>

Return ==
    /\ running # "none" /\ queue = << >>
    /\ results' = Append(results, plan.confirmed)
    /\ running' = "none"
    /\ UNCHANGED <<population, queue, plan>>

Next ==
    \/ RunFIFO \/ RunRuleBased \/ RunTopsisOnly \/ RunHybrid \/ Batch
    \/ Serve \/ Return

Spec == Init /\ [][Next]_vars

-----------------------------------------------------------------------------

\* The parts of the state have their types, and no student is confirmed
\* twice by one strategy, although the first three keep no assignedCourse.
TypeOK ==
    /\ population.students \in Seq(Student)
    /\ population.capacity \in [Sections -> Nat]
    /\ running \in {"none"} \union Range(Names)
    /\ queue \in Seq(Edge)
    /\ plan \in Plan
    /\ results \in Seq(Seq(Edge))
    /\ \A i, j \in DOMAIN plan.confirmed :
           plan.confirmed[i].student = plan.confirmed[j].student => i = j

Done(name) == \E i \in DOMAIN results : Names[i] = name

Result(name) == results[CHOOSE i \in DOMAIN results : Names[i] = name]

Served(name, section) == {e \in Range(Result(name)) : e.section = section}

Demand(section) ==
    {i \in DOMAIN population.students : population.students[i].primary = section}

\* What the comparison of the experiment counts: the order of a strategy
\* decides who is served, never how many.  Each of the three that look at one
\* section fills it up to its demand, and the hybrid and the batch, which also
\* give out alternatives, leave no section emptier than the others do.  Who
\* sits in it may well change: a student whose own section is full can take
\* the last seat of another's first choice (DisplacedFairly).
HybridServesAtLeast ==
    \A section \in Sections :
        /\ \A name \in {"FIFO", "Rule-based", "TOPSIS"} :
               Done(name) => Cardinality(Served(name, section))
                               = Min({population.capacity[section],
                                      Cardinality(Demand(section))})
        /\ \A name \in {"Hybrid", "Batch"} :
               Done(name) => Cardinality(Served(name, section))
                               >= Cardinality(Served("TOPSIS", section))

\* The students who got nothing.
Refused(name) ==
    {s \in Range(population.students) :
        \A e \in Range(Result(name)) : e.student # s.id}

\* The students of a strategy in a section, with all they asked for.
Holders(name, section) ==
    {s \in Range(population.students) :
        \E e \in Served(name, section) : e.student = s.id}

\* The students who did not get their first choice: refused, or moved to the
\* alternative.
Displaced(name) ==
    {s \in Range(population.students) : PrimaryEdge(s) \notin Range(Result(name))}

\* The closeness of a holder h and of a refused r: in order where Solve sorts
\* the edges, and up to one tolerance for each place in the pool where the
\* order is the one of the intransitive comparison.
CloseEnough(students, name, h, r) ==
    h.closeness >= r.closeness
        - (IF name = "TOPSIS"
           THEN Tolerance * (Len(Pool(ToRequests(students), r.course)) - 1)
           ELSE 0)

\* Seats go by closeness: whoever is refused sees a section of students who
\* are close enough.
SeatsGoByCloseness ==
    \A name \in {"TOPSIS", "Hybrid", "Batch"} : Done(name) =>
        \A r \in Refused(name) : \A h \in Holders(name, r.primary) :
            CloseEnough(population.students, name, h, r)

\* Alternatives compete with first choices in the hybrid and in the batch, at
\* the same score.  Nobody loses a first choice to them but to students at
\* least as close, and none while the section has a seat left: neither the
\* refused nor those whom the order of the edges moved to their alternative.
DisplacedFairly ==
    \A name \in {"Hybrid", "Batch"} : Done(name) =>
        \A r \in Displaced(name) :
            /\ Cardinality(Served(name, r.primary)) = population.capacity[r.primary]
            /\ \A h \in Holders(name, r.primary) : h.closeness >= r.closeness

\* No three requests of a pool where two are near a third and not to each
\* other.
NearIsTransitive(students) ==
    \A a, b, c \in Range(students) :
        a.course = b.course /\ b.course = c.course /\ Near(a, b) /\ Near(b, c)
          => Near(a, c)

\* The tie-break does not put a refused r before a holder h with the same
\* first choice: in the batch if they are equally close, in runTopsisOnly if
\* they are near, with the order of the students for the time.
TieKept(name, h, r) ==
    /\ r.primary = h.primary
    /\ IF name = "TOPSIS" THEN Near(r, h) ELSE r.closeness = h.closeness
    => \/ ~TieBreak(r, h)
       \/ /\ name = "TOPSIS"
          /\ r.risk = h.risk /\ r.waited = h.waited /\ r.alternatives = h.alternatives

\* The tie-break decides among the students who compete for a section, unless
\* three of them chain.
TieBreakKept ==
    NearIsTransitive(population.students) =>
        \A name \in {"TOPSIS", "Batch"} : Done(name) =>
            \A r \in Refused(name) : \A h \in Holders(name, r.primary) :
                TieKept(name, h, r)

=============================================================================
