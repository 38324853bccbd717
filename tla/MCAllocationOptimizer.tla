----------------------- MODULE MCAllocationOptimizer -----------------------
(***************************************************************************)
(* Calls of Solve for TLC.  Course A has the sections 1 and 2, course B    *)
(* the section 3.                                                          *)
(***************************************************************************)
EXTENDS AllocationOptimizer, TLC

CONSTANTS A, B

CourseOf == <<A, A, B>>

MCStudents == 1..3
MCCourses == {A, B}
MCSections == 1..3

Wish(st, sec, score) ==
    [student |-> st, course |-> CourseOf[sec], section |-> sec, score |-> score]

\* The edges of a table of scores of two students, 0 for "no edge", in the
\* order of the sections of one student after the other.
EdgesOf(table) ==
    LET All == [k \in 1..6 |-> LET st  == ((k - 1) \div 3) + 1
                                   sec == ((k - 1) % 3) + 1
                               IN  Wish(st, sec, table[st][sec])]
        Asked(e) == e.score > 0
    IN  SelectSeq(All, Asked)

Capacities(values) == [Sections -> values]

NoConflict == {}
SymmetricConflict == {<<1, 3>>, <<3, 1>>}

\* Every table of scores for a student's wishes, each wish at most once: up to
\* 3 in the two sections of course A, 2 in the section of course B.
AnyScoreInputs ==
    [edges     : {EdgesOf(t) : t \in [1..2 -> {f \in [Sections -> 0..3] : f[3] \in {0, 2}}]},
     capacity  : {c \in Capacities({1, 2}) : c[3] = 1},
     conflicts : {NoConflict, SymmetricConflict}]

\* The edges of a batch: for each student and course one score, a primary
\* and perhaps an alternative section, the two edges next to each other.
Row == [score : 1..3, primary : Sections, alt : Sections \union {0}]

RowEdges(st, r) ==
    IF r.alt = 0 THEN <<Wish(st, r.primary, r.score)>>
    ELSE <<Wish(st, r.primary, r.score), Wish(st, r.alt, r.score)>>

WellFormed(r) == r.alt # r.primary /\ (r.alt # 0 => CourseOf[r.alt] = CourseOf[r.primary])

BatchRows == {r \in Row : WellFormed(r)}

\* Three students ask for course A; the last one asks for course B too, and
\* its edge comes after the pool of course A.
BatchInputs ==
    LET rowsA == {r \in BatchRows : CourseOf[r.primary] = A}
        extra == {<< >>, <<Wish(3, 3, 2)>>}
    IN  [edges     : {RowEdges(1, f[1]) \o RowEdges(2, f[2]) \o RowEdges(3, f[3]) \o x :
                        f \in [Students -> rowsA], x \in extra},
         capacity  : {c \in Capacities(0..2) : c[3] = 1},
         conflicts : {NoConflict}]

MCInputs == AnyScoreInputs \union BatchInputs

ASSUME InputsAskOnce == \A call \in MCInputs : AskedOnce(call.edges)

ASSUME BatchInputsAreBatches ==
    \A call \in BatchInputs : BatchShaped(call.edges) /\ OneRequestPerCourse(call.edges)

=============================================================================
