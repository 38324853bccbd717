----------------------------- MODULE Allocation -----------------------------
(***************************************************************************)
(* The decisions of AllocationOptimizer.Solve (web-registeter/db/db.go):   *)
(* a plan, the test that admits an edge to it, and the two ways an edge    *)
(* ends.  The plan bundles the five local variables the closures of Solve  *)
(* share.  AllocationOptimizer runs these decisions step by step with the  *)
(* local search that follows them; DangKy takes them request by request    *)
(* batch.                                                                  *)
(***************************************************************************)
EXTENDS Integers, Sequences, FiniteSets

CONSTANTS
    Students,   \* ma_sinh_vien
    Courses,    \* ma_mon_hoc
    Sections,   \* ma_lop_hoc_phan
    NoCourse    \* what a student without an entry in assignedCourse has

ASSUME NoCourseAssumption == NoCourse \notin Courses

\* One wish: a student asks for a section of a course, with a TOPSIS score.
Edge == [student : Students, course : Courses, section : Sections, score : Int]

\* Assignment has the same fields as Edge.
Assignment == Edge

Plan == [capLeft         : [Sections -> Int],
         assignedCourse  : [Students -> Courses \union {NoCourse}],
         studentSections : [Students -> SUBSET Sections],
         confirmed       : Seq(Assignment),
         waitlist        : Seq(Edge)]

\* The locals of Solve before its greedy loop.  A section absent from
\* o.Sections has capacity 0: reading a missing map key gives the zero value.
EmptyPlan(capacity) ==
    [capLeft         |-> capacity,
     assignedCourse  |-> [s \in Students |-> NoCourse],
     studentSections |-> [s \in Students |-> {}],
     confirmed       |-> << >>,
     waitlist        |-> << >>]

-----------------------------------------------------------------------------

\* Mutated forms of CanAssign: the bound on the seats off by one, and the test
\* on the course left out.
CanAssignOneTooMany(plan, e, conflicts) ==
    /\ plan.capLeft[e.section] >= 0
    /\ plan.assignedCourse[e.student] # e.course
    /\ \A existing \in plan.studentSections[e.student] :
           <<e.section, existing>> \notin conflicts

CanAssignCourseTwice(plan, e, conflicts) ==
    /\ plan.capLeft[e.section] > 0
    /\ \A existing \in plan.studentSections[e.student] :
           <<e.section, existing>> \notin conflicts

\* canAssign: a free seat, the student's LAST assigned course is another one
\* (assignedCourse holds one course per student), and no section the student
\* already has conflicts with this one.  o.Conflicts is the set of pairs.
CanAssign(plan, e, conflicts) ==
    /\ plan.capLeft[e.section] > 0
    /\ plan.assignedCourse[e.student] # e.course
    /\ \A existing \in plan.studentSections[e.student] :
           <<e.section, existing>> \notin conflicts

\* Mutated forms of DoAssign: the section where the course belongs, and the
\* seat not taken from capLeft.
DoAssignMixedUp(plan, e) ==
    [plan EXCEPT !.capLeft[e.section] = @ - 1,
                 !.assignedCourse[e.student] = e.section,
                 !.studentSections[e.student] = @ \union {e.section},
                 !.confirmed = Append(@, e)]

DoAssignSeatKept(plan, e) ==
    [plan EXCEPT !.assignedCourse[e.student] = e.course,
                 !.studentSections[e.student] = @ \union {e.section},
                 !.confirmed = Append(@, e)]

DoAssign(plan, e) ==
    [capLeft         |-> [plan.capLeft EXCEPT ![e.section] = @ - 1],
     assignedCourse  |-> [plan.assignedCourse EXCEPT ![e.student] = e.course],
     studentSections |-> [plan.studentSections EXCEPT ![e.student] = @ \union {e.section}],
     confirmed       |-> Append(plan.confirmed, e),
     waitlist        |-> plan.waitlist]

Defer(plan, e) == [plan EXCEPT !.waitlist = Append(@, e)]

\* One turn of the greedy loop.
Consider(plan, e, conflicts) ==
    IF CanAssign(plan, e, conflicts) THEN DoAssign(plan, e) ELSE Defer(plan, e)

\* The confirmed assignments of a plan that hold a seat in a section, by
\* position: the same student may hold several.
SeatsTaken(plan, sec) ==
    {i \in 1..Len(plan.confirmed) : plan.confirmed[i].section = sec}

=============================================================================
