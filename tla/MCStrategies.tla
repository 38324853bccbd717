---------------------------- MODULE MCStrategies ----------------------------
(***************************************************************************)
(* Populations for TLC.  Course A has the sections 1 and 2, course B the   *)
(* section 3.  Three students ask for course A, one for course B.          *)
(***************************************************************************)
EXTENDS Strategies

CONSTANTS A, B

MCStudents == 1..4
MCCourses == {A, B}
MCSections == 1..3

\* A student of course A: the first choice, and what the orders look at.
\* Waiting makes a student mandatory, so that the fixed rule differs from
\* the tie-break; student 2 names no alternative, as a batch allows.
Wish(id, primary, closeness, risk, waited) ==
    [id |-> id, course |-> A, primary |-> primary,
     alt |-> IF id = 2 THEN NoSection ELSE 3 - primary, mandatory |-> 1 + waited,
     risk |-> risk, waited |-> waited, alternatives |-> id % 2,
     submittedAt |-> 5 - id, closeness |-> closeness]

OfB ==
    [id |-> 4, course |-> B, primary |-> 3, alt |-> NoSection, mandatory |-> 1,
     risk |-> 1, waited |-> 0, alternatives |-> 0, submittedAt |-> 1, closeness |-> 1]

Wishes(id) ==
    {Wish(id, primary, closeness, risk, waited) :
        primary \in 1..2, closeness \in 0..3, risk \in 1..2, waited \in 0..1}

MCPopulations ==
    {[students |-> <<a, b, c, OfB>>, capacity |-> [sec \in MCSections |-> seats]] :
        a \in {w \in Wishes(1) : w.primary = 1 /\ w.waited = 0}, b \in Wishes(2), c \in Wishes(3),
        seats \in 1..2}

=============================================================================
