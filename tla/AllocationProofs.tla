-------------------------- MODULE AllocationProofs --------------------------
(***************************************************************************)
(* Lemmas about the decisions of Allocation: what confirming and deferring *)
(* an edge does to a plan.  The proofs about Solve and about the batches   *)
(* rest on them.                                                           *)
(***************************************************************************)
EXTENDS Allocation, FiniteSetTheorems, SequenceTheorems, TLAPS

\* Confirming an edge gives a plan.
LEMMA DoAssignType ==
    ASSUME NEW p \in Plan, NEW e \in Edge
    PROVE  DoAssign(p, e) \in Plan
<1> DEFINE q == DoAssign(p, e)
<1>1. e.student \in Students /\ e.course \in Courses /\ e.section \in Sections
    BY DEF Edge
<1>2. q = [capLeft         |-> [p.capLeft EXCEPT ![e.section] = @ - 1],
           assignedCourse  |-> [p.assignedCourse EXCEPT ![e.student] = e.course],
           studentSections |-> [p.studentSections EXCEPT ![e.student] = @ \union {e.section}],
           confirmed       |-> Append(p.confirmed, e),
           waitlist        |-> p.waitlist]
    BY DEF DoAssign
<1>3. [p.capLeft EXCEPT ![e.section] = @ - 1] \in [Sections -> Int]
    BY <1>1 DEF Plan
<1>4. [p.assignedCourse EXCEPT ![e.student] = e.course]
        \in [Students -> Courses \union {NoCourse}]
    BY <1>1 DEF Plan
<1>5. [p.studentSections EXCEPT ![e.student] = @ \union {e.section}]
        \in [Students -> SUBSET Sections]
    BY <1>1 DEF Plan
<1>6. Append(p.confirmed, e) \in Seq(Assignment)
    BY AppendProperties DEF Plan, Assignment
<1>7. p.waitlist \in Seq(Edge)
    BY DEF Plan
<1> QED BY <1>2, <1>3, <1>4, <1>5, <1>6, <1>7 DEF Plan

\* Deferring an edge gives a plan.
LEMMA DeferType ==
    ASSUME NEW p \in Plan, NEW e \in Edge
    PROVE  Defer(p, e) \in Plan
<1>1. Append(p.waitlist, e) \in Seq(Edge)
    BY AppendProperties DEF Plan
<1> QED BY <1>1 DEF Defer, Plan

\* A turn of the greedy loop gives a plan.
LEMMA ConsiderType ==
    ASSUME NEW p \in Plan, NEW e \in Edge, NEW conflicts
    PROVE  Consider(p, e, conflicts) \in Plan
BY DoAssignType, DeferType DEF Consider

\* The seats taken in a section are a finite set of positions.
LEMMA SeatsTakenFinite ==
    ASSUME NEW p \in Plan, NEW sec
    PROVE  IsFiniteSet(SeatsTaken(p, sec)) /\ Cardinality(SeatsTaken(p, sec)) \in Nat
<1>1. Len(p.confirmed) \in Nat
    BY DEF Plan
<1>2. IsFiniteSet(1..Len(p.confirmed))
    BY <1>1, FS_Interval
<1>3. SeatsTaken(p, sec) \in SUBSET (1..Len(p.confirmed))
    BY DEF SeatsTaken
<1>4. IsFiniteSet(SeatsTaken(p, sec))
    BY <1>2, <1>3, FS_Subset
<1> QED BY <1>4, FS_CardinalityType

\* Confirming an edge takes one seat of its section and of no other.
LEMMA DoAssignSeats ==
    ASSUME NEW p \in Plan, NEW e \in Edge, NEW sec \in Sections
    PROVE  Cardinality(SeatsTaken(DoAssign(p, e), sec)) =
               IF sec = e.section THEN Cardinality(SeatsTaken(p, sec)) + 1
               ELSE Cardinality(SeatsTaken(p, sec))
<1> DEFINE n == Len(p.confirmed)
           q == DoAssign(p, e)
<1>1. p.confirmed \in Seq(Assignment) /\ n \in Nat
    BY DEF Plan
<1>2. /\ Len(q.confirmed) = n + 1
      /\ q.confirmed[n + 1] = e
      /\ \A i \in 1..n : q.confirmed[i] = p.confirmed[i]
    BY <1>1, AppendProperties DEF DoAssign, Assignment
<1>3. CASE sec = e.section
    <2>1. SeatsTaken(q, sec) = SeatsTaken(p, sec) \union {n + 1}
        BY <1>1, <1>2, <1>3 DEF SeatsTaken
    <2>2. n + 1 \notin SeatsTaken(p, sec)
        BY <1>1 DEF SeatsTaken
    <2>3. IsFiniteSet(SeatsTaken(p, sec))
        BY SeatsTakenFinite
    <2>4. Cardinality(SeatsTaken(p, sec) \union {n + 1}) = Cardinality(SeatsTaken(p, sec)) + 1
        BY <2>2, <2>3, FS_AddElement
    <2> QED BY <1>3, <2>1, <2>4
<1>4. CASE sec # e.section
    <2>1. SeatsTaken(q, sec) = SeatsTaken(p, sec)
        BY <1>1, <1>2, <1>4 DEF SeatsTaken
    <2> QED BY <1>4, <2>1
<1> QED BY <1>3, <1>4

\* What a turn of the greedy loop does to confirmed and waitlist.
LEMMA ConsiderLists ==
    ASSUME NEW p \in Plan, NEW e \in Edge, NEW conflicts
    PROVE  LET q == Consider(p, e, conflicts)
           IN  \/ q.confirmed = Append(p.confirmed, e) /\ q.waitlist = p.waitlist
               \/ q.confirmed = p.confirmed /\ q.waitlist = Append(p.waitlist, e)
<1> DEFINE q == Consider(p, e, conflicts)
<1>1. q = DoAssign(p, e) \/ q = Defer(p, e)
    BY DEF Consider
<1> HIDE DEF q
<1>2. CASE q = DoAssign(p, e)
    <2>1. q.confirmed = Append(p.confirmed, e) /\ q.waitlist = p.waitlist
        BY <1>2 DEF DoAssign
    <2> QED BY <2>1 DEF q
<1>3. CASE q = Defer(p, e)
    <2>1. q.confirmed = p.confirmed
        BY <1>3 DEF Defer, Plan
    <2>2. q.waitlist = Append(p.waitlist, e)
        BY <1>3 DEF Defer, Plan
    <2> QED BY <2>1, <2>2 DEF q
<1> QED BY <1>1, <1>2, <1>3

=============================================================================
