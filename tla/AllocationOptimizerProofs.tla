--------------------- MODULE AllocationOptimizerProofs ---------------------
(***************************************************************************)
(* Theorems about AllocationOptimizer.Solve for every set of students,     *)
(* courses and sections, every call and every bound on the swaps.          *)
(***************************************************************************)
EXTENDS AllocationOptimizer, AllocationProofs, WellFoundedInduction

-----------------------------------------------------------------------------
(***************************************************************************)
(* The operators of the greedy loop and of the score table                 *)
(***************************************************************************)

\* A nonempty set of positions has a last one: the score table is total.
LEMMA LastPosition ==
    ASSUME NEW n \in Nat, NEW S \in SUBSET (1..n), S # {}
    PROVE  \E i \in S : \A j \in S : j <= i
<1> DEFINE D == {n - i : i \in S}
<1>1. \A i \in S : i \in Int /\ n - i \in Nat
    OBVIOUS
<1>2. D \subseteq Nat
    BY <1>1
<1>3. D # {}
    OBVIOUS
<1> HIDE DEF D
<1>4. PICK d \in D : \A m \in D : d <= m
    <2>1. \E d \in D : \A m \in D : <<m, d>> \notin OpToRel(<, Nat)
        BY <1>2, <1>3, NatLessThanWellFounded, WFMin
    <2>2. \A m, d \in D : ~ m < d => d <= m
        BY <1>2
    <2>3. \A m, d \in D : m < d => <<m, d>> \in OpToRel(<, Nat)
        BY <1>2 DEF OpToRel
    <2> QED BY <2>1, <2>2, <2>3
<1>5. PICK i \in S : d = n - i
    BY <1>4 DEF D
<1>6. \A j \in S : n - i <= n - j
    BY <1>4, <1>5 DEF D
<1>7. \A j \in S : j <= i
    BY <1>1, <1>6
<1> QED BY <1>7

\* scoreOf gives a number for every student and section.
LEMMA ScoreInType ==
    ASSUME NEW edges \in Seq(Edge), NEW st, NEW sec
    PROVE  ScoreIn(edges, st, sec) \in Int
<1> DEFINE hits == Hits(edges, st, sec)
<1>1. CASE hits = {}
    BY <1>1 DEF ScoreIn
<1>2. CASE hits # {}
    <2>1. hits \in SUBSET (1..Len(edges)) /\ Len(edges) \in Nat
        BY DEF Hits
    <2> HIDE DEF hits
    <2>2. \E i \in hits : \A j \in hits : j <= i
        BY <1>2, <2>1, LastPosition
    <2> DEFINE last == CHOOSE i \in hits : \A j \in hits : j <= i
    <2>3. last \in 1..Len(edges)
        BY <2>1, <2>2
    <2>4. edges[last].score \in Int
        <3>1. edges[last] \in Edge
            BY <2>3, ElementOfSeq
        <3> QED BY <3>1 DEF Edge
    <2>5. ScoreIn(edges, st, sec) = edges[last].score
        BY <1>2 DEF ScoreIn, hits
    <2> QED BY <2>4, <2>5
<1> QED BY <1>1, <1>2

\* A swap leaves seats, courses and the waitlist alone and exchanges the
\* sections of two confirmed assignments.
LEMMA SwappedFacts ==
    ASSUME TypeOK, NEW i \in 1..Len(plan.confirmed), NEW j \in 1..Len(plan.confirmed), i # j
    PROVE  LET a == plan.confirmed[i]
               b == plan.confirmed[j]
               q == Swapped(i, j)
           IN  /\ q \in Plan
               /\ q.capLeft = plan.capLeft
               /\ q.waitlist = plan.waitlist
               /\ Len(q.confirmed) = Len(plan.confirmed)
               /\ q.confirmed[i] = Moved(a, b.section)
               /\ q.confirmed[j] = Moved(b, a.section)
               /\ \A k \in 1..Len(plan.confirmed) :
                      k # i /\ k # j => q.confirmed[k] = plan.confirmed[k]
<1> DEFINE a == plan.confirmed[i]
           b == plan.confirmed[j]
           q == Swapped(i, j)
           left == [plan.studentSections EXCEPT ![a.student] = @ \ {a.section}]
           gone == [left EXCEPT ![b.student] = @ \ {b.section}]
           took == [gone EXCEPT ![a.student] = @ \union {b.section}]
           have == [took EXCEPT ![b.student] = @ \union {a.section}]
           seq1 == [plan.confirmed EXCEPT ![i] = Moved(a, b.section)]
           seq2 == [seq1 EXCEPT ![j] = Moved(b, a.section)]
<1>1. plan \in Plan /\ plan.confirmed \in Seq(Assignment) /\ input.edges \in Seq(Edge)
    BY DEF TypeOK, Plan, Input
<1>2. a \in Assignment /\ b \in Assignment
    BY <1>1, ElementOfSeq
<1>3. Moved(a, b.section) \in Assignment /\ Moved(b, a.section) \in Assignment
    BY <1>1, <1>2, ScoreInType DEF Moved, ScoreOf, Assignment, Edge
<1>4. have \in [Students -> SUBSET Sections]
    <2>1. /\ a.student \in Students /\ b.student \in Students
          /\ a.section \in Sections /\ b.section \in Sections
        BY <1>2 DEF Assignment, Edge
    <2>2. plan.studentSections \in [Students -> SUBSET Sections]
        BY <1>1 DEF Plan
    <2>3. left \in [Students -> SUBSET Sections]
        BY <2>1, <2>2
    <2>4. gone \in [Students -> SUBSET Sections]
        BY <2>1, <2>3
    <2>5. took \in [Students -> SUBSET Sections]
        BY <2>1, <2>4
    <2> QED BY <2>1, <2>5
<1>5. /\ seq1 \in Seq(Assignment)
      /\ Len(seq1) = Len(plan.confirmed)
      /\ seq1[i] = Moved(a, b.section)
      /\ \A k \in 1..Len(plan.confirmed) : k # i => seq1[k] = plan.confirmed[k]
    BY <1>1, <1>3, ExceptSeq
<1>6. /\ seq2 \in Seq(Assignment)
      /\ Len(seq2) = Len(seq1)
      /\ seq2[j] = Moved(b, a.section)
      /\ \A k \in 1..Len(seq1) : k # j => seq2[k] = seq1[k]
    BY <1>3, <1>5, ExceptSeq
<1>7. q = [plan EXCEPT !.studentSections = have, !.confirmed = seq2]
    BY DEF Swapped
<1> HIDE DEF have, seq2, seq1, q
<1>8. /\ q = [capLeft |-> plan.capLeft, assignedCourse |-> plan.assignedCourse,
              studentSections |-> have, confirmed |-> seq2, waitlist |-> plan.waitlist]
    BY <1>1, <1>7 DEF Plan
<1>9. q \in Plan
    BY <1>1, <1>4, <1>6, <1>8 DEF Plan
<1> QED BY <1>5, <1>6, <1>8, <1>9 DEF q

-----------------------------------------------------------------------------
(***************************************************************************)
(* Types                                                                   *)
(***************************************************************************)

\* A call is among the inputs and has their type.
LEMMA InputType ==
    ASSUME NEW call \in Inputs
    PROVE  /\ call \in Input
           /\ call.edges \in Seq(Edge)
           /\ call.capacity \in [Sections -> Nat]
BY InputsAssumption DEF Input

\* The state of Solve keeps its type, whatever it is called with.
THEOREM TypeCorrect == Spec => []TypeOK
<1>1. Init => TypeOK
    <2> SUFFICES ASSUME Init PROVE TypeOK
        OBVIOUS
    <2>1. input \in Input /\ input.capacity \in [Sections -> Nat]
        BY InputType DEF Init
    <2>2. EmptyPlan(input.capacity) \in Plan
        BY <2>1 DEF EmptyPlan, Plan, Assignment
    <2> QED BY <2>1, <2>2, MaxIterAssumption DEF Init, TypeOK, Phases
<1>2. TypeOK /\ [Next]_vars => TypeOK'
    <2> SUFFICES ASSUME TypeOK, [Next]_vars PROVE TypeOK'
        OBVIOUS
    <2>1. CASE Greedy
        <3>1. PICK k \in todo : /\ plan' = Consider(plan, input.edges[k], input.conflicts)
                                /\ todo' = todo \ {k}
            BY <2>1 DEF Greedy
        <3>2. input.edges[k] \in Edge
            BY ElementOfSeq DEF TypeOK, Input
        <3>3. plan' \in Plan
            BY <3>1, <3>2, ConsiderType DEF TypeOK
        <3> QED BY <2>1, <3>1, <3>3 DEF TypeOK, Greedy
    <2>2. CASE StartSearch
        BY <2>2 DEF StartSearch, TypeOK, Phases
    <2>3. CASE Swap
        <3>1. PICK p \in Pairs : plan' = Swapped(p[1], p[2])
            BY <2>3 DEF Swap
        <3>2. p[1] \in 1..Len(plan.confirmed) /\ p[2] \in 1..Len(plan.confirmed) /\ p[1] # p[2]
            BY DEF Pairs
        <3>3. plan' \in Plan
            BY <3>1, <3>2, SwappedFacts
        <3>4. iter' \in 0..MaxIter
            BY <2>3, MaxIterAssumption DEF Swap, TypeOK
        <3> QED BY <2>3, <3>3, <3>4 DEF Swap, TypeOK
    <2>4. CASE Return
        BY <2>4 DEF Return, TypeOK, Phases
    <2>5. CASE UNCHANGED vars
        BY <2>5 DEF vars, TypeOK
    <2> QED BY <2>1, <2>2, <2>3, <2>4, <2>5 DEF Next
<1> QED BY <1>1, <1>2, PTL DEF Spec

-----------------------------------------------------------------------------
(***************************************************************************)
(* Seats and edges are conserved                                           *)
(***************************************************************************)

\* A swap leaves the number of seats taken in every section as it is.
LEMMA SwappedSeats ==
    ASSUME TypeOK, NEW i \in 1..Len(plan.confirmed), NEW j \in 1..Len(plan.confirmed),
           plan.confirmed[i].section # plan.confirmed[j].section, NEW sec \in Sections
    PROVE  Cardinality(SeatsTaken(Swapped(i, j), sec)) = Cardinality(SeatsTaken(plan, sec))
<1> DEFINE a == plan.confirmed[i]
           b == plan.confirmed[j]
           q == Swapped(i, j)
           S == SeatsTaken(plan, sec)
           T == SeatsTaken(q, sec)
<1>1. i # j /\ plan \in Plan
    BY DEF TypeOK
<1>2. /\ Len(q.confirmed) = Len(plan.confirmed)
      /\ q.confirmed[i].section = b.section
      /\ q.confirmed[j].section = a.section
      /\ \A k \in 1..Len(plan.confirmed) :
             k # i /\ k # j => q.confirmed[k] = plan.confirmed[k]
    <2>1. /\ Len(q.confirmed) = Len(plan.confirmed)
          /\ q.confirmed[i] = Moved(a, b.section)
          /\ q.confirmed[j] = Moved(b, a.section)
          /\ \A k \in 1..Len(plan.confirmed) :
                 k # i /\ k # j => q.confirmed[k] = plan.confirmed[k]
        BY <1>1, SwappedFacts
    <2>2. \A c, s : Moved(c, s).section = s
        BY DEF Moved
    <2> QED BY <2>1, <2>2
<1>3. IsFiniteSet(S) /\ Cardinality(S) \in Nat
    BY <1>1, SeatsTakenFinite
<1>4. ASSUME NEW x, NEW y, x \in S, y \notin S
             PROVE  Cardinality((S \ {x}) \union {y}) = Cardinality(S)
    <2> HIDE DEF S
    <2>1. IsFiniteSet(S \ {x}) /\ Cardinality(S \ {x}) = Cardinality(S) - 1
        BY <1>3, <1>4, FS_RemoveElement
    <2>2. Cardinality((S \ {x}) \union {y}) = Cardinality(S \ {x}) + 1
        BY <2>1, <1>4, FS_AddElement
    <2> QED BY <1>3, <2>1, <2>2
<1>5. CASE sec = a.section
    <2>1. i \in S /\ j \notin S
        BY <1>5 DEF SeatsTaken
    <2>2. T = (S \ {i}) \union {j}
        BY <1>1, <1>2, <1>5 DEF SeatsTaken
    <2> QED BY <1>4, <2>1, <2>2
<1>6. CASE sec = b.section
    <2>1. j \in S /\ i \notin S
        BY <1>6 DEF SeatsTaken
    <2>2. T = (S \ {j}) \union {i}
        BY <1>1, <1>2, <1>6 DEF SeatsTaken
    <2> QED BY <1>4, <2>1, <2>2
<1>7. CASE sec # a.section /\ sec # b.section
    <2>1. T = S
        BY <1>1, <1>2, <1>7 DEF SeatsTaken
    <2> QED BY <2>1
<1> QED BY <1>5, <1>6, <1>7

\* CapacityExact for every call: no section is oversold and no seat vanishes.
THEOREM CapacityKept == Spec => []CapacityExact
<1>1. Init => CapacityExact
    <2> SUFFICES ASSUME Init, NEW sec \in Sections
                 PROVE  /\ plan.capLeft[sec] >= 0
                        /\ plan.capLeft[sec] + Cardinality(SeatsTaken(plan, sec))
                             = input.capacity[sec]
        BY DEF CapacityExact
    <2>1. plan = EmptyPlan(input.capacity) /\ input.capacity[sec] \in Nat
        BY InputType DEF Init
    <2>2. plan.capLeft[sec] = input.capacity[sec] /\ plan.confirmed = << >>
        BY <2>1 DEF EmptyPlan
    <2>3. SeatsTaken(plan, sec) = {}
        BY <2>2 DEF SeatsTaken
    <2> QED BY <2>1, <2>2, <2>3, FS_EmptySet
<1>2. TypeOK /\ CapacityExact /\ [Next]_vars => CapacityExact'
    <2> SUFFICES ASSUME TypeOK, CapacityExact, [Next]_vars, NEW sec \in Sections
                 PROVE  /\ plan'.capLeft[sec] >= 0
                        /\ plan'.capLeft[sec] + Cardinality(SeatsTaken(plan', sec))
                             = input'.capacity[sec]
        BY DEF CapacityExact
    <2>1. /\ plan \in Plan
          /\ plan.capLeft \in [Sections -> Int]
          /\ input.capacity[sec] \in Nat
          /\ Cardinality(SeatsTaken(plan, sec)) \in Nat
          /\ plan.capLeft[sec] >= 0
          /\ plan.capLeft[sec] + Cardinality(SeatsTaken(plan, sec)) = input.capacity[sec]
        BY SeatsTakenFinite DEF TypeOK, Plan, Input, CapacityExact
    <2>2. CASE Greedy
        <3>1. PICK k \in todo : plan' = Consider(plan, input.edges[k], input.conflicts)
            BY <2>2 DEF Greedy
        <3> DEFINE e == input.edges[k]
        <3>2. e \in Edge
            BY ElementOfSeq DEF TypeOK, Input
        <3>3. input' = input
            BY <2>2 DEF Greedy
        <3> HIDE DEF e
        <3>4. CASE CanAssign(plan, e, input.conflicts)
            <4>1. plan' = DoAssign(plan, e) /\ plan.capLeft[e.section] > 0
                BY <3>1, <3>4 DEF Consider, CanAssign, e
            <4>2. plan'.capLeft = [plan.capLeft EXCEPT ![e.section] = @ - 1]
                BY <4>1 DEF DoAssign
            <4>3. e.section \in Sections
                BY <3>2 DEF Edge
            <4>4. CASE sec = e.section
                BY <2>1, <3>2, <3>3, <4>1, <4>2, <4>3, <4>4, DoAssignSeats
            <4>5. CASE sec # e.section
                BY <2>1, <3>2, <3>3, <4>1, <4>2, <4>3, <4>5, DoAssignSeats
            <4> QED BY <4>4, <4>5
        <3>5. CASE ~CanAssign(plan, e, input.conflicts)
            <4>1. plan' = Defer(plan, e)
                BY <3>1, <3>5 DEF Consider, e
            <4>2. plan'.capLeft = plan.capLeft /\ plan'.confirmed = plan.confirmed
                BY <2>1, <4>1 DEF Defer, Plan
            <4> QED BY <2>1, <3>3, <4>2 DEF SeatsTaken
        <3> QED BY <3>4, <3>5
    <2>3. CASE Swap
        <3>1. PICK p \in Pairs : IsFirst(p) /\ plan' = Swapped(p[1], p[2])
            BY <2>3 DEF Swap
        <3>2. /\ p[1] \in 1..Len(plan.confirmed)
              /\ p[2] \in 1..Len(plan.confirmed)
              /\ plan.confirmed[p[1]].section # plan.confirmed[p[2]].section
            BY <3>1 DEF Pairs, IsFirst, Improving, Improves
        <3>3. plan'.capLeft = plan.capLeft
            BY <3>1, <3>2, SwappedFacts
        <3>4. Cardinality(SeatsTaken(plan', sec)) = Cardinality(SeatsTaken(plan, sec))
            BY <3>1, <3>2, SwappedSeats
        <3> QED BY <2>1, <2>3, <3>3, <3>4 DEF Swap
    <2>4. CASE StartSearch \/ Return \/ UNCHANGED vars
        BY <2>1, <2>4 DEF StartSearch, Return, vars
    <2> QED BY <2>2, <2>3, <2>4 DEF Next
<1> QED BY <1>1, <1>2, TypeCorrect, PTL DEF Spec

\* EdgesConserved for every call: each edge is confirmed or waitlisted once.
THEOREM EdgesKept == Spec => []EdgesConserved
<1>1. Init => EdgesConserved
    <2> SUFFICES ASSUME Init PROVE EdgesConserved
        OBVIOUS
    <2>1. /\ todo = 1..Len(input.edges)
          /\ Len(input.edges) \in Nat
          /\ plan.confirmed = << >>
          /\ plan.waitlist = << >>
        BY InputType DEF Init, EmptyPlan
    <2>2. Cardinality(todo) = Len(input.edges)
        BY <2>1, FS_Interval
    <2> QED BY <2>1, <2>2 DEF EdgesConserved
<1>2. TypeOK /\ EdgesConserved /\ [Next]_vars => EdgesConserved'
    <2> SUFFICES ASSUME TypeOK, EdgesConserved, [Next]_vars PROVE EdgesConserved'
        OBVIOUS
    <2>1. /\ plan \in Plan
          /\ Len(plan.confirmed) \in Nat
          /\ Len(plan.waitlist) \in Nat
          /\ Len(input.edges) \in Nat
        BY DEF TypeOK, Plan, Input
    <2>2. IsFiniteSet(todo) /\ Cardinality(todo) \in Nat
        <3>1. IsFiniteSet(1..Len(input.edges))
            BY <2>1, FS_Interval
        <3>2. IsFiniteSet(todo)
            BY <3>1, FS_Subset DEF TypeOK
        <3> QED BY <3>2, FS_CardinalityType
    <2>3. CASE Greedy
        <3>1. PICK k \in todo : /\ plan' = Consider(plan, input.edges[k], input.conflicts)
                                /\ todo' = todo \ {k}
            BY <2>3 DEF Greedy
        <3>2. Cardinality(todo') = Cardinality(todo) - 1
            BY <2>2, <3>1, FS_RemoveElement
        <3>3. input.edges[k] \in Edge
            BY ElementOfSeq DEF TypeOK, Input
        <3> DEFINE e  == input.edges[k]
                   t  == Cardinality(todo)
                   c  == Len(plan.confirmed)
                   c1 == Len(plan'.confirmed)
                   w  == Len(plan.waitlist)
                   w1 == Len(plan'.waitlist)
        <3>4. t \in Nat /\ c \in Nat /\ w \in Nat
            BY <2>1, <2>2
        <3>5. (c1 = c + 1 /\ w1 = w) \/ (c1 = c /\ w1 = w + 1)
            <4>1. plan.confirmed \in Seq(Edge) /\ plan.waitlist \in Seq(Edge)
                BY <2>1 DEF Plan, Assignment
            <4>2. e \in Edge
                BY <3>3
            <4>3. plan' = DoAssign(plan, e) \/ plan' = Defer(plan, e)
                BY <3>1 DEF Consider
            <4> HIDE DEF e
            <4>4. /\ Len(Append(plan.confirmed, e)) = c + 1
                  /\ Len(Append(plan.waitlist, e)) = w + 1
                BY <4>1, <4>2, AppendProperties
            <4>5. CASE plan' = DoAssign(plan, e)
                <5>1. plan'.confirmed = Append(plan.confirmed, e) /\ plan'.waitlist = plan.waitlist
                    BY <4>5 DEF DoAssign
                <5> QED BY <4>4, <5>1
            <4>6. CASE plan' = Defer(plan, e)
                <5>1. plan'.confirmed = plan.confirmed
                    BY <2>1, <4>6 DEF Defer, Plan
                <5>2. plan'.waitlist = Append(plan.waitlist, e)
                    BY <2>1, <4>6 DEF Defer, Plan
                <5> QED BY <4>4, <5>1, <5>2
            <4> QED BY <4>3, <4>5, <4>6
        <3>6. Cardinality(todo') = t - 1 /\ t + c + w = Len(input.edges)
            BY <3>2 DEF EdgesConserved
        <3> HIDE DEF t, c, c1, w, w1
        <3>7. (t - 1) + c1 + w1 = t + c + w
            BY <3>4, <3>5
        <3>8. Cardinality(todo') + c1 + w1 = Len(input'.edges)
            BY <2>3, <3>6, <3>7 DEF Greedy
        <3> QED BY <3>8 DEF EdgesConserved, c1, w1
    <2>4. CASE Swap
        <3>1. PICK p \in Pairs : plan' = Swapped(p[1], p[2])
            BY <2>4 DEF Swap
        <3>2. p[1] \in 1..Len(plan.confirmed) /\ p[2] \in 1..Len(plan.confirmed) /\ p[1] # p[2]
            BY DEF Pairs
        <3>3. Len(plan'.confirmed) = Len(plan.confirmed) /\ plan'.waitlist = plan.waitlist
            BY <3>1, <3>2, SwappedFacts
        <3> QED BY <2>4, <3>3 DEF Swap, EdgesConserved
    <2>5. CASE StartSearch \/ Return \/ UNCHANGED vars
        BY <2>5 DEF StartSearch, Return, vars, EdgesConserved
    <2> QED BY <2>3, <2>4, <2>5 DEF Next
<1> QED BY <1>1, <1>2, TypeCorrect, PTL DEF Spec

-----------------------------------------------------------------------------
(***************************************************************************)
(* The order of the waitlist                                               *)
(***************************************************************************)

\* WaitlistSorted is not inductive by itself: the next edge must not have a
\* higher score than the ones that wait, and it has not because the loop
\* takes the edges in descending order.
WaitlistAboveTodo ==
    \A k \in 1..Len(plan.waitlist), m \in todo : plan.waitlist[k].score >= input.edges[m].score

\* WaitlistSorted for every call: the final sort of the waitlist is a no-op.
THEOREM WaitlistOrder == Spec => []WaitlistSorted
<1> DEFINE Ordered == WaitlistSorted /\ WaitlistAboveTodo
<1>1. Init => Ordered
    <2> SUFFICES ASSUME Init PROVE Ordered
        OBVIOUS
    <2>1. plan.waitlist = << >>
        BY DEF Init, EmptyPlan
    <2> QED BY <2>1 DEF WaitlistSorted, WaitlistAboveTodo
<1>2. TypeOK /\ Ordered /\ [Next]_vars => Ordered'
    <2> SUFFICES ASSUME TypeOK, WaitlistSorted, WaitlistAboveTodo, [Next]_vars
                 PROVE  Ordered'
        OBVIOUS
    <2>1. /\ plan \in Plan
          /\ plan.waitlist \in Seq(Edge)
          /\ Len(plan.waitlist) \in Nat
        BY DEF TypeOK, Plan
    <2>2. \A m \in todo : input.edges[m] \in Edge /\ input.edges[m].score \in Int
        <3>1. \A m \in todo : input.edges[m] \in Edge
            BY ElementOfSeq DEF TypeOK, Input
        <3> QED BY <3>1 DEF Edge
    <2>3. \A k \in 1..Len(plan.waitlist) : plan.waitlist[k].score \in Int
        <3>1. \A k \in 1..Len(plan.waitlist) : plan.waitlist[k] \in Edge
            BY <2>1, ElementOfSeq
        <3> QED BY <3>1 DEF Edge
    <2>4. CASE Greedy
        <3>1. PICK k \in todo : /\ IsNext(k)
                                /\ plan' = Consider(plan, input.edges[k], input.conflicts)
                                /\ todo' = todo \ {k}
            BY <2>4 DEF Greedy
        <3>2. input' = input
            BY <2>4 DEF Greedy
        <3> DEFINE e == input.edges[k]
                   n == Len(plan.waitlist)
        <3>3. e \in Edge /\ e.score \in Int
            BY <2>2
        <3>4. \A m \in todo : input.edges[m].score <= e.score
            BY <2>2, <3>1 DEF IsNext
        <3>5. \/ plan'.waitlist = plan.waitlist
              \/ plan'.waitlist = Append(plan.waitlist, e)
            BY <2>1, <3>1, <3>3, ConsiderLists
        <3>6. \A j \in 1..n : plan.waitlist[j].score >= e.score
            BY DEF WaitlistAboveTodo
        <3> HIDE DEF e
        <3>7. CASE plan'.waitlist = plan.waitlist
            BY <3>1, <3>2, <3>7 DEF WaitlistSorted, WaitlistAboveTodo
        <3>8. CASE plan'.waitlist = Append(plan.waitlist, e)
            <4>1. /\ Len(plan'.waitlist) = n + 1
                  /\ plan'.waitlist[n + 1] = e
                  /\ \A j \in 1..n : plan'.waitlist[j] = plan.waitlist[j]
                BY <2>1, <3>3, <3>8, AppendProperties
            <4>2. \A j \in 1..(n + 1) :
                      /\ plan'.waitlist[j].score \in Int
                      /\ plan'.waitlist[j].score >= e.score
                <5> SUFFICES ASSUME NEW j \in 1..(n + 1)
                             PROVE  /\ plan'.waitlist[j].score \in Int
                                    /\ plan'.waitlist[j].score >= e.score
                    OBVIOUS
                <5>1. CASE j = n + 1
                    BY <3>3, <4>1, <5>1
                <5>2. CASE j \in 1..n
                    <6>1. plan'.waitlist[j] = plan.waitlist[j]
                        BY <4>1, <5>2
                    <6> QED BY <2>3, <3>6, <5>2, <6>1
                <5> QED BY <2>1, <5>1, <5>2
            <4>3. WaitlistSorted'
                <5> SUFFICES ASSUME NEW j \in 1..(n + 1), NEW m \in 1..(n + 1), j <= m
                             PROVE  plan'.waitlist[j].score >= plan'.waitlist[m].score
                    BY <4>1 DEF WaitlistSorted
                <5>1. CASE m = n + 1
                    BY <4>1, <4>2, <5>1
                <5>2. CASE m # n + 1
                    <6>1. j \in 1..n /\ m \in 1..n
                        BY <2>1, <5>2
                    <6>2. plan.waitlist[j].score >= plan.waitlist[m].score
                        BY <6>1 DEF WaitlistSorted
                    <6> QED BY <4>1, <6>1, <6>2
                <5> QED BY <5>1, <5>2
            <4>4. WaitlistAboveTodo'
                BY <2>2, <3>1, <3>2, <3>3, <3>4, <4>1, <4>2 DEF WaitlistAboveTodo
            <4> QED BY <4>3, <4>4
        <3> QED BY <3>5, <3>7, <3>8
    <2>5. CASE Swap
        <3>1. PICK p \in Pairs : plan' = Swapped(p[1], p[2])
            BY <2>5 DEF Swap
        <3>2. p[1] \in 1..Len(plan.confirmed) /\ p[2] \in 1..Len(plan.confirmed) /\ p[1] # p[2]
            BY DEF Pairs
        <3>3. plan'.waitlist = plan.waitlist
            BY <3>1, <3>2, SwappedFacts
        <3> QED BY <2>5, <3>3 DEF Swap, WaitlistSorted, WaitlistAboveTodo
    <2>6. CASE StartSearch \/ Return \/ UNCHANGED vars
        BY <2>6 DEF StartSearch, Return, vars, WaitlistSorted, WaitlistAboveTodo
    <2> QED BY <2>4, <2>5, <2>6 DEF Next
<1>3. Ordered => WaitlistSorted
    OBVIOUS
<1> QED BY <1>1, <1>2, <1>3, TypeCorrect, PTL DEF Spec

-----------------------------------------------------------------------------
(***************************************************************************)
(* The local search of a batch                                             *)
(***************************************************************************)

\* What scoreOf holds, when a student has an edge to the section.
LEMMA ScoreInHit ==
    ASSUME NEW edges \in Seq(Edge), NEW i \in 1..Len(edges)
    PROVE  \E l \in 1..Len(edges) :
               ScoreIn(edges, edges[i].student, edges[i].section) = edges[l].score
<1> DEFINE hits == Hits(edges, edges[i].student, edges[i].section)
           last == CHOOSE l \in hits : \A j \in hits : j <= l
<1>1. hits \in SUBSET (1..Len(edges)) /\ i \in hits /\ Len(edges) \in Nat
    BY DEF Hits
<1>2. ScoreIn(edges, edges[i].student, edges[i].section) = edges[last].score
    BY <1>1 DEF ScoreIn
<1> HIDE DEF hits
<1>3. \E l \in hits : \A j \in hits : j <= l
    BY <1>1, LastPosition
<1>4. last \in 1..Len(edges)
    BY <1>1, <1>3
<1> QED BY <1>2, <1>4

\* In a batch a student scores in any section of a course at most what the
\* student scores in a section of that course for which there is an edge.
LEMMA NoBetterSection ==
    ASSUME NEW edges \in Seq(Edge), BatchShaped(edges),
           NEW i \in 1..Len(edges), NEW j \in 1..Len(edges),
           edges[i].course = edges[j].course
    PROVE  ScoreIn(edges, edges[i].student, edges[j].section)
             <= ScoreIn(edges, edges[i].student, edges[i].section)
<1> DEFINE st == edges[i].student
           here == ScoreIn(edges, st, edges[i].section)
           there == ScoreIn(edges, st, edges[j].section)
<1>1. here \in Int /\ there \in Int
    BY ScoreInType
<1>2. CASE Hits(edges, st, edges[j].section) = {}
    <2>1. there = 0
        BY <1>2 DEF ScoreIn
    <2>2. PICK l \in 1..Len(edges) : here = edges[l].score
        BY ScoreInHit
    <2>3. edges[l].score >= 0
        BY DEF BatchShaped
    <2> QED BY <1>1, <2>1, <2>2, <2>3
<1>3. CASE Hits(edges, st, edges[j].section) # {}
    <2>1. PICK l \in 1..Len(edges) :
              edges[l].student = st /\ edges[l].section = edges[j].section
        BY <1>3 DEF Hits
    <2>2. edges[l].course = edges[i].course
        BY <2>1 DEF BatchShaped
    <2>3. there = here
        BY <2>1, <2>2 DEF BatchShaped
    <2> QED BY <1>1, <2>3
<1> QED BY <1>2, <1>3

\* Every confirmed assignment is an edge of the call.
ConfirmedAreEdges ==
    \A i \in 1..Len(plan.confirmed) :
        \E l \in 1..Len(input.edges) : plan.confirmed[i] = input.edges[l]

\* On a batch no pair passes the test of the local search.
LEMMA NothingImproves ==
    ASSUME TypeOK, BatchShaped(input.edges), ConfirmedAreEdges
    PROVE  ~Swap
<1> SUFFICES ASSUME NEW p \in Pairs, Improves(p[1], p[2])
             PROVE  FALSE
    BY DEF Swap, IsFirst, Improving
<1> DEFINE a == plan.confirmed[p[1]]
           b == plan.confirmed[p[2]]
<1>1. PICK i \in 1..Len(input.edges) : a = input.edges[i]
    BY DEF ConfirmedAreEdges, Pairs
<1>2. PICK j \in 1..Len(input.edges) : b = input.edges[j]
    BY DEF ConfirmedAreEdges, Pairs
<1>3. input.edges \in Seq(Edge)
    BY DEF TypeOK, Input
<1>4. a.course = b.course /\ Gain(a, b) > 0
    BY DEF Improves
<1>5. ScoreOf(a.student, b.section) <= ScoreOf(a.student, a.section)
    BY <1>1, <1>2, <1>3, <1>4, NoBetterSection DEF ScoreOf
<1>6. ScoreOf(b.student, a.section) <= ScoreOf(b.student, b.section)
    BY <1>1, <1>2, <1>3, <1>4, NoBetterSection DEF ScoreOf
<1>7. /\ ScoreOf(a.student, b.section) \in Int /\ ScoreOf(a.student, a.section) \in Int
      /\ ScoreOf(b.student, a.section) \in Int /\ ScoreOf(b.student, b.section) \in Int
    BY <1>3, ScoreInType DEF ScoreOf
<1> HIDE DEF a, b
<1> QED BY <1>4, <1>5, <1>6, <1>7 DEF Gain

\* Confirmed assignments of a batch stay edges of the call.
LEMMA BatchConfirmed == Spec => [](BatchShaped(input.edges) => ConfirmedAreEdges)
<1> DEFINE Inv == BatchShaped(input.edges) => ConfirmedAreEdges
<1>1. Init => Inv
    BY DEF Init, EmptyPlan, ConfirmedAreEdges
<1>2. TypeOK /\ Inv /\ [Next]_vars => Inv'
    <2>0. TypeOK /\ Inv /\ [Next]_vars => input' = input
        BY DEF Next, Greedy, StartSearch, Swap, Return, vars
    <2> SUFFICES ASSUME TypeOK, BatchShaped(input.edges), ConfirmedAreEdges, [Next]_vars
                 PROVE  ConfirmedAreEdges'
        BY <2>0
    <2>1. input' = input
        BY <2>0
    <2>3. CASE Greedy
        <3>1. PICK k \in todo : plan' = Consider(plan, input.edges[k], input.conflicts)
            BY <2>3 DEF Greedy
        <3> DEFINE e == input.edges[k]
                   n == Len(plan.confirmed)
        <3>2. /\ plan \in Plan /\ plan.confirmed \in Seq(Edge) /\ n \in Nat
              /\ e \in Edge /\ k \in 1..Len(input.edges)
            BY ElementOfSeq DEF TypeOK, Input, Plan, Assignment
        <3>3. \/ plan'.confirmed = plan.confirmed
              \/ plan'.confirmed = Append(plan.confirmed, e)
            BY <3>1, <3>2, ConsiderLists
        <3>4. CASE plan'.confirmed = plan.confirmed
            BY <2>1, <3>4 DEF ConfirmedAreEdges
        <3>5. CASE plan'.confirmed = Append(plan.confirmed, e)
            <4>1. /\ Len(plan'.confirmed) = n + 1
                  /\ plan'.confirmed[n + 1] = e
                  /\ \A i \in 1..n : plan'.confirmed[i] = plan.confirmed[i]
                <5>1. e \in Edge
                    BY <3>2
                <5> HIDE DEF e
                <5> QED BY <3>2, <3>5, <5>1, AppendProperties
            <4>2. ASSUME NEW i \in 1..(n + 1)
                  PROVE  \E l \in 1..Len(input.edges) : plan'.confirmed[i] = input.edges[l]
                <5>1. CASE i = n + 1
                    BY <3>2, <4>1, <5>1
                <5>2. CASE i # n + 1
                    <6>1. i \in 1..n
                        BY <3>2, <5>2
                    <6> QED BY <4>1, <6>1 DEF ConfirmedAreEdges
                <5> QED BY <5>1, <5>2
            <4> QED BY <2>1, <4>1, <4>2 DEF ConfirmedAreEdges
        <3> QED BY <3>3, <3>4, <3>5
    <2>4. CASE Swap
        BY <2>4, NothingImproves
    <2>5. CASE StartSearch \/ Return \/ UNCHANGED vars
        BY <2>1, <2>5 DEF StartSearch, Return, vars, ConfirmedAreEdges
    <2> QED BY <2>3, <2>4, <2>5 DEF Next
<1> QED BY <1>1, <1>2, TypeCorrect, PTL DEF Spec

\* NeverSwaps for every call: DangKy may leave the local search out.
THEOREM BatchNeverSwaps == Spec => NeverSwaps
<1>1. TypeOK /\ (BatchShaped(input.edges) => ConfirmedAreEdges) /\ [Next]_vars
        => [BatchShaped(input.edges) => ~Swap]_vars
    BY NothingImproves
<1> QED BY <1>1, BatchConfirmed, TypeCorrect, PTL DEF Spec, NeverSwaps

-----------------------------------------------------------------------------
(***************************************************************************)
(* The greedy loop of a batch                                              *)
(***************************************************************************)

\* A step on a batch is a turn of the greedy loop, or it leaves the plan and
\* the positions alone.
LEMMA BatchStep ==
    ASSUME TypeOK, BatchShaped(input.edges), ConfirmedAreEdges, [Next]_vars
    PROVE  /\ input' = input
           /\ \/ \E k \in todo : /\ IsNext(k)
                                 /\ plan' = Consider(plan, input.edges[k], input.conflicts)
                                 /\ todo' = todo \ {k}
              \/ UNCHANGED <<plan, todo>>
<1>1. ~Swap
    BY NothingImproves
<1> QED BY <1>1 DEF Next, Greedy, StartSearch, Return, vars

\* What a turn does to each part of the plan.
LEMMA GreedyTurn ==
    ASSUME NEW p \in Plan, NEW e \in Edge, NEW conflicts
    PROVE  LET q == Consider(p, e, conflicts)
               n == Len(p.confirmed)
               w == Len(p.waitlist)
           IN  \/ /\ CanAssign(p, e, conflicts)
                  /\ q.waitlist = p.waitlist
                  /\ Len(q.confirmed) = n + 1
                  /\ q.confirmed[n + 1] = e
                  /\ \A i \in 1..n : q.confirmed[i] = p.confirmed[i]
                  /\ \A sec \in Sections : sec # e.section => q.capLeft[sec] = p.capLeft[sec]
                  /\ q.assignedCourse[e.student] = e.course
                  /\ \A st \in Students :
                         /\ st # e.student => q.assignedCourse[st] = p.assignedCourse[st]
                         /\ p.studentSections[st] \subseteq q.studentSections[st]
               \/ /\ ~CanAssign(p, e, conflicts)
                  /\ Len(q.waitlist) = w + 1
                  /\ q.waitlist[w + 1] = e
                  /\ \A i \in 1..w : q.waitlist[i] = p.waitlist[i]
                  /\ q.confirmed = p.confirmed
                  /\ q.capLeft = p.capLeft
                  /\ q.assignedCourse = p.assignedCourse
                  /\ q.studentSections = p.studentSections
<1> DEFINE q == Consider(p, e, conflicts)
<1>1. /\ p.confirmed \in Seq(Edge) /\ p.waitlist \in Seq(Edge)
      /\ p.capLeft \in [Sections -> Int]
      /\ p.assignedCourse \in [Students -> Courses \union {NoCourse}]
      /\ p.studentSections \in [Students -> SUBSET Sections]
      /\ e.student \in Students /\ e.section \in Sections
    BY DEF Plan, Assignment, Edge
<1>2. CASE CanAssign(p, e, conflicts)
    <2>1. q = DoAssign(p, e)
        BY <1>2 DEF Consider
    <2>2. /\ q.waitlist = p.waitlist
          /\ q.confirmed = Append(p.confirmed, e)
          /\ q.capLeft = [p.capLeft EXCEPT ![e.section] = @ - 1]
          /\ q.assignedCourse = [p.assignedCourse EXCEPT ![e.student] = e.course]
          /\ q.studentSections = [p.studentSections EXCEPT ![e.student] = @ \union {e.section}]
        BY <2>1 DEF DoAssign
    <2> HIDE DEF q
    <2>3. /\ Len(q.confirmed) = Len(p.confirmed) + 1
          /\ q.confirmed[Len(p.confirmed) + 1] = e
          /\ \A i \in 1..Len(p.confirmed) : q.confirmed[i] = p.confirmed[i]
        BY <1>1, <2>2, AppendProperties
    <2>4. \A sec \in Sections : sec # e.section => q.capLeft[sec] = p.capLeft[sec]
        BY <1>1, <2>2
    <2>5. /\ q.assignedCourse[e.student] = e.course
          /\ \A st \in Students :
                 /\ st # e.student => q.assignedCourse[st] = p.assignedCourse[st]
                 /\ p.studentSections[st] \subseteq q.studentSections[st]
        BY <1>1, <2>2
    <2> QED BY <1>2, <2>2, <2>3, <2>4, <2>5 DEF q
<1>3. CASE ~CanAssign(p, e, conflicts)
    <2>1. q = Defer(p, e)
        BY <1>3 DEF Consider
    <2>2. /\ q.waitlist = Append(p.waitlist, e)
          /\ q.confirmed = p.confirmed
          /\ q.capLeft = p.capLeft
          /\ q.assignedCourse = p.assignedCourse
          /\ q.studentSections = p.studentSections
        BY <2>1 DEF Defer, Plan
    <2> HIDE DEF q
    <2>3. /\ Len(q.waitlist) = Len(p.waitlist) + 1
          /\ q.waitlist[Len(p.waitlist) + 1] = e
          /\ \A i \in 1..Len(p.waitlist) : q.waitlist[i] = p.waitlist[i]
        BY <1>1, <2>2, AppendProperties
    <2> QED BY <1>3, <2>2, <2>3 DEF q
<1> QED BY <1>2, <1>3

-----------------------------------------------------------------------------
(***************************************************************************)
(* Nobody is passed over                                                   *)
(***************************************************************************)

\* A full section whose every seat went to a score at least as high.
Outranked(e) ==
    /\ plan.capLeft[e.section] = 0
    /\ \A i \in SeatsTaken(plan, e.section) : plan.confirmed[i].score >= e.score

\* assignedCourse names a course the student holds.
AssignedHeld ==
    \A st \in Students, c \in Courses : plan.assignedCourse[st] = c => Holds(st, c)

\* What is confirmed ranks before what is still to do.
ConfirmedAboveTodo ==
    \A i \in 1..Len(plan.confirmed), k \in todo :
        plan.confirmed[i].score >= input.edges[k].score

\* Each edge of the waitlist has its reason.
Justified ==
    \A k \in 1..Len(plan.waitlist), e \in Edge :
        plan.waitlist[k] = e
        => Holds(e.student, e.course) \/ Clashes(e) \/ Outranked(e)

GreedyFair == AssignedHeld /\ ConfirmedAboveTodo /\ Justified

\* One turn of the greedy loop.
Turn(k) ==
    /\ IsNext(k)
    /\ plan' = Consider(plan, input.edges[k], input.conflicts)
    /\ todo' = todo \ {k}
    /\ input' = input

\* The parts of the state a turn meets.
LEMMA TurnTypes ==
    ASSUME TypeOK, NEW k \in todo
    PROVE  /\ plan \in Plan /\ input.edges \in Seq(Edge)
           /\ k \in 1..Len(input.edges)
           /\ input.edges[k] \in Edge
           /\ \A m \in todo : input.edges[m].score \in Int
           /\ Len(plan.confirmed) \in Nat /\ Len(plan.waitlist) \in Nat
           /\ \A i \in 1..Len(plan.confirmed) : plan.confirmed[i] \in Edge
           /\ \A i \in 1..Len(plan.waitlist) : plan.waitlist[i] \in Edge
           /\ plan.capLeft \in [Sections -> Int]
           /\ plan.assignedCourse \in [Students -> Courses \union {NoCourse}]
<1>1. /\ plan \in Plan /\ input.edges \in Seq(Edge) /\ todo \subseteq 1..Len(input.edges)
      /\ plan.confirmed \in Seq(Edge) /\ plan.waitlist \in Seq(Edge)
    BY DEF TypeOK, Input, Plan, Assignment
<1>2. \A m \in 1..Len(input.edges) : input.edges[m] \in Edge /\ input.edges[m].score \in Int
    <2>1. \A m \in 1..Len(input.edges) : input.edges[m] \in Edge
        BY <1>1, ElementOfSeq
    <2>2. \A x \in Edge : x.score \in Int
        BY DEF Edge
    <2> QED BY <2>1, <2>2
<1>3. /\ \A i \in 1..Len(plan.confirmed) : plan.confirmed[i] \in Edge
      /\ \A i \in 1..Len(plan.waitlist) : plan.waitlist[i] \in Edge
      /\ Len(plan.confirmed) \in Nat /\ Len(plan.waitlist) \in Nat
    BY <1>1, ElementOfSeq, LenProperties
<1> QED BY <1>1, <1>2, <1>3 DEF Plan

\* Seats and sections are kept by a turn, so that what a student holds and
\* what a student's sections clash with stay.
LEMMA TurnKeeps ==
    ASSUME TypeOK, NEW k \in todo, Turn(k)
    PROVE  /\ \A st, c : Holds(st, c) => Holds(st, c)'
           /\ \A e \in Edge : Clashes(e) => Clashes(e)'
<1> DEFINE e == input.edges[k]
           n == Len(plan.confirmed)
<1>1. /\ plan \in Plan /\ e \in Edge /\ n \in Nat /\ input' = input
      /\ plan' = Consider(plan, e, input.conflicts)
    BY TurnTypes DEF Turn
<1> HIDE DEF e
<1>2. /\ \A i \in 1..n : i \in 1..Len(plan'.confirmed) /\ plan'.confirmed[i] = plan.confirmed[i]
      /\ \A st \in Students : plan.studentSections[st] \subseteq plan'.studentSections[st]
    BY <1>1, GreedyTurn
<1>3. \A st, c : Holds(st, c) => Holds(st, c)'
    BY <1>2 DEF Holds
<1>4. \A x \in Edge : Clashes(x) => Clashes(x)'
    <2>1. \A x \in Edge : x.student \in Students
        BY DEF Edge
    <2> QED BY <1>1, <1>2, <2>1 DEF Clashes
<1> QED BY <1>3, <1>4

LEMMA TurnAssigned ==
    ASSUME TypeOK, AssignedHeld, NEW k \in todo, Turn(k)
    PROVE  AssignedHeld'
<1> DEFINE e == input.edges[k]
           n == Len(plan.confirmed)
<1>1. /\ plan \in Plan /\ e \in Edge /\ n \in Nat
      /\ plan' = Consider(plan, e, input.conflicts)
    BY TurnTypes DEF Turn
<1>2. \A st, c : Holds(st, c) => Holds(st, c)'
    BY TurnKeeps
<1> HIDE DEF e
<1> SUFFICES ASSUME NEW st \in Students, NEW c \in Courses, plan'.assignedCourse[st] = c
             PROVE  Holds(st, c)'
    BY DEF AssignedHeld
<1>3. CASE plan'.assignedCourse[st] = plan.assignedCourse[st]
    BY <1>2, <1>3 DEF AssignedHeld
<1>4. CASE plan'.assignedCourse[st] # plan.assignedCourse[st]
    <2>1. /\ st = e.student /\ plan'.assignedCourse[st] = e.course
          /\ Len(plan'.confirmed) = n + 1 /\ plan'.confirmed[n + 1] = e
        BY <1>1, <1>4, GreedyTurn
    <2>2. n + 1 \in 1..Len(plan'.confirmed)
        BY <1>1, <2>1
    <2> QED BY <2>1, <2>2 DEF Holds
<1> QED BY <1>3, <1>4

LEMMA TurnAbove ==
    ASSUME TypeOK, ConfirmedAboveTodo, NEW k \in todo, Turn(k)
    PROVE  ConfirmedAboveTodo'
<1> DEFINE e == input.edges[k]
           n == Len(plan.confirmed)
<1>1. /\ plan \in Plan /\ e \in Edge /\ n \in Nat /\ input' = input
      /\ plan' = Consider(plan, e, input.conflicts) /\ todo' = todo \ {k}
      /\ \A m \in todo : input.edges[m].score \in Int
    BY TurnTypes DEF Turn
<1>2. \A m \in todo : e.score >= input.edges[m].score
    BY <1>1 DEF Turn, IsNext
<1> HIDE DEF e
<1>3. \A i \in 1..Len(plan'.confirmed) :
          \/ i \in 1..n /\ plan'.confirmed[i] = plan.confirmed[i]
          \/ plan'.confirmed[i] = e
    BY <1>1, GreedyTurn
<1> QED BY <1>1, <1>2, <1>3 DEF ConfirmedAboveTodo

\* An edge that ranks behind a full section goes on doing so: nobody gets a
\* seat of a full section.
LEMMA TurnOutranked ==
    ASSUME TypeOK, NEW k \in todo, Turn(k), NEW x \in Edge, Outranked(x)
    PROVE  Outranked(x)'
<1> DEFINE e == input.edges[k]
           n == Len(plan.confirmed)
<1>1. /\ plan \in Plan /\ e \in Edge /\ n \in Nat /\ x.section \in Sections
      /\ plan' = Consider(plan, e, input.conflicts)
    BY TurnTypes DEF Turn, Edge
<1> HIDE DEF e
<1>2. CASE CanAssign(plan, e, input.conflicts)
    <2>1. plan.capLeft[e.section] > 0
        BY <1>2 DEF CanAssign
    <2>2. x.section # e.section
        BY <2>1 DEF Outranked
    <2>3. plan'.capLeft[x.section] = plan.capLeft[x.section]
        BY <1>1, <1>2, <2>2, GreedyTurn
    <2>4. \A i \in 1..Len(plan'.confirmed) :
              \/ i \in 1..n /\ plan'.confirmed[i] = plan.confirmed[i]
              \/ plan'.confirmed[i] = e
        BY <1>1, <1>2, GreedyTurn
    <2> QED BY <2>2, <2>3, <2>4 DEF Outranked, SeatsTaken
<1>3. CASE ~CanAssign(plan, e, input.conflicts)
    BY <1>1, <1>3, GreedyTurn DEF Outranked, SeatsTaken
<1> QED BY <1>2, <1>3

LEMMA TurnJustified ==
    ASSUME TypeOK, CapacityExact, GreedyFair, NEW k \in todo, Turn(k)
    PROVE  Justified'
<1> DEFINE e == input.edges[k]
           w == Len(plan.waitlist)
<1>1. /\ plan \in Plan /\ e \in Edge /\ w \in Nat
      /\ plan' = Consider(plan, e, input.conflicts)
      /\ \A i \in 1..w : plan.waitlist[i] \in Edge
    BY TurnTypes DEF Turn
<1>2. \A x \in Edge : \/ Holds(x.student, x.course)
                      \/ Clashes(x)
                      \/ Outranked(x)
                      => Holds(x.student, x.course)' \/ Clashes(x)' \/ Outranked(x)'
    BY TurnKeeps, TurnOutranked
<1>3. ~CanAssign(plan, e, input.conflicts) =>
          Holds(e.student, e.course) \/ Clashes(e) \/ Outranked(e)
    <2> SUFFICES ASSUME ~CanAssign(plan, e, input.conflicts)
                 PROVE  Holds(e.student, e.course) \/ Clashes(e) \/ Outranked(e)
        OBVIOUS
    <2>1. /\ e.student \in Students /\ e.section \in Sections /\ e.course \in Courses
          /\ plan.capLeft[e.section] \in Int
        BY <1>1, TurnTypes DEF Edge
    <2>2. \/ ~(plan.capLeft[e.section] > 0)
          \/ plan.assignedCourse[e.student] = e.course
          \/ Clashes(e)
        BY DEF CanAssign, Clashes
    <2>3. CASE plan.assignedCourse[e.student] = e.course
        BY <2>1, <2>3 DEF GreedyFair, AssignedHeld
    <2>4. CASE ~(plan.capLeft[e.section] > 0)
        <3>1. plan.capLeft[e.section] = 0
            BY <2>1, <2>4 DEF CapacityExact
        <3>2. \A i \in SeatsTaken(plan, e.section) : plan.confirmed[i].score >= e.score
            BY DEF GreedyFair, ConfirmedAboveTodo, SeatsTaken
        <3> QED BY <3>1, <3>2 DEF Outranked
    <2> QED BY <2>2, <2>3, <2>4
<1> HIDE DEF e
<1>4. \A i \in 1..Len(plan'.waitlist) :
          \/ i \in 1..w /\ plan'.waitlist[i] = plan.waitlist[i]
          \/ plan'.waitlist[i] = e /\ ~CanAssign(plan, e, input.conflicts)
    BY <1>1, GreedyTurn
<1> SUFFICES ASSUME NEW i \in 1..Len(plan'.waitlist), NEW x \in Edge, plan'.waitlist[i] = x
             PROVE  Holds(x.student, x.course)' \/ Clashes(x)' \/ Outranked(x)'
    BY DEF Justified
<1>5. Holds(x.student, x.course) \/ Clashes(x) \/ Outranked(x)
    BY <1>3, <1>4 DEF GreedyFair, Justified
<1> QED BY <1>2, <1>5

\* NoJustifiedEnvy for every batch: in the batch a student is passed over only
\* for students with at least as high a score.
THEOREM PriorityRespected == Spec => []NoJustifiedEnvy
<1> DEFINE Inv == BatchShaped(input.edges) => GreedyFair
<1>1. Init => Inv
    <2> SUFFICES ASSUME Init PROVE GreedyFair
        OBVIOUS
    <2>1. /\ plan.confirmed = << >> /\ plan.waitlist = << >>
          /\ \A st \in Students : plan.assignedCourse[st] = NoCourse
        BY DEF Init, EmptyPlan
    <2> QED BY <2>1, NoCourseAssumption DEF GreedyFair, AssignedHeld, ConfirmedAboveTodo, Justified
<1>2. /\ TypeOK /\ CapacityExact /\ (BatchShaped(input.edges) => ConfirmedAreEdges)
      /\ Inv /\ [Next]_vars
      => Inv'
    <2> SUFFICES ASSUME TypeOK, CapacityExact, BatchShaped(input.edges) => ConfirmedAreEdges,
                        Inv, [Next]_vars, BatchShaped(input'.edges)
                 PROVE  GreedyFair'
        OBVIOUS
    <2>1. input' = input
        BY DEF Next, Greedy, StartSearch, Swap, Return, vars
    <2>2. ConfirmedAreEdges /\ GreedyFair
        BY <2>1
    <2>3. CASE \E k \in todo : Turn(k)
        <3>1. PICK k \in todo : Turn(k)
            BY <2>3
        <3> QED BY <2>2, <3>1, TurnAssigned, TurnAbove, TurnJustified DEF GreedyFair
    <2>4. CASE UNCHANGED <<plan, todo>>
        BY <2>1, <2>2, <2>4 DEF GreedyFair, AssignedHeld, ConfirmedAboveTodo, Justified, Holds,
                                Clashes, Outranked, SeatsTaken
    <2> QED BY <2>1, <2>2, <2>3, <2>4, BatchStep DEF Turn
<1>3. TypeOK /\ Inv => NoJustifiedEnvy
    <2>1. TypeOK => \A k \in 1..Len(plan.waitlist) : plan.waitlist[k] \in Edge
        BY ElementOfSeq DEF TypeOK, Plan
    <2> QED BY <2>1 DEF GreedyFair, Justified, Outranked, NoJustifiedEnvy
<1> QED BY <1>1, <1>2, <1>3, TypeCorrect, CapacityKept, BatchConfirmed, PTL DEF Spec

-----------------------------------------------------------------------------
(***************************************************************************)
(* One seat for a student and course                                       *)
(***************************************************************************)

\* The order of the stable sort.
Before(l, k) ==
    \/ input.edges[l].score > input.edges[k].score
    \/ input.edges[l].score = input.edges[k].score /\ l <= k

Considered == (1..Len(input.edges)) \ todo

\* What was considered comes before what is still to do.
InOrder == \A l \in Considered, k \in todo : Before(l, k)

\* An edge of a student to a course.
IsFor(e, st, c) == e.student = st /\ e.course = c

\* A course a student holds is the one assignedCourse remembers, or the edge
\* that gave it came before one to the course that is remembered.
Remembered ==
    \A st \in Students, c \in Courses :
        Holds(st, c) =>
            \E l \in Considered :
                /\ IsFor(input.edges[l], st, c)
                /\ \/ plan.assignedCourse[st] = c
                   \/ \E m \in Considered :
                          IsFor(input.edges[m], st, plan.assignedCourse[st]) /\ Before(l, m)

HeldOnce ==
    \A i, j \in 1..Len(plan.confirmed) :
        /\ plan.confirmed[i].student = plan.confirmed[j].student
        /\ plan.confirmed[i].course = plan.confirmed[j].course
        => i = j

GreedyOnce == InOrder /\ Remembered /\ HeldOnce

LEMMA TurnInOrder ==
    ASSUME TypeOK, InOrder, NEW k \in todo, Turn(k)
    PROVE  /\ InOrder' /\ Considered' = Considered \union {k}
           /\ \A l, m : Before(l, m)' <=> Before(l, m)
<1>1. todo' = todo \ {k} /\ input' = input /\ IsNext(k) /\ k \in 1..Len(input.edges)
    BY TurnTypes DEF Turn
<1>2. Considered' = Considered \union {k}
    BY <1>1 DEF Considered
<1>3. \A l, m : Before(l, m)' <=> Before(l, m)
    BY <1>1 DEF Before
<1>4. \A m \in todo : Before(k, m)
    BY <1>1, TurnTypes DEF IsNext, Before
<1>5. InOrder'
    BY <1>1, <1>2, <1>3, <1>4 DEF InOrder
<1> QED BY <1>2, <1>3, <1>5

\* The edges of a student for one course follow each other in the order of
\* the sort, but for edges of other students.
CoursesInTurn ==
    \A l, m, k \in 1..Len(input.edges) :
        /\ input.edges[l].student = input.edges[k].student
        /\ input.edges[m].student = input.edges[k].student
        /\ input.edges[l].course = input.edges[k].course
        /\ Before(l, m) /\ Before(m, k)
        => input.edges[m].course = input.edges[k].course

\* One request for each student and course is enough for that.
LEMMA RequestsInTurn ==
    ASSUME TypeOK, OneRequestPerCourse(input.edges)
    PROVE  CoursesInTurn
<1> DEFINE edges == input.edges
<1> SUFFICES ASSUME NEW l \in 1..Len(edges), NEW m \in 1..Len(edges), NEW k \in 1..Len(edges),
                    edges[l].student = edges[k].student, edges[l].course = edges[k].course,
                    Before(l, m), Before(m, k)
             PROVE  edges[m].course = edges[k].course
    BY DEF CoursesInTurn
<1>1. /\ edges[l].score = edges[k].score
      /\ \A x \in l..k : edges[x].course = edges[l].course
    BY DEF OneRequestPerCourse
<1>2. edges[l].score \in Int /\ edges[m].score \in Int /\ edges[k].score \in Int
    <2>1. \A x \in 1..Len(edges) : edges[x] \in Edge
        BY ElementOfSeq DEF TypeOK, Input
    <2> QED BY <2>1 DEF Edge
<1>3. Len(edges) \in Nat
    BY DEF TypeOK, Input
<1> HIDE DEF edges
<1>4. l <= m /\ m <= k
    BY <1>1, <1>2 DEF Before, edges
<1>5. m \in l..k
    BY <1>3, <1>4
<1> QED BY <1>1, <1>5

\* Where courses come in turn, assignedCourse is enough to know what a student
\* holds.
LEMMA NotYetHeld ==
    ASSUME TypeOK, CoursesInTurn, GreedyOnce,
           NEW k \in todo, CanAssign(plan, input.edges[k], input.conflicts)
    PROVE  ~Holds(input.edges[k].student, input.edges[k].course)
<1> DEFINE edges == input.edges
           st == edges[k].student
           c == edges[k].course
<1> SUFFICES ASSUME Holds(st, c) PROVE FALSE
    OBVIOUS
<1>1. st \in Students /\ c \in Courses /\ k \in 1..Len(edges)
    BY TurnTypes DEF Edge
<1>2. plan.assignedCourse[st] # c
    BY DEF CanAssign
<1>3. PICK l \in Considered :
          /\ IsFor(input.edges[l], st, c)
          /\ \E m \in Considered : IsFor(input.edges[m], st, plan.assignedCourse[st]) /\ Before(l, m)
    BY <1>1, <1>2 DEF GreedyOnce, Remembered
<1>4. PICK m \in Considered : IsFor(input.edges[m], st, plan.assignedCourse[st]) /\ Before(l, m)
    BY <1>3
<1>5. /\ l \in 1..Len(edges) /\ edges[l].student = st /\ edges[l].course = c
      /\ m \in 1..Len(edges) /\ edges[m].student = st /\ edges[m].course # c
    BY <1>2, <1>3, <1>4 DEF IsFor, Considered
<1>6. Before(m, k)
    BY DEF GreedyOnce, InOrder
<1> QED BY <1>1, <1>4, <1>5, <1>6 DEF CoursesInTurn

LEMMA TurnRemembered ==
    ASSUME TypeOK, GreedyOnce, NEW k \in todo, Turn(k)
    PROVE  Remembered'
<1> DEFINE e == input.edges[k]
           n == Len(plan.confirmed)
<1>1. /\ plan \in Plan /\ e \in Edge /\ n \in Nat /\ k \in 1..Len(input.edges)
      /\ plan' = Consider(plan, e, input.conflicts) /\ input' = input
    BY TurnTypes DEF Turn
<1>2. /\ Considered' = Considered \union {k}
      /\ \A l, m : Before(l, m)' <=> Before(l, m)
    BY TurnInOrder DEF GreedyOnce
<1>3. k \in Considered' /\ e = input'.edges[k]
    BY <1>1, <1>2
<1>4. \A l \in Considered : Before(l, k)'
    BY <1>2 DEF GreedyOnce, InOrder
<1> HIDE DEF e
<1>7. \A i \in 1..Len(plan'.confirmed) :
          \/ i \in 1..Len(plan.confirmed) /\ plan'.confirmed[i] = plan.confirmed[i]
          \/ plan'.confirmed[i] = e /\ CanAssign(plan, e, input.conflicts)
    BY <1>1, GreedyTurn
<1> SUFFICES ASSUME NEW st \in Students, NEW c \in Courses, Holds(st, c)'
             PROVE  \E l \in Considered' :
                        /\ IsFor(input'.edges[l], st, c)
                        /\ \/ plan'.assignedCourse[st] = c
                           \/ \E m \in Considered' :
                                  /\ IsFor(input'.edges[m], st, plan'.assignedCourse[st])
                                  /\ Before(l, m)'
    BY DEF Remembered
<1>5. CASE CanAssign(plan, e, input.conflicts) /\ st = e.student
    <2>1. plan'.assignedCourse[st] = e.course
        BY <1>1, <1>5, GreedyTurn
    <2>2. CASE c = e.course
        BY <1>3, <1>5, <2>1, <2>2 DEF IsFor
    <2>3. CASE c # e.course
        <3>1. Holds(st, c)
            BY <1>5, <1>7, <2>3 DEF Holds
        <3>2. PICK l \in Considered : IsFor(input.edges[l], st, c)
            BY <3>1 DEF GreedyOnce, Remembered
        <3>3. l \in Considered' /\ IsFor(input'.edges[l], st, c) /\ Before(l, k)'
            BY <1>1, <1>2, <1>4, <3>2
        <3>4. IsFor(input'.edges[k], st, plan'.assignedCourse[st])
            BY <1>3, <1>5, <2>1 DEF IsFor
        <3> QED BY <1>3, <3>3, <3>4
    <2> QED BY <2>2, <2>3
<1>6. CASE ~(CanAssign(plan, e, input.conflicts) /\ st = e.student)
    <2>1. Holds(st, c) /\ plan'.assignedCourse[st] = plan.assignedCourse[st]
        <3>1. Holds(st, c)
            BY <1>6, <1>7 DEF Holds
        <3>2. plan'.assignedCourse[st] = plan.assignedCourse[st]
            BY <1>1, <1>6, GreedyTurn
        <3> QED BY <3>1, <3>2
    <2>2. PICK l \in Considered :
              /\ IsFor(input.edges[l], st, c)
              /\ \/ plan.assignedCourse[st] = c
                 \/ \E m \in Considered :
                        IsFor(input.edges[m], st, plan.assignedCourse[st]) /\ Before(l, m)
        BY <2>1 DEF GreedyOnce, Remembered
    <2> QED BY <1>1, <1>2, <2>1, <2>2
<1> QED BY <1>5, <1>6

LEMMA TurnHeldOnce ==
    ASSUME TypeOK, CoursesInTurn, GreedyOnce, NEW k \in todo, Turn(k)
    PROVE  HeldOnce'
<1> DEFINE e == input.edges[k]
           n == Len(plan.confirmed)
<1>1. /\ plan \in Plan /\ e \in Edge /\ n \in Nat
      /\ plan' = Consider(plan, e, input.conflicts)
    BY TurnTypes DEF Turn
<1>2. CanAssign(plan, e, input.conflicts) => ~Holds(e.student, e.course)
    BY NotYetHeld
<1> HIDE DEF e
<1>3. CASE CanAssign(plan, e, input.conflicts)
    <2>1. /\ Len(plan'.confirmed) = n + 1 /\ plan'.confirmed[n + 1] = e
          /\ \A i \in 1..n : plan'.confirmed[i] = plan.confirmed[i]
        BY <1>1, <1>3, GreedyTurn
    <2>2. \A i \in 1..n : ~(/\ plan.confirmed[i].student = e.student
                            /\ plan.confirmed[i].course = e.course)
        BY <1>2, <1>3 DEF Holds
    <2>3. \A i \in 1..(n + 1) : i \in 1..n \/ i = n + 1
        BY <1>1
    <2> QED BY <2>1, <2>2, <2>3 DEF GreedyOnce, HeldOnce
<1>4. CASE ~CanAssign(plan, e, input.conflicts)
    <2>1. plan'.confirmed = plan.confirmed
        BY <1>1, <1>4, GreedyTurn
    <2> QED BY <2>1 DEF GreedyOnce, HeldOnce
<1> QED BY <1>3, <1>4

\* OneSectionPerCourse for every batch: although assignedCourse remembers one
\* course of a student only, no batch gives a student two seats of a course.
THEOREM OneSeatPerCourse == Spec => []OneSectionPerCourse
<1> DEFINE Inv == BatchShaped(input.edges) /\ OneRequestPerCourse(input.edges) => GreedyOnce
<1>1. Init => Inv
    <2> SUFFICES ASSUME Init PROVE GreedyOnce
        OBVIOUS
    <2>1. plan.confirmed = << >> /\ Considered = {}
        BY DEF Init, EmptyPlan, Considered
    <2> QED BY <2>1 DEF GreedyOnce, InOrder, Remembered, HeldOnce, Holds
<1>2. /\ TypeOK /\ (BatchShaped(input.edges) => ConfirmedAreEdges)
      /\ Inv /\ [Next]_vars
      => Inv'
    <2> SUFFICES ASSUME TypeOK, BatchShaped(input.edges) => ConfirmedAreEdges, Inv, [Next]_vars,
                        BatchShaped(input'.edges), OneRequestPerCourse(input'.edges)
                 PROVE  GreedyOnce'
        OBVIOUS
    <2>1. input' = input
        BY DEF Next, Greedy, StartSearch, Swap, Return, vars
    <2>2. ConfirmedAreEdges /\ GreedyOnce /\ CoursesInTurn
        BY <2>1, RequestsInTurn
    <2>3. CASE \E k \in todo : Turn(k)
        <3>1. PICK k \in todo : Turn(k)
            BY <2>3
        <3> QED BY <2>1, <2>2, <3>1, TurnInOrder, TurnRemembered, TurnHeldOnce DEF GreedyOnce
    <2>4. CASE UNCHANGED <<plan, todo>>
        BY <2>1, <2>2, <2>4 DEF GreedyOnce, InOrder, Remembered, HeldOnce, Holds, Considered,
                                Before, IsFor
    <2> QED BY <2>1, <2>2, <2>3, <2>4, BatchStep DEF Turn
<1>3. Inv => OneSectionPerCourse
    BY DEF GreedyOnce, HeldOnce, OneSectionPerCourse
<1> QED BY <1>1, <1>2, <1>3, TypeCorrect, BatchConfirmed, PTL DEF Spec

-----------------------------------------------------------------------------
(***************************************************************************)
(* Nobody holds two sections that conflict                                 *)
(***************************************************************************)

\* A conflict is mutual.  CanAssign and MayMove ask for a pair in one order
\* only.
Mutual(conflicts) ==
    \A r, s \in Sections : <<r, s>> \in conflicts => <<s, r>> \in conflicts

\* A section belongs to one course.
SectionsOfOneCourse(edges) ==
    \A i, j \in 1..Len(edges) :
        edges[i].section = edges[j].section => edges[i].course = edges[j].course

\* The calls for which studentSections is all SwapFeasible needs: nothing is
\* swapped, or a student holds one section of a course.
Orderly ==
    /\ Mutual(input.conflicts)
    /\ \/ BatchShaped(input.edges)
       \/ SectionsOfOneCourse(input.edges) /\ CoursesInTurn

\* Every section a student holds is in studentSections.
Recorded ==
    \A i \in 1..Len(plan.confirmed) :
        plan.confirmed[i].section \in plan.studentSections[plan.confirmed[i].student]

\* A confirmed section is one the edges name, with the course they name.
SectionsNamed ==
    \A i \in 1..Len(plan.confirmed) :
        \E l \in 1..Len(input.edges) :
            /\ input.edges[l].section = plan.confirmed[i].section
            /\ input.edges[l].course = plan.confirmed[i].course

ClashFree == Recorded /\ NoClash

\* What a swap needs to keep ClashFree.
SwapSafe == GreedyOnce /\ SectionsNamed

\* A turn that confirms an edge adds its section to those of its student.
LEMMA TurnSections ==
    ASSUME TypeOK, NEW k \in todo, Turn(k), CanAssign(plan, input.edges[k], input.conflicts)
    PROVE  input.edges[k].section \in plan'.studentSections[input.edges[k].student]
<1> DEFINE e == input.edges[k]
<1>1. plan \in Plan /\ e \in Edge /\ plan' = Consider(plan, e, input.conflicts)
    BY TurnTypes DEF Turn
<1> HIDE DEF e
<1>2. plan' = DoAssign(plan, e)
    BY <1>1 DEF Consider, e
<1>3. plan'.studentSections = [plan.studentSections EXCEPT ![e.student] = @ \union {e.section}]
    BY <1>2 DEF DoAssign
<1> QED BY <1>1, <1>3 DEF Plan, Edge, e

\* The greedy loop checks a new section against all its student holds.
LEMMA TurnClashFree ==
    ASSUME TypeOK, Mutual(input.conflicts), ClashFree, NEW k \in todo, Turn(k)
    PROVE  ClashFree'
<1> DEFINE e == input.edges[k]
           n == Len(plan.confirmed)
<1>1. /\ plan \in Plan /\ e \in Edge /\ n \in Nat
      /\ \A i \in 1..n : plan.confirmed[i] \in Edge
      /\ plan' = Consider(plan, e, input.conflicts) /\ input' = input
    BY TurnTypes DEF Turn
<1>2. CanAssign(plan, e, input.conflicts) => e.section \in plan'.studentSections[e.student]
    BY TurnSections
<1>3. \A i \in 1..n : /\ plan.confirmed[i].student \in Students
                      /\ plan.confirmed[i].section \in Sections
    BY <1>1 DEF Edge
<1>4. e.section \in Sections
    BY <1>1 DEF Edge
<1> HIDE DEF e
<1>5. CASE CanAssign(plan, e, input.conflicts)
    <2>1. /\ Len(plan'.confirmed) = n + 1 /\ plan'.confirmed[n + 1] = e
          /\ \A i \in 1..n : plan'.confirmed[i] = plan.confirmed[i]
          /\ \A st \in Students : plan.studentSections[st] \subseteq plan'.studentSections[st]
        BY <1>1, <1>5, GreedyTurn
    <2>2. \A i \in 1..(n + 1) : i \in 1..n \/ i = n + 1
        BY <1>1
    <2>3. Recorded'
        <3>1. ASSUME NEW i \in 1..(n + 1)
              PROVE  plan'.confirmed[i].section
                       \in plan'.studentSections[plan'.confirmed[i].student]
            <4>1. CASE i \in 1..n
                BY <1>3, <2>1, <4>1 DEF ClashFree, Recorded
            <4>2. CASE i = n + 1
                BY <1>2, <1>5, <2>1, <4>2
            <4> QED BY <2>2, <4>1, <4>2
        <3> QED BY <2>1, <3>1 DEF Recorded
    <2>4. ASSUME NEW i \in 1..n, plan.confirmed[i].student = e.student
          PROVE  /\ <<e.section, plan.confirmed[i].section>> \notin input.conflicts
                 /\ <<plan.confirmed[i].section, e.section>> \notin input.conflicts
        <3>1. plan.confirmed[i].section \in plan.studentSections[e.student]
            BY <2>4 DEF ClashFree, Recorded
        <3>2. <<e.section, plan.confirmed[i].section>> \notin input.conflicts
            BY <1>5, <3>1 DEF CanAssign
        <3> QED BY <1>3, <1>4, <3>2 DEF Mutual
    <2>5. NoClash'
        <3> SUFFICES ASSUME NEW i \in 1..(n + 1), NEW j \in 1..(n + 1), i # j,
                            plan'.confirmed[i].student = plan'.confirmed[j].student
                     PROVE  <<plan'.confirmed[i].section, plan'.confirmed[j].section>>
                              \notin input.conflicts
            BY <1>1, <2>1 DEF NoClash
        <3>1. CASE i \in 1..n /\ j \in 1..n
            BY <2>1, <3>1 DEF ClashFree, NoClash
        <3>2. CASE i \in 1..n /\ j = n + 1
            BY <2>1, <2>4, <3>2
        <3>3. CASE i = n + 1 /\ j \in 1..n
            BY <2>1, <2>4, <3>3
        <3> QED BY <2>2, <3>1, <3>2, <3>3
    <2> QED BY <2>3, <2>5 DEF ClashFree
<1>6. CASE ~CanAssign(plan, e, input.conflicts)
    <2>1. plan'.confirmed = plan.confirmed /\ plan'.studentSections = plan.studentSections
        BY <1>1, <1>6, GreedyTurn
    <2> QED BY <1>1, <2>1 DEF ClashFree, Recorded, NoClash
<1> QED BY <1>5, <1>6

\* A turn confirms sections the edges name.
LEMMA TurnNamed ==
    ASSUME TypeOK, SectionsNamed, NEW k \in todo, Turn(k)
    PROVE  SectionsNamed'
<1> DEFINE e == input.edges[k]
<1>1. /\ plan \in Plan /\ e \in Edge /\ k \in 1..Len(input.edges)
      /\ plan' = Consider(plan, e, input.conflicts) /\ input' = input
    BY TurnTypes DEF Turn
<1> HIDE DEF e
<1>2. \A i \in 1..Len(plan'.confirmed) :
          \/ i \in 1..Len(plan.confirmed) /\ plan'.confirmed[i] = plan.confirmed[i]
          \/ plan'.confirmed[i] = e
    <2>1. Len(plan.confirmed) \in Nat
        BY <1>1 DEF Plan
    <2> QED BY <1>1, <2>1, GreedyTurn
<1> QED BY <1>1, <1>2 DEF SectionsNamed, e

\* The sets of sections after a swap of two students.
LEMMA SwappedSections ==
    ASSUME TypeOK, NEW i \in 1..Len(plan.confirmed), NEW j \in 1..Len(plan.confirmed),
           plan.confirmed[i].student # plan.confirmed[j].student
    PROVE  LET a == plan.confirmed[i]
               b == plan.confirmed[j]
               q == Swapped(i, j)
           IN  /\ q.studentSections[a.student]
                    = (plan.studentSections[a.student] \ {a.section}) \union {b.section}
               /\ q.studentSections[b.student]
                    = (plan.studentSections[b.student] \ {b.section}) \union {a.section}
               /\ \A st \in Students :
                      st # a.student /\ st # b.student
                      => q.studentSections[st] = plan.studentSections[st]
<1> DEFINE a == plan.confirmed[i]
           b == plan.confirmed[j]
           left == [plan.studentSections EXCEPT ![a.student] = @ \ {a.section}]
           gone == [left EXCEPT ![b.student] = @ \ {b.section}]
           took == [gone EXCEPT ![a.student] = @ \union {b.section}]
           have == [took EXCEPT ![b.student] = @ \union {a.section}]
<1>1. plan \in Plan /\ plan.studentSections \in [Students -> SUBSET Sections]
    BY DEF TypeOK, Plan
<1>2. a.student \in Students /\ b.student \in Students
    <2>1. a \in Edge /\ b \in Edge
        BY <1>1, ElementOfSeq DEF Plan, Assignment
    <2> QED BY <2>1 DEF Edge
<1>3. Swapped(i, j).studentSections = have
    BY <1>1 DEF Swapped, Plan
<1> HIDE DEF a, b
<1>4. a.student # b.student
    BY DEF a, b
<1>5. /\ have[a.student] = (plan.studentSections[a.student] \ {a.section}) \union {b.section}
      /\ have[b.student] = (plan.studentSections[b.student] \ {b.section}) \union {a.section}
      /\ \A st \in Students :
             st # a.student /\ st # b.student => have[st] = plan.studentSections[st]
    BY <1>1, <1>2, <1>4
<1> QED BY <1>3, <1>5 DEF a, b

\* A swap changes nobody's courses and names no new section.
LEMMA SwapKeepsSafe ==
    ASSUME TypeOK, SwapSafe, input' = input, todo' = todo,
           NEW i \in 1..Len(plan.confirmed), NEW j \in 1..Len(plan.confirmed),
           i # j, Improves(i, j), plan' = Swapped(i, j)
    PROVE  SwapSafe'
<1> DEFINE a == plan.confirmed[i]
           b == plan.confirmed[j]
           n == Len(plan.confirmed)
<1>1. /\ Len(plan'.confirmed) = n
      /\ plan'.confirmed[i] = Moved(a, b.section)
      /\ plan'.confirmed[j] = Moved(b, a.section)
      /\ \A k \in 1..n : k # i /\ k # j => plan'.confirmed[k] = plan.confirmed[k]
    BY SwappedFacts
<1>2. a.course = b.course
    BY DEF Improves
<1>3. \A x, s : /\ Moved(x, s).student = x.student /\ Moved(x, s).course = x.course
                /\ Moved(x, s).section = s
    BY DEF Moved
<1>4. \A k \in 1..n : /\ plan'.confirmed[k].student = plan.confirmed[k].student
                      /\ plan'.confirmed[k].course = plan.confirmed[k].course
    BY <1>1, <1>3
<1>5. plan'.assignedCourse = plan.assignedCourse
    BY DEF Swapped, TypeOK, Plan
<1>6. HeldOnce'
    BY <1>1, <1>4 DEF SwapSafe, GreedyOnce, HeldOnce
<1>7. \A st, c : Holds(st, c)' <=> Holds(st, c)
    BY <1>1, <1>4 DEF Holds
<1>8. InOrder' /\ Considered' = Considered
    BY DEF SwapSafe, GreedyOnce, InOrder, Considered, Before
<1>9. Remembered'
    BY <1>5, <1>7, <1>8 DEF SwapSafe, GreedyOnce, Remembered, Before, IsFor
<1>10. SectionsNamed'
    <2> SUFFICES ASSUME NEW k \in 1..n
                 PROVE  \E l \in 1..Len(input.edges) :
                            /\ input.edges[l].section = plan'.confirmed[k].section
                            /\ input.edges[l].course = plan'.confirmed[k].course
        BY <1>1 DEF SectionsNamed
    <2>1. CASE k = i
        BY <1>1, <1>2, <1>3, <2>1 DEF SwapSafe, SectionsNamed
    <2>2. CASE k = j
        BY <1>1, <1>2, <1>3, <2>2 DEF SwapSafe, SectionsNamed
    <2>3. CASE k # i /\ k # j
        BY <1>1, <2>3 DEF SwapSafe, SectionsNamed
    <2> QED BY <2>1, <2>2, <2>3
<1> QED BY <1>6, <1>8, <1>9, <1>10 DEF SwapSafe, GreedyOnce

\* A swap that SwapFeasible lets through brings no clash: studentSections
\* without the section given up is what the student holds besides.
LEMMA SwapClashFree ==
    ASSUME TypeOK, Mutual(input.conflicts), SectionsOfOneCourse(input.edges),
           SwapSafe, ClashFree, input' = input,
           NEW i \in 1..Len(plan.confirmed), NEW j \in 1..Len(plan.confirmed),
           i # j, Improves(i, j), plan' = Swapped(i, j)
    PROVE  ClashFree'
<1> DEFINE a == plan.confirmed[i]
           b == plan.confirmed[j]
           n == Len(plan.confirmed)
<1>1. /\ Len(plan'.confirmed) = n
      /\ plan'.confirmed[i] = Moved(a, b.section)
      /\ plan'.confirmed[j] = Moved(b, a.section)
      /\ \A k \in 1..n : k # i /\ k # j => plan'.confirmed[k] = plan.confirmed[k]
    BY SwappedFacts
<1>2. /\ a.course = b.course /\ a.section # b.section
      /\ MayMove(a, b.section) /\ MayMove(b, a.section)
    BY DEF Improves, SwapFeasible
<1>3. /\ plan'.confirmed[i].student = a.student /\ plan'.confirmed[i].section = b.section
      /\ plan'.confirmed[j].student = b.student /\ plan'.confirmed[j].section = a.section
    <2>1. \A x, s : Moved(x, s).student = x.student /\ Moved(x, s).section = s
        BY DEF Moved
    <2> QED BY <1>1, <2>1
<1>4. \A k \in 1..n : plan.confirmed[k].student \in Students /\ plan.confirmed[k].section \in Sections
    <2>1. \A k \in 1..n : plan.confirmed[k] \in Edge
        BY ElementOfSeq DEF TypeOK, Plan, Assignment
    <2> QED BY <2>1 DEF Edge
<1>5. \A k, m \in 1..n : plan.confirmed[k].section = plan.confirmed[m].section
                           => plan.confirmed[k].course = plan.confirmed[m].course
    <2> SUFFICES ASSUME NEW k \in 1..n, NEW m \in 1..n,
                        plan.confirmed[k].section = plan.confirmed[m].section
                 PROVE  plan.confirmed[k].course = plan.confirmed[m].course
        OBVIOUS
    <2>1. PICK l \in 1..Len(input.edges) :
              /\ input.edges[l].section = plan.confirmed[k].section
              /\ input.edges[l].course = plan.confirmed[k].course
        BY DEF SwapSafe, SectionsNamed
    <2>2. PICK r \in 1..Len(input.edges) :
              /\ input.edges[r].section = plan.confirmed[m].section
              /\ input.edges[r].course = plan.confirmed[m].course
        BY DEF SwapSafe, SectionsNamed
    <2> QED BY <2>1, <2>2 DEF SectionsOfOneCourse
<1>6. a.student # b.student
    BY <1>2 DEF SwapSafe, GreedyOnce, HeldOnce
<1>7. \A k \in 1..n : k # i /\ plan.confirmed[k].student = a.student
                        => plan.confirmed[k].section # a.section /\ k # j
    BY <1>5, <1>6 DEF SwapSafe, GreedyOnce, HeldOnce
<1>8. \A k \in 1..n : k # j /\ plan.confirmed[k].student = b.student
                        => plan.confirmed[k].section # b.section /\ k # i
    BY <1>5, <1>6 DEF SwapSafe, GreedyOnce, HeldOnce
<1>9. /\ plan'.studentSections[a.student]
           = (plan.studentSections[a.student] \ {a.section}) \union {b.section}
      /\ plan'.studentSections[b.student]
           = (plan.studentSections[b.student] \ {b.section}) \union {a.section}
      /\ \A st \in Students :
             st # a.student /\ st # b.student
             => plan'.studentSections[st] = plan.studentSections[st]
    <2> DEFINE q == Swapped(i, j)
    <2>1. /\ q.studentSections[a.student]
               = (plan.studentSections[a.student] \ {a.section}) \union {b.section}
          /\ q.studentSections[b.student]
               = (plan.studentSections[b.student] \ {b.section}) \union {a.section}
          /\ \A st \in Students :
                 st # a.student /\ st # b.student
                 => q.studentSections[st] = plan.studentSections[st]
        BY <1>6, SwappedSections
    <2>2. plan' = q
        OBVIOUS
    <2> HIDE DEF a, b, q
    <2> QED BY <2>1, <2>2
<1>10. Recorded'
    <2> SUFFICES ASSUME NEW k \in 1..n
                 PROVE  plan'.confirmed[k].section
                          \in plan'.studentSections[plan'.confirmed[k].student]
        BY <1>1 DEF Recorded
    <2>1. CASE k = i
        BY <1>3, <1>9, <2>1
    <2>2. CASE k = j
        BY <1>3, <1>9, <2>2
    <2>3. CASE k # i /\ k # j
        <3>1. /\ plan'.confirmed[k] = plan.confirmed[k]
              /\ plan.confirmed[k].section \in plan.studentSections[plan.confirmed[k].student]
            BY <1>1, <2>3 DEF ClashFree, Recorded
        <3>2. CASE plan.confirmed[k].student = a.student
            BY <1>7, <1>9, <2>3, <3>1, <3>2
        <3>3. CASE plan.confirmed[k].student = b.student
            BY <1>8, <1>9, <2>3, <3>1, <3>3
        <3>4. CASE plan.confirmed[k].student # a.student /\ plan.confirmed[k].student # b.student
            BY <1>4, <1>9, <3>1, <3>4
        <3> QED BY <3>2, <3>3, <3>4
    <2> QED BY <2>1, <2>2, <2>3
<1>11. ASSUME NEW k \in 1..n, k # i, plan.confirmed[k].student = a.student
       PROVE  /\ plan'.confirmed[k] = plan.confirmed[k]
              /\ <<b.section, plan.confirmed[k].section>> \notin input.conflicts
              /\ <<plan.confirmed[k].section, b.section>> \notin input.conflicts
    <2>1. plan.confirmed[k].section \in plan.studentSections[a.student] \ {a.section}
        BY <1>7, <1>11 DEF ClashFree, Recorded
    <2>2. <<b.section, plan.confirmed[k].section>> \notin input.conflicts
        BY <1>2, <2>1 DEF MayMove
    <2> QED BY <1>1, <1>4, <1>7, <1>11, <2>2 DEF Mutual
<1>12. ASSUME NEW k \in 1..n, k # j, plan.confirmed[k].student = b.student
       PROVE  /\ plan'.confirmed[k] = plan.confirmed[k]
              /\ <<a.section, plan.confirmed[k].section>> \notin input.conflicts
              /\ <<plan.confirmed[k].section, a.section>> \notin input.conflicts
    <2>1. plan.confirmed[k].section \in plan.studentSections[b.student] \ {b.section}
        BY <1>8, <1>12 DEF ClashFree, Recorded
    <2>2. <<a.section, plan.confirmed[k].section>> \notin input.conflicts
        BY <1>2, <2>1 DEF MayMove
    <2> QED BY <1>1, <1>4, <1>8, <1>12, <2>2 DEF Mutual
<1>13. NoClash'
    <2> HIDE DEF a, b
    <2> SUFFICES ASSUME NEW k \in 1..n, NEW m \in 1..n, k # m,
                        plan'.confirmed[k].student = plan'.confirmed[m].student
                 PROVE  <<plan'.confirmed[k].section, plan'.confirmed[m].section>>
                          \notin input.conflicts
        BY <1>1 DEF NoClash
    <2>1. plan.confirmed[k].student = plan.confirmed[m].student
        <3>1. \A x \in 1..n : plan'.confirmed[x].student = plan.confirmed[x].student
            BY <1>1, <1>3 DEF a, b
        <3> QED BY <3>1
    <2>2. CASE k = i
        <3>1. m # i /\ plan.confirmed[m].student = a.student
            BY <2>1, <2>2 DEF a
        <3> QED BY <1>3, <1>11, <2>2, <3>1
    <2>3. CASE m = i
        <3>1. k # i /\ plan.confirmed[k].student = a.student
            BY <2>1, <2>3 DEF a
        <3> QED BY <1>3, <1>11, <2>3, <3>1
    <2>4. CASE k = j
        <3>1. m # j /\ plan.confirmed[m].student = b.student
            BY <2>1, <2>4 DEF b
        <3> QED BY <1>3, <1>12, <2>4, <3>1
    <2>5. CASE m = j
        <3>1. k # j /\ plan.confirmed[k].student = b.student
            BY <2>1, <2>5 DEF b
        <3> QED BY <1>3, <1>12, <2>5, <3>1
    <2>6. CASE k # i /\ k # j /\ m # i /\ m # j
        BY <1>1, <2>1, <2>6 DEF ClashFree, NoClash
    <2> QED BY <2>2, <2>3, <2>4, <2>5, <2>6
<1> QED BY <1>10, <1>13 DEF ClashFree

\* NoClash for every orderly call, through greedy loop and swaps: checking the
\* set studentSections is as good as checking the confirmed assignments.
THEOREM NobodyClashes == Spec => [](Orderly => NoClash)
<1> DEFINE InTurn == SectionsOfOneCourse(input.edges) /\ CoursesInTurn
           Inv == Orderly => ClashFree /\ (InTurn => SwapSafe)
<1>1. Init => Inv
    <2> SUFFICES ASSUME Init PROVE ClashFree /\ SwapSafe
        OBVIOUS
    <2>1. plan.confirmed = << >> /\ Considered = {}
        BY DEF Init, EmptyPlan, Considered
    <2> QED BY <2>1 DEF ClashFree, Recorded, NoClash, SwapSafe, SectionsNamed, GreedyOnce,
                        InOrder, Remembered, HeldOnce, Holds
<1>2. TypeOK /\ (BatchShaped(input.edges) => ConfirmedAreEdges) /\ Inv /\ [Next]_vars => Inv'
    <2> SUFFICES ASSUME TypeOK, BatchShaped(input.edges) => ConfirmedAreEdges, Inv, [Next]_vars
                 PROVE  Inv'
        OBVIOUS
    <2>1. input' = input
        BY DEF Next, Greedy, StartSearch, Swap, Return, vars
    <2>2. (Orderly' <=> Orderly) /\ (InTurn' <=> InTurn)
        BY <2>1 DEF Orderly, CoursesInTurn, Before
    <2> SUFFICES ASSUME Orderly PROVE ClashFree' /\ (InTurn => SwapSafe')
        BY <2>2
    <2>3. ClashFree /\ (InTurn => SwapSafe) /\ Mutual(input.conflicts)
        BY DEF Orderly
    <2>4. CASE Greedy
        <3>1. PICK k \in todo : Turn(k)
            BY <2>4 DEF Greedy, Turn
        <3>2. ClashFree'
            BY <2>3, <3>1, TurnClashFree
        <3>3. InTurn => SwapSafe'
            BY <2>3, <3>1, TurnInOrder, TurnRemembered, TurnHeldOnce, TurnNamed
               DEF SwapSafe, GreedyOnce
        <3> QED BY <3>2, <3>3
    <2>5. CASE Swap
        <3>1. ~BatchShaped(input.edges)
            BY <2>5, NothingImproves
        <3>2. InTurn
            BY <3>1 DEF Orderly
        <3>3. PICK p \in Pairs : IsFirst(p) /\ plan' = Swapped(p[1], p[2])
            BY <2>5 DEF Swap
        <3>4. /\ p[1] \in 1..Len(plan.confirmed) /\ p[2] \in 1..Len(plan.confirmed)
              /\ p[1] # p[2] /\ Improves(p[1], p[2])
            BY <3>3 DEF Pairs, IsFirst, Improving
        <3>5. todo' = todo
            BY <2>5 DEF Swap
        <3>6. ClashFree'
            BY <2>1, <2>3, <3>2, <3>3, <3>4, SwapClashFree
        <3>7. SwapSafe'
            BY <2>1, <2>3, <3>2, <3>3, <3>4, <3>5, SwapKeepsSafe
        <3> QED BY <3>6, <3>7
    <2>6. CASE StartSearch \/ Return \/ UNCHANGED vars
        <3>1. UNCHANGED <<input, plan, todo>>
            BY <2>6 DEF StartSearch, Return, vars
        <3>2. ClashFree'
            BY <2>3, <3>1 DEF ClashFree, Recorded, NoClash
        <3>3. SwapSafe => SwapSafe'
            <4> SUFFICES ASSUME SwapSafe PROVE SwapSafe'
                OBVIOUS
            <4>1. SectionsNamed' /\ HeldOnce'
                BY <3>1 DEF SwapSafe, GreedyOnce, SectionsNamed, HeldOnce
            <4>2. /\ Considered' = Considered
                  /\ \A l, m : Before(l, m)' <=> Before(l, m)
                  /\ \A st, c : Holds(st, c)' <=> Holds(st, c)
                BY <3>1 DEF Considered, Before, Holds
            <4>3. InOrder' /\ Remembered'
                BY <3>1, <4>2 DEF SwapSafe, GreedyOnce, InOrder, Remembered, IsFor
            <4> QED BY <4>1, <4>3 DEF SwapSafe, GreedyOnce
        <3> QED BY <2>3, <3>2, <3>3
    <2> QED BY <2>4, <2>5, <2>6 DEF Next
<1>3. Inv => (Orderly => NoClash)
    BY DEF ClashFree
<1> QED BY <1>1, <1>2, <1>3, TypeCorrect, BatchConfirmed, PTL DEF Spec

-----------------------------------------------------------------------------
(***************************************************************************)
(* The local search ends in a local optimum                                *)
(***************************************************************************)

\* The score a confirmed assignment records is the one scoreOf has.
ScoresRecorded ==
    \A i \in 1..Len(plan.confirmed) :
        plan.confirmed[i].score = ScoreOf(plan.confirmed[i].student, plan.confirmed[i].section)

\* Why Solve stopped.
SearchEnded == phase = "done" => iter = MaxIter \/ Improving = {}

\* The entry of scoreOf for an edge that is the only one of its kind.
LEMMA ScoreOfEdge ==
    ASSUME TypeOK, AskedOnce(input.edges), NEW k \in 1..Len(input.edges)
    PROVE  ScoreOf(input.edges[k].student, input.edges[k].section) = input.edges[k].score
<1> DEFINE edges == input.edges
           hits == Hits(edges, edges[k].student, edges[k].section)
<1>1. hits = {k}
    BY DEF Hits, AskedOnce
<1>2. Len(edges) \in Nat
    BY DEF TypeOK, Input
<1>3. (CHOOSE i \in hits : \A j \in hits : j <= i) = k
    BY <1>1, <1>2
<1> QED BY <1>1, <1>3 DEF ScoreOf, ScoreIn

\* Gain weighs a swap the same from both sides.
LEMMA GainSymmetric ==
    ASSUME TypeOK, NEW i \in 1..Len(plan.confirmed), NEW j \in 1..Len(plan.confirmed),
           Improves(i, j)
    PROVE  Improves(j, i)
<1> DEFINE a == plan.confirmed[i]
           b == plan.confirmed[j]
<1>1. \A st, sec : ScoreOf(st, sec) \in Int
    BY ScoreInType DEF ScoreOf, TypeOK, Input
<1>2. Gain(a, b) = Gain(b, a)
    BY <1>1 DEF Gain
<1> QED BY <1>2 DEF Improves, SwapFeasible

\* The scores that confirmed records stay those of scoreOf, through the greedy
\* loop and every swap.
LEMMA RecordedKept == Spec => [](AskedOnce(input.edges) => ScoresRecorded)
<1> DEFINE Inv == AskedOnce(input.edges) => ScoresRecorded
<1>1. Init => Inv
    BY DEF Init, EmptyPlan, ScoresRecorded
<1>2. TypeOK /\ Inv /\ [Next]_vars => Inv'
    <2> SUFFICES ASSUME TypeOK, Inv, [Next]_vars PROVE Inv'
        OBVIOUS
    <2>1. input' = input
        BY DEF Next, Greedy, StartSearch, Swap, Return, vars
    <2>2. ASSUME AskedOnce(input.edges) PROVE ScoresRecorded'
        <3>1. ScoresRecorded
            BY <2>2
        <3>2. \A st, sec : ScoreOf(st, sec)' = ScoreOf(st, sec)
            BY <2>1 DEF ScoreOf
        <3>3. CASE Greedy
            <4>1. PICK k \in todo : Turn(k)
                BY <3>3 DEF Greedy, Turn
            <4> DEFINE e == input.edges[k]
            <4>2. /\ plan \in Plan /\ e \in Edge /\ k \in 1..Len(input.edges)
                  /\ Len(plan.confirmed) \in Nat
                  /\ plan' = Consider(plan, e, input.conflicts)
                BY <4>1, TurnTypes DEF Turn
            <4>3. ScoreOf(e.student, e.section) = e.score
                BY <2>2, <4>2, ScoreOfEdge
            <4> HIDE DEF e
            <4>4. \A i \in 1..Len(plan'.confirmed) :
                      \/ i \in 1..Len(plan.confirmed) /\ plan'.confirmed[i] = plan.confirmed[i]
                      \/ plan'.confirmed[i] = e
                BY <4>2, GreedyTurn
            <4> QED BY <3>1, <3>2, <4>3, <4>4 DEF ScoresRecorded
        <3>4. CASE Swap
            <4>1. PICK p \in Pairs : plan' = Swapped(p[1], p[2])
                BY <3>4 DEF Swap
            <4> DEFINE i == p[1]
                       j == p[2]
            <4>2. i \in 1..Len(plan.confirmed) /\ j \in 1..Len(plan.confirmed) /\ i # j
                BY DEF Pairs
            <4>3. /\ Len(plan'.confirmed) = Len(plan.confirmed)
                  /\ plan'.confirmed[i] = Moved(plan.confirmed[i], plan.confirmed[j].section)
                  /\ plan'.confirmed[j] = Moved(plan.confirmed[j], plan.confirmed[i].section)
                  /\ \A k \in 1..Len(plan.confirmed) :
                         k # i /\ k # j => plan'.confirmed[k] = plan.confirmed[k]
                BY <4>1, <4>2, SwappedFacts
            <4>4. \A x, s : Moved(x, s).score = ScoreOf(Moved(x, s).student, Moved(x, s).section)
                BY DEF Moved
            <4> QED BY <3>1, <3>2, <4>3, <4>4 DEF ScoresRecorded
        <3>5. CASE StartSearch \/ Return \/ UNCHANGED vars
            <4>1. plan' = plan
                BY <3>5 DEF StartSearch, Return, vars
            <4> QED BY <3>1, <3>2, <4>1 DEF ScoresRecorded
        <3> QED BY <3>3, <3>4, <3>5 DEF Next
    <2> QED BY <2>1, <2>2
<1> QED BY <1>1, <1>2, TypeCorrect, PTL DEF Spec

\* LocalOptimum whenever the search ended by itself: what it compares, the
\* scores of scoreOf, are the scores confirmed records.
THEOREM SearchedToTheEnd ==
    Spec => [](iter < MaxIter /\ AskedOnce(input.edges) => LocalOptimum)
<1> DEFINE Same == AskedOnce(input.edges) => ScoresRecorded
<1>1. Init => SearchEnded
    BY DEF Init, SearchEnded
<1>2. TypeOK /\ SearchEnded /\ [Next]_vars => SearchEnded'
    <2> SUFFICES ASSUME TypeOK, SearchEnded, [Next]_vars PROVE SearchEnded'
        OBVIOUS
    <2>1. input' = input
        BY DEF Next, Greedy, StartSearch, Swap, Return, vars
    <2>2. SearchEnded'
        <3>1. CASE Greedy \/ StartSearch \/ Swap
            BY <3>1 DEF Greedy, StartSearch, Swap, SearchEnded
        <3>2. CASE Return
            BY <3>2 DEF Return, SearchEnded, Improving, Pairs, Improves, Gain, ScoreOf,
                        SwapFeasible, MayMove
        <3>3. CASE UNCHANGED vars
            BY <3>3 DEF vars, SearchEnded, Improving, Pairs, Improves, Gain, ScoreOf,
                        SwapFeasible, MayMove
        <3> QED BY <3>1, <3>2, <3>3 DEF Next
    <2> QED BY <2>2
<1>3. TypeOK /\ SearchEnded /\ Same => (iter < MaxIter /\ AskedOnce(input.edges) => LocalOptimum)
    <2> SUFFICES ASSUME TypeOK, SearchEnded, Same, iter < MaxIter, AskedOnce(input.edges), phase = "done",
                        NEW i \in 1..Len(plan.confirmed), NEW j \in 1..Len(plan.confirmed),
                        plan.confirmed[i].course = plan.confirmed[j].course,
                        ScoreOf(plan.confirmed[i].student, plan.confirmed[j].section)
                          + ScoreOf(plan.confirmed[j].student, plan.confirmed[i].section)
                          > plan.confirmed[i].score + plan.confirmed[j].score,
                        SwapFeasible(plan.confirmed[i], plan.confirmed[j])
                 PROVE  FALSE
        BY DEF LocalOptimum
    <2> DEFINE a == plan.confirmed[i]
               b == plan.confirmed[j]
    <2>1. Improving = {}
        BY MaxIterAssumption DEF SearchEnded, TypeOK
    <2>2. \A st, sec : ScoreOf(st, sec) \in Int
        BY ScoreInType DEF ScoreOf, TypeOK, Input
    <2>3. /\ a.score = ScoreOf(a.student, a.section)
          /\ b.score = ScoreOf(b.student, b.section)
        BY DEF ScoresRecorded
    <2>4. a.section # b.section
        <3>1. ScoreOf(a.student, b.section) + ScoreOf(b.student, a.section) > a.score + b.score
            OBVIOUS
        <3> HIDE DEF a, b
        <3>2. a.section = b.section => ~(ScoreOf(a.student, b.section) + ScoreOf(b.student, a.section)
                                           > a.score + b.score)
            BY <2>2, <2>3
        <3> QED BY <3>1, <3>2
    <2>5. Gain(a, b) > 0
        <3>1. ScoreOf(a.student, b.section) + ScoreOf(b.student, a.section) > a.score + b.score
            OBVIOUS
        <3> HIDE DEF a, b
        <3> QED BY <2>2, <2>3, <3>1 DEF Gain
    <2>6. Improves(i, j)
        BY <2>4, <2>5 DEF Improves
    <2>7. i # j
        BY <2>4
    <2>8. CASE i < j
        <3>1. <<i, j>> \in Pairs
            BY <2>8 DEF Pairs
        <3>2. <<i, j>> \in Improving
            BY <2>6, <3>1 DEF Improving
        <3> QED BY <2>1, <3>2
    <2>9. CASE j < i
        <3>1. Improves(j, i)
            BY <2>6, GainSymmetric
        <3>2. <<j, i>> \in Pairs
            BY <2>9 DEF Pairs
        <3>3. <<j, i>> \in Improving
            BY <3>1, <3>2 DEF Improving
        <3> QED BY <2>1, <3>3
    <2>10. Len(plan.confirmed) \in Nat
        BY DEF TypeOK, Plan
    <2> QED BY <2>7, <2>8, <2>9, <2>10
<1> QED BY <1>1, <1>2, <1>3, TypeCorrect, RecordedKept, PTL DEF Spec

-----------------------------------------------------------------------------
(***************************************************************************)
(* Every swap raises the total                                             *)
(***************************************************************************)

\* Every nonempty set of natural numbers has a least one: induction over the
\* positions of a sum is an argument about its first bad position.
LEMMA LeastNumber ==
    ASSUME NEW S, S \subseteq Nat, S # {}
    PROVE  \E n \in S : \A m \in S : n <= m
<1>1. PICK n \in S : \A m \in S : ~(<<m, n>> \in OpToRel(<, Nat))
    BY NatLessThanWellFounded, WFMin
<1>2. \A m \in S : ~(m < n)
    BY <1>1 DEF OpToRel
<1> QED BY <1>2

\* The sums of the scores of the first 0, 1, ..., n assignments of a list.
IsSums(f, s, n) == f = [k \in 0..n |-> IF k = 0 THEN 0 ELSE f[k - 1] + s[k].score]

\* There are such sums for every length.
LEMMA SumsExist ==
    ASSUME NEW s
    PROVE  \A n \in Nat : \E f : IsSums(f, s, n)
<1> DEFINE bad == {n \in Nat : ~\E f : IsSums(f, s, n)}
<1> SUFFICES ASSUME bad # {} PROVE FALSE
    OBVIOUS
<1>1. PICK n \in bad : \A m \in bad : n <= m
    BY LeastNumber
<1>2. CASE n = 0
    <2>1. IsSums([k \in 0..0 |-> 0], s, 0)
        BY DEF IsSums
    <2> QED BY <1>2, <2>1
<1>3. CASE n # 0
    <2>1. n - 1 \in Nat /\ n - 1 \notin bad
        BY <1>1, <1>3
    <2>2. PICK f : IsSums(f, s, n - 1)
        BY <2>1
    <2> DEFINE g == [k \in 0..n |-> IF k = n THEN f[n - 1] + s[n].score ELSE f[k]]
    <2>3. \A k \in 0..(n - 1) : f[k] = IF k = 0 THEN 0 ELSE f[k - 1] + s[k].score
        BY <2>2 DEF IsSums
    <2>4. \A k \in 0..n : k # 0 => k - 1 \in 0..n /\ k - 1 # n
        OBVIOUS
    <2>5. \A k \in 0..n : k = n \/ k \in 0..(n - 1)
        OBVIOUS
    <2>6. \A k \in 0..n : g[k] = IF k = 0 THEN 0 ELSE g[k - 1] + s[k].score
        <3> SUFFICES ASSUME NEW k \in 0..n
                     PROVE  g[k] = IF k = 0 THEN 0 ELSE g[k - 1] + s[k].score
            OBVIOUS
        <3>1. CASE k = n
            <4>1. g[n - 1] = f[n - 1]
                BY <1>3, <2>4
            <4>2. g[n] = f[n - 1] + s[n].score
                BY <3>1
            <4> QED BY <1>3, <3>1, <4>1, <4>2
        <3>2. CASE k # n
            <4>1. k \in 0..(n - 1)
                BY <2>5, <3>2
            <4>2. g[k] = f[k]
                BY <3>2
            <4>3. k # 0 => g[k - 1] = f[k - 1]
                BY <2>4
            <4> HIDE DEF g
            <4> QED BY <2>3, <4>1, <4>2, <4>3
        <3> QED BY <3>1, <3>2
    <2>7. g = [k \in 0..n |-> g[k]]
        OBVIOUS
    <2> HIDE DEF g
    <2>8. IsSums(g, s, n)
        BY <2>6, <2>7 DEF IsSums
    <2> QED BY <2>8
<1> QED BY <1>2, <1>3

\* The total is the last of the sums, which grow by one score at a time.
LEMMA TotalIsSum ==
    ASSUME NEW s \in Seq(Edge)
    PROVE  \E f : /\ Total(s) = f[Len(s)]
                  /\ f[0] = 0
                  /\ \A k \in 1..Len(s) : f[k] = f[k - 1] + s[k].score
                  /\ \A k \in 0..Len(s) : f[k] \in Int
<1> DEFINE f == CHOOSE f : IsSums(f, s, Len(s))
           bad == {k \in 0..Len(s) : f[k] \notin Int}
<1>1. Len(s) \in Nat
    OBVIOUS
<1>2. IsSums(f, s, Len(s))
    BY <1>1, SumsExist
<1>3. Total(s) = f[Len(s)]
    BY DEF Total, IsSums
<1> HIDE DEF f
<1>4. \A k \in 0..Len(s) : f[k] = IF k = 0 THEN 0 ELSE f[k - 1] + s[k].score
    BY <1>2 DEF IsSums
<1>5. \A k \in 1..Len(s) : s[k].score \in Int
    <2>1. \A k \in 1..Len(s) : s[k] \in Edge
        BY ElementOfSeq
    <2> QED BY <2>1 DEF Edge
<1>6. bad = {}
    <2> SUFFICES ASSUME bad # {} PROVE FALSE
        OBVIOUS
    <2>1. bad \subseteq Nat
        BY <1>1
    <2>2. PICK k \in bad : \A m \in bad : k <= m
        <3> HIDE DEF bad
        <3> QED BY <2>1, LeastNumber
    <2>3. k # 0
        BY <1>1, <1>4, <2>2
    <2>4. k - 1 \in 0..Len(s) /\ k \in 1..Len(s)
        BY <1>1, <2>3
    <2>5. f[k - 1] \in Int
        BY <2>2, <2>4
    <2>6. f[k] = f[k - 1] + s[k].score
        BY <1>4, <2>3
    <2> HIDE DEF bad
    <2>7. f[k] \in Int
        BY <1>5, <2>4, <2>5, <2>6
    <2> QED BY <2>2, <2>7 DEF bad
<1>7. f[0] = 0
    BY <1>1, <1>4
<1>8. \A k \in 1..Len(s) : f[k] = f[k - 1] + s[k].score
    BY <1>1, <1>4
<1>9. \A k \in 0..Len(s) : f[k] \in Int
    BY <1>6
<1> QED BY <1>3, <1>7, <1>8, <1>9

\* Two lists that differ in two positions: the total is larger where the two
\* scores together are.
LEMMA TotalGrows ==
    ASSUME NEW s \in Seq(Edge), NEW t \in Seq(Edge), Len(t) = Len(s),
           NEW i \in 1..Len(s), NEW j \in 1..Len(s), i < j,
           \A k \in 1..Len(s) : k # i /\ k # j => t[k] = s[k],
           t[i].score + t[j].score > s[i].score + s[j].score
    PROVE  Total(t) > Total(s)
<1>1. PICK f : /\ Total(s) = f[Len(s)]
               /\ f[0] = 0
               /\ \A k \in 1..Len(s) : f[k] = f[k - 1] + s[k].score
               /\ \A k \in 0..Len(s) : f[k] \in Int
    BY TotalIsSum
<1>2. PICK g : /\ Total(t) = g[Len(t)]
               /\ g[0] = 0
               /\ \A k \in 1..Len(t) : g[k] = g[k - 1] + t[k].score
               /\ \A k \in 0..Len(t) : g[k] \in Int
    BY TotalIsSum
<1> DEFINE u == t[i].score - s[i].score
           v == t[j].score - s[j].score
           gap == [k \in 0..Len(s) |-> IF k < i THEN 0 ELSE IF k < j THEN u ELSE u + v]
           bad == {k \in 0..Len(s) : g[k] # f[k] + gap[k]}
<1>3. Len(s) \in Nat /\ i \in Nat /\ j \in Nat
    OBVIOUS
<1>4. \A k \in 1..Len(s) : s[k].score \in Int /\ t[k].score \in Int
    <2>1. \A k \in 1..Len(s) : s[k] \in Edge /\ t[k] \in Edge
        BY ElementOfSeq
    <2> QED BY <2>1 DEF Edge
<1>5. /\ u \in Int /\ v \in Int /\ u + v > 0
      /\ t[i].score = s[i].score + u
      /\ t[j].score = s[j].score + v
    <2>1. /\ s[i].score \in Int /\ t[i].score \in Int
          /\ s[j].score \in Int /\ t[j].score \in Int
        BY <1>4
    <2> QED BY <2>1
<1> HIDE DEF u, v
<1>6. /\ \A k \in 0..Len(s) : k < i => gap[k] = 0
      /\ \A k \in 0..Len(s) : i <= k /\ k < j => gap[k] = u
      /\ \A k \in 0..Len(s) : j <= k => gap[k] = u + v
    BY <1>3
<1> HIDE DEF gap
<1>7. bad = {}
    <2> SUFFICES ASSUME bad # {} PROVE FALSE
        OBVIOUS
    <2>1. bad \subseteq Nat
        BY <1>3
    <2>2. PICK k \in bad : \A m \in bad : k <= m
        <3> HIDE DEF bad
        <3> QED BY <2>1, LeastNumber
    <2>3. k \in 0..Len(s) /\ g[k] # f[k] + gap[k]
        BY <2>2
    <2>4. k # 0
        <3> HIDE DEF bad
        <3>1. 0 \in 0..Len(s) /\ 0 < i
            BY <1>3
        <3>2. gap[0] = 0
            BY <1>6, <3>1
        <3>3. f[0] = 0 /\ g[0] = 0
            BY <1>1, <1>2
        <3>4. k = 0 => g[k] = f[k] + gap[k]
            BY <3>2, <3>3
        <3> QED BY <2>3, <3>4
    <2>5. k - 1 \in 0..Len(s) /\ k \in 1..Len(s) /\ k \in Int
        BY <1>3, <2>3, <2>4
    <2>6. g[k - 1] = f[k - 1] + gap[k - 1]
        <3>1. k - 1 \notin bad
            <4> HIDE DEF bad
            <4> QED BY <2>2, <2>5
        <3> QED BY <2>5, <3>1
    <2> HIDE DEF bad
    <2>7. /\ f[k] = f[k - 1] + s[k].score
          /\ g[k] = g[k - 1] + t[k].score
          /\ f[k - 1] \in Int /\ s[k].score \in Int /\ t[k].score \in Int
        BY <1>1, <1>2, <1>4, <2>5
    <2>8. CASE k < i
        <3>1. gap[k] = 0 /\ gap[k - 1] = 0 /\ t[k] = s[k]
            BY <1>3, <1>6, <2>3, <2>5, <2>8
        <3> QED BY <2>3, <2>6, <2>7, <3>1
    <2>9. CASE k = i
        <3>1. gap[k] = u /\ gap[k - 1] = 0
            BY <1>3, <1>6, <2>3, <2>5, <2>9
        <3> QED BY <1>5, <2>3, <2>6, <2>7, <2>9, <3>1
    <2>10. CASE i < k /\ k < j
        <3>1. gap[k] = u /\ gap[k - 1] = u /\ t[k] = s[k]
            BY <1>3, <1>6, <2>3, <2>5, <2>10
        <3> QED BY <1>5, <2>3, <2>6, <2>7, <3>1
    <2>11. CASE k = j
        <3>1. gap[k] = u + v /\ gap[k - 1] = u
            BY <1>3, <1>6, <2>3, <2>5, <2>11
        <3> QED BY <1>5, <2>3, <2>6, <2>7, <2>11, <3>1
    <2>12. CASE j < k
        <3>1. gap[k] = u + v /\ gap[k - 1] = u + v /\ t[k] = s[k]
            BY <1>3, <1>6, <2>3, <2>5, <2>12
        <3> QED BY <1>5, <2>3, <2>6, <2>7, <3>1
    <2> QED BY <1>3, <2>5, <2>8, <2>9, <2>10, <2>11, <2>12
<1>8. Len(s) \in 0..Len(s) /\ j <= Len(s)
    BY <1>3
<1>9. g[Len(s)] = f[Len(s)] + gap[Len(s)]
    BY <1>7, <1>8
<1>10. gap[Len(s)] = u + v /\ f[Len(s)] \in Int
    BY <1>1, <1>6, <1>8
<1> HIDE DEF bad
<1> QED BY <1>1, <1>2, <1>5, <1>9, <1>10

\* ScoreRises for every call that either is a batch, which never swaps, or asks
\* for no section twice, so that what a swap gains by scoreOf is what it gains
\* by the scores that confirmed records.
THEOREM SwapsRaiseTheTotal ==
    ASSUME \A call \in Inputs : BatchShaped(call.edges) \/ AskedOnce(call.edges)
    PROVE  Spec => ScoreRises
<1> DEFINE Plain == BatchShaped(input.edges) \/ AskedOnce(input.edges)
           Same  == AskedOnce(input.edges) => ScoresRecorded
           Batch == BatchShaped(input.edges) => ConfirmedAreEdges
           Step  == phase = "search" /\ plan' # plan => Total(plan'.confirmed) > Total(plan.confirmed)
<1>1. Init => Plain
    BY DEF Init
<1>2. Plain /\ [Next]_vars => Plain'
    BY DEF Next, Greedy, StartSearch, Swap, Return, vars
<1>3. TypeOK /\ Plain /\ Same /\ Batch /\ [Next]_vars => [Step]_vars
    <2> SUFFICES ASSUME TypeOK, Plain, Same, Batch, [Next]_vars, phase = "search", plan' # plan
                 PROVE  Total(plan'.confirmed) > Total(plan.confirmed)
        OBVIOUS
    <2>1. Swap
        BY DEF Next, Greedy, StartSearch, Return, vars
    <2>2. ~BatchShaped(input.edges)
        BY <2>1, NothingImproves
    <2>3. ScoresRecorded
        BY <2>2
    <2>4. PICK p \in Pairs : IsFirst(p) /\ plan' = Swapped(p[1], p[2])
        BY <2>1 DEF Swap
    <2> DEFINE i == p[1]
               j == p[2]
               s == plan.confirmed
               t == plan'.confirmed
    <2>5. i \in 1..Len(s) /\ j \in 1..Len(s) /\ i < j /\ Improves(i, j)
        BY <2>4 DEF Pairs, IsFirst, Improving
    <2>6. /\ plan' \in Plan
          /\ Len(t) = Len(s)
          /\ t[i] = Moved(s[i], s[j].section)
          /\ t[j] = Moved(s[j], s[i].section)
          /\ \A k \in 1..Len(s) : k # i /\ k # j => t[k] = s[k]
        <3>1. i # j
            BY <2>5
        <3>2. plan' = Swapped(i, j)
            BY <2>4
        <3> HIDE DEF i, j
        <3> QED BY <2>5, <3>1, <3>2, SwappedFacts
    <2>7. s \in Seq(Edge) /\ t \in Seq(Edge)
        BY <2>6 DEF TypeOK, Plan, Assignment
    <2>8. /\ s[i].score = ScoreOf(s[i].student, s[i].section)
          /\ s[j].score = ScoreOf(s[j].student, s[j].section)
        BY <2>3, <2>5 DEF ScoresRecorded
    <2>9. /\ t[i].score = ScoreOf(s[i].student, s[j].section)
          /\ t[j].score = ScoreOf(s[j].student, s[i].section)
        BY <2>6 DEF Moved
    <2>10. \A st, sec : ScoreOf(st, sec) \in Int
        BY ScoreInType DEF ScoreOf, TypeOK, Input
    <2>11. Gain(s[i], s[j]) > 0
        BY <2>5 DEF Improves
    <2> HIDE DEF s, t, i, j
    <2>12. t[i].score + t[j].score > s[i].score + s[j].score
        BY <2>8, <2>9, <2>10, <2>11 DEF Gain
    <2>13. Total(t) > Total(s)
        BY <2>5, <2>6, <2>7, <2>12, TotalGrows
    <2> QED BY <2>13 DEF s, t
<1>4. Spec => []Same
    BY RecordedKept
<1> QED BY <1>1, <1>2, <1>3, <1>4, BatchConfirmed, TypeCorrect, PTL DEF Spec, ScoreRises

=============================================================================
