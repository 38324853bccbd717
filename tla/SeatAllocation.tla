--------------------------- MODULE SeatAllocation ---------------------------
(***************************************************************************)
(* What registration promises a student, without tables, batches and       *)
(* counters: a confirmed student has one of the seats of the section       *)
(* (init.sql: "da duoc xac nhan co cho"), asked for it, has no other       *)
(* section of the course, and leaves it only by cancelling.                *)
(***************************************************************************)
EXTENDS Integers, FiniteSets

CONSTANTS Students, Sections, CourseOf, SoLuongToiDa

VARIABLES
    wishes,     \* pairs <<student, section>> asked for so far
    cancels,    \* pairs a student has asked to cancel so far
    seated      \* section -> students who have a seat

abstractVars == <<wishes, cancels, seated>>

Pairs == Students \X Sections

Init ==
    /\ wishes = {}
    /\ cancels = {}
    /\ seated = [lhp \in Sections |-> {}]

\* New wishes are added to the old ones; none is forgotten.
Ask ==
    /\ wishes \subseteq wishes'
    /\ wishes' \subseteq Pairs
    /\ UNCHANGED <<cancels, seated>>

AskToCancel ==
    /\ cancels \subseteq cancels'
    /\ cancels' \subseteq Pairs
    /\ UNCHANGED <<wishes, seated>>

SeatedInCourse(sv, mon) ==
    \E lhp \in Sections : CourseOf[lhp] = mon /\ sv \in seated[lhp]

Seat(sv, lhp) ==
    /\ <<sv, lhp>> \in wishes
    /\ Cardinality(seated[lhp]) < SoLuongToiDa[lhp]
    /\ ~SeatedInCourse(sv, CourseOf[lhp])
    /\ seated' = [seated EXCEPT ![lhp] = @ \union {sv}]
    /\ UNCHANGED <<wishes, cancels>>

Leave(sv, lhp) ==
    /\ <<sv, lhp>> \in cancels
    /\ sv \in seated[lhp]
    /\ seated' = [seated EXCEPT ![lhp] = @ \ {sv}]
    /\ UNCHANGED <<wishes, cancels>>

Next ==
    \/ Ask
    \/ AskToCancel
    \/ \E sv \in Students, lhp \in Sections : Seat(sv, lhp) \/ Leave(sv, lhp)

Spec == Init /\ [][Next]_abstractVars

=============================================================================
