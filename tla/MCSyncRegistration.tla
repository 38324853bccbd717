------------------------- MODULE MCSyncRegistration -------------------------
(***************************************************************************)
(* One seat, two students, two pods: a student who clicks twice and        *)
(* cancels, and another who competes for the seat.                         *)
(***************************************************************************)
EXTENDS SyncRegistration, TLC

CONSTANTS an, binh, l1, click1, click2, rival, cancel

MCSoLuongToiDa == [lhp \in Sections |-> 1]

MCAsk == [q \in Posts |->
    [kind |-> IF q = cancel THEN "HUY" ELSE "DANG_KY",
     sv   |-> IF q = rival THEN binh ELSE an,
     lhp  |-> l1]]

\* The pods are alike, and so are the two clicks.
MCSymmetry == Permutations(Pods) \union Permutations({click1, click2})

=============================================================================
