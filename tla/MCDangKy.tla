------------------------------ MODULE MCDangKy ------------------------------
(***************************************************************************)
(* Small instances of DangKy for TLC.                                      *)
(***************************************************************************)
EXTENDS DangKy

CONSTANTS A, B, C, s1, s2, s3

Wish(sv, lhp, phu) == [kind |-> "DANG_KY", sv |-> sv, lhp |-> lhp, phu |-> phu]
Cancel(sv, lhp) == [kind |-> "HUY", sv |-> sv, lhp |-> lhp, phu |-> NoSection]

\* Sections 1 and 2 of course A, 3 of course B, 4 of course C.
TwoOfA       == <<A, A>>
TwoOfAOneOfB == <<A, A, B>>
TwoOfAOneOfBOneOfC == <<A, A, B, C>>
Seats11  == <<1, 1>>
Seats111 == <<1, 1, 1>>
Seats1111 == <<1, 1, 1, 1>>

\* Three students compete for the seat of section 1; section 2 is the
\* alternative of one of them, who also wants course B.  Confirmed students
\* may cancel, and one of them may come back.
Competition ==
    {Wish(s1, 1, 2), Wish(s2, 1, NoSection), Wish(s3, 1, NoSection),
     Wish(s1, 3, NoSection), Cancel(s1, 2), Cancel(s2, 1), Wish(s1, 2, 1)}

\* Students file several wishes for one course, change them and repeat them;
\* one names an alternative of another course.
Indecision ==
    {Wish(s1, 1, 2), Wish(s1, 2, NoSection), Wish(s1, 1, NoSection),
     Wish(s2, 1, 2), Wish(s2, 1, 1), Wish(s2, 2, 3)}

\* One student, two wishes for course A and one for course B.
TwoWishes == {Wish(s1, 1, NoSection), Wish(s1, 2, 1), Wish(s1, 3, NoSection)}

\* The same student, who already has a seat in section 4 of course C.  It
\* clashes with section 1 and not with 2, so criterion C7 tells the two wishes
\* for course A apart, and the one for course B may come in between.
SeatedAndTwoWishes == TwoWishes \union {Wish(s1, 4, NoSection)}

SeatedInit ==
    /\ dangKy = [sv \in Students |-> [lhp \in Sections |->
                    IF sv = s1 /\ lhp = 4
                    THEN [trangThai |-> "DaDangKy", monHoc |-> C, phu |-> NoSection]
                    ELSE NoRow]]
    /\ counter = [lhp \in Sections |-> IF lhp = 4 THEN 1 ELSE 0]
    /\ sent = {Wish(s1, 4, NoSection)}
    /\ inbox = {} /\ huy = {}
    /\ batch = [b \in Batches |-> Idle]
    /\ failures = 0 /\ crashes = 0

SeatedSpec == SeatedInit /\ [][Next]_vars

\* Two students, one seat, no cancellation.
Rivals == {Wish(s1, 1, NoSection), Wish(s2, 1, 2), Wish(s2, 2, NoSection)}

\* Three students for the seat of section 1, one of them with an alternative.
Crowd == {Wish(s1, 1, NoSection), Wish(s2, 1, 2), Wish(s3, 1, NoSection)}

\* One student with one wish.
OneWish == {Wish(s1, 1, NoSection)}

\* One wish and its cancellation.
OneChange == {Wish(s1, 1, NoSection), Cancel(s1, 1)}

\* Two students and the two sections of a course, with one seat each; the
\* cancellation may come at any time, also before its wish.
Restart ==
    {Wish(s1, 1, NoSection), Wish(s1, 2, NoSection),
     Wish(s2, 1, NoSection), Cancel(s1, 2)}

=============================================================================
