----------------------------- MODULE MCApiCache -----------------------------
(***************************************************************************)
(* A small gateway for TLC: a student, two sections of a course, a look-up *)
(* of each kind.                                                           *)
(***************************************************************************)
EXTENDS ApiCache

CONSTANTS an, l1, l2, trong, dot1

MCPosts ==
    {[queryType |-> "DANG_KY_MON_HOC", sv |-> an, lop |-> l1, loc |-> trong],
     [queryType |-> "HUY_DANG_KY", sv |-> an, lop |-> l1, loc |-> trong]}

MCOnFile == {<<an, l1>>}

MCAskedKeys == {DangKyCua(an, trong), ChiTiet(l2)}

=============================================================================
