------------------------------ MODULE Ranking ------------------------------
(***************************************************************************)
(* TOPSISBusiness.RankByCourse of web-registeter/db/db.go: how the         *)
(* requests of a course are put in order.  The closeness of a request is   *)
(* given with it: rankPool computes it from ten criteria, and the order    *)
(* depends on nothing but the closeness and the tie-break.                 *)
(***************************************************************************)
EXTENDS Integers, Sequences, SequencesExt

CONSTANT Tolerance      \* the 1e-9 of rankPool, in steps of closeness

ASSUME ToleranceAssumption == Tolerance \in Nat

\* The pairs of positions of seq whose first element comes before the second.
Precedence(seq, Before(_, _)) ==
    {p \in (DOMAIN seq) \X (DOMAIN seq) : Before(seq[p[1]], seq[p[2]])}

\* sort.SliceStable: insertion sort, the positions 1..n of the elements in
\* their new order.  An element moves left past its neighbours as long as it
\* comes before the neighbour, so it ends right behind the last element it
\* does not come before.  The code sorts blocks of 20 elements like this; it
\* merges longer lists to the same order if ties are transitive.
Places(n, P) ==
    LET order[k \in 0..n] ==
            IF k = 0 THEN << >>
            ELSE LET sorted == order[k - 1]
                     stops  == {i \in 1..(k - 1) : <<k, sorted[i]>> \notin P}
                 IN  InsertAt(sorted, Max(stops \union {0}) + 1, k)
    IN  order[n]

SortStable(seq, Before(_, _)) ==
    LET places == Places(Len(seq), Precedence(seq, Before))
    IN  [i \in DOMAIN seq |-> seq[places[i]]]

\* tieBreak: graduation_delay_risk, then semesters_waited, then fewer
\* alternative_sections, then the earlier submission.
TieBreak(a, b) ==
    \/ a.risk > b.risk
    \/ a.risk = b.risk /\ a.waited > b.waited
    \/ a.risk = b.risk /\ a.waited = b.waited /\ a.alternatives < b.alternatives
    \/ /\ a.risk = b.risk /\ a.waited = b.waited /\ a.alternatives = b.alternatives
       /\ a.submittedAt < b.submittedAt

Near(a, b) == a.closeness - b.closeness \in (-Tolerance)..Tolerance

\* Mutated forms of ComesBefore: the lower closeness first, and no tie-break.
ComesBeforeAscending(a, b) ==
    IF Near(a, b) THEN TieBreak(a, b) ELSE a.closeness < b.closeness

ComesBeforeExact(a, b) == a.closeness > b.closeness

\* The comparison of rankPool.  Two requests whose closeness is within the
\* tolerance go by the tie-break, so the relation need not be transitive.
ComesBefore(a, b) ==
    IF Near(a, b) THEN TieBreak(a, b) ELSE a.closeness > b.closeness

RankPool(pool) == SortStable(pool, ComesBefore)

\* pools[r.CourseID] = append(pools[r.CourseID], r)
Pool(requests, course) ==
    LET pool[k \in 0..Len(requests)] ==
            IF k = 0 THEN << >>
            ELSE IF requests[k].course = course THEN Append(pool[k - 1], requests[k])
            ELSE pool[k - 1]
    IN  pool[Len(requests)]

\* RankByCourse: one ranked pool for each course somebody asks for.
RankByCourse(requests) ==
    [course \in {requests[i].course : i \in DOMAIN requests} |->
        RankPool(Pool(requests, course))]

\* "range ranked" visits the courses of the map in any order: every sequence
\* in which the loops over the ranked pools may meet the requests.
InMapOrder(ranked) ==
    {FlattenSeq([i \in DOMAIN order |-> ranked[order[i]]]) :
        order \in SetToSeqs(DOMAIN ranked)}

=============================================================================
