---------------------------- MODULE DangKyProofs ----------------------------
(***************************************************************************)
(* Theorems about registration for every number of students, sections,     *)
(* pods and concurrent batches, with failing statements and stopped pods:  *)
(* types, wishes, and seats - that every confirmed row gets counted, that  *)
(* one batch at a time gives no seat away twice, and that more batches     *)
(* give it away at most once each.                                         *)
(* Then outcomes while one batch runs at a time: a student gets one        *)
(* section of a course and keeps it, and every departure from that is      *)
(* explained by a failure, a pod that stopped, or a cancellation.          *)
(***************************************************************************)
EXTENDS DangKy, AllocationProofs

-----------------------------------------------------------------------------
(***************************************************************************)
(* The locals of a batch                                                   *)
(***************************************************************************)

\* The primary row of the student and course of an edge exists, and the edge
\* asks for one of its two sections.
EdgeOfRows(rows, e) ==
    LET p == PrimaryRow(rows, e.student, e.course)
    IN  /\ p \in rows
        /\ p.sv = e.student
        /\ CourseOf[p.lhp] = e.course
        /\ e.section \in {p.lhp, p.phu}

PlanOfRows(rows, plan) ==
    /\ \A i \in 1..Len(plan.confirmed) : EdgeOfRows(rows, plan.confirmed[i])
    /\ \A i \in 1..Len(plan.waitlist) : EdgeOfRows(rows, plan.waitlist[i])

SeatsLeft(plan) == \A lhp \in Sections : plan.capLeft[lhp] >= 0

\* A statement is about a scanned row and a section which that row names.
WriteOfRows(rows, w) ==
    /\ w \in WriteOp
    /\ w.row \in rows
    /\ w.lhp \in {w.row.lhp, w.row.phu}

\* What makes the type of a batch inductive: every row it still works on is
\* one it scanned, and every edge of its plan and every statement comes from
\* such a row.
GoodLocals(loc) ==
    /\ loc \in BatchType
    /\ loc.todo \subseteq loc.rows
    /\ loc.toReject \subseteq loc.rows
    /\ SeatsLeft(loc.plan)
    /\ PlanOfRows(loc.rows, loc.plan)
    /\ \A w \in loc.writes : WriteOfRows(loc.rows, w)

\* A scanned row has a primary row among the scanned rows, of the same
\* student and course.
LEMMA PrimaryRowIn ==
    ASSUME NEW rows \in SUBSET PendingRow, NEW r \in rows
    PROVE  LET p == PrimaryRow(rows, r.sv, CourseOf[r.lhp])
           IN  p \in rows /\ p.sv = r.sv /\ CourseOf[p.lhp] = CourseOf[r.lhp]
<1> DEFINE same == {x \in rows : x.sv = r.sv /\ CourseOf[x.lhp] = CourseOf[r.lhp]}
           names == {x.lhp : x \in same}
<1>1. names \in (SUBSET Sections) \ {{}}
    BY DEF PendingRow
<1> HIDE DEF names
<1>2. PICK last \in names : \A lhp \in names : lhp <= last
    BY <1>1, LastSectionAssumption
<1>3. PICK p \in same : p.lhp = last
    BY DEF names
<1>4. \A x \in same : x.lhp <= p.lhp
    BY <1>2, <1>3 DEF names
<1>5. PrimaryRow(rows, r.sv, CourseOf[r.lhp]) \in same
    BY <1>3, <1>4 DEF PrimaryRow
<1> QED BY <1>5

\* The plan before the greedy loop.
LEMMA NoPlanGood ==
    /\ NoPlan \in Plan
    /\ SeatsLeft(NoPlan)
    /\ \A rows : PlanOfRows(rows, NoPlan)
BY DEF NoPlan, EmptyPlan, Plan, SeatsLeft, PlanOfRows, Assignment

\* A batch that does not run.
LEMMA IdleGood == GoodLocals(Idle)
BY NoPlanGood DEF Idle, GoodLocals, BatchType

\* A batch after its scan.
LEMMA ScannedGood ==
    ASSUME NEW rows \in SUBSET PendingRow
    PROVE  GoodLocals([Idle EXCEPT !.pc = "check", !.rows = rows, !.todo = rows])
BY NoPlanGood DEF Idle, GoodLocals, BatchType

\* A batch after the rule engine or one of its refusals.
LEMMA AfterChecksGood ==
    ASSUME NEW loc, GoodLocals(loc)
    PROVE  GoodLocals(AfterChecks(loc))
<1>1. CASE loc.toReject # {}
    <2>1. GoodLocals([loc EXCEPT !.pc = "reject"])
        BY DEF GoodLocals, BatchType
    <2> QED BY <1>1, <2>1 DEF AfterChecks
<1>2. CASE loc.toReject = {} /\ Eligible(loc) = {}
    BY <1>2, IdleGood DEF AfterChecks
<1>3. CASE loc.toReject = {} /\ Eligible(loc) # {}
    <2>1. Eligible(loc) \in SUBSET loc.rows
        BY DEF Eligible
    <2>2. GoodLocals([loc EXCEPT !.pc = "slots", !.todo = Eligible(loc)])
        BY <2>1 DEF GoodLocals, BatchType
    <2> QED BY <1>3, <2>2 DEF AfterChecks
<1> QED BY <1>1, <1>2, <1>3

\* A batch after the check of a row.
LEMMA CheckedGood ==
    ASSUME NEW loc, GoodLocals(loc), NEW r \in loc.todo, NEW add \in SUBSET {r}
    PROVE  GoodLocals([loc EXCEPT !.todo = @ \ {r}, !.rejected = @ \union add,
                                  !.toReject = @ \union add])
<1>1. add \subseteq loc.rows /\ add \subseteq PendingRow
    BY DEF GoodLocals, BatchType
<1> QED BY <1>1 DEF GoodLocals, BatchType

\* A batch after one of its refusals.
LEMMA RefusedGood ==
    ASSUME NEW loc, GoodLocals(loc), NEW r
    PROVE  GoodLocals([loc EXCEPT !.toReject = @ \ {r}])
BY DEF GoodLocals, BatchType

\* A batch after it has read the seats of a section.
LEMMA SlotReadGood ==
    ASSUME NEW loc, GoodLocals(loc), NEW s \in Sections, NEW n \in Nat
    PROVE  GoodLocals(SlotRead(loc, s, n))
<1> DEFINE cap == [loc.plan.capLeft EXCEPT ![s] = n]
           plan == [loc.plan EXCEPT !.capLeft = cap]
<1>1. loc.plan \in Plan
    BY DEF GoodLocals, BatchType
<1>2. cap \in [Sections -> Int] /\ \A lhp \in Sections : cap[lhp] >= 0
    BY <1>1 DEF Plan, GoodLocals, SeatsLeft
<1> HIDE DEF cap
<1>3. plan \in Plan /\ plan.capLeft = cap
    BY <1>1, <1>2 DEF Plan
<1>4. plan.confirmed = loc.plan.confirmed /\ plan.waitlist = loc.plan.waitlist
    BY <1>1 DEF Plan
<1>5. SeatsLeft(plan)
    BY <1>2, <1>3 DEF SeatsLeft
<1>6. PlanOfRows(loc.rows, plan)
    BY <1>4 DEF GoodLocals, PlanOfRows
<1>7. SlotRead(loc, s, n) = [loc EXCEPT !.plan = plan, !.read = @ \union {s}]
    BY DEF SlotRead, cap
<1> HIDE DEF plan
<1> DEFINE new == SlotRead(loc, s, n)
<1>8. /\ new.pc = loc.pc /\ new.rows = loc.rows /\ new.todo = loc.todo
      /\ new.rejected = loc.rejected /\ new.toReject = loc.toReject
      /\ new.writes = loc.writes /\ new.plan = plan
    BY <1>7 DEF GoodLocals, BatchType
<1>9. new.read = loc.read \union {s}
    BY <1>7 DEF GoodLocals, BatchType
<1>10. new = [pc |-> new.pc, rows |-> new.rows, todo |-> new.todo,
              rejected |-> new.rejected, toReject |-> new.toReject, read |-> new.read,
              plan |-> new.plan, writes |-> new.writes]
    BY <1>7 DEF GoodLocals, BatchType
<1> HIDE DEF new
<1>11. new \in BatchType
    BY <1>3, <1>8, <1>9, <1>10 DEF GoodLocals, BatchType
<1>12. GoodLocals(new)
    BY <1>5, <1>6, <1>8, <1>11 DEF GoodLocals
<1> QED BY <1>12 DEF new

\* A turn of the greedy loop keeps the seats of a plan natural and its edges
\* among the rows.
LEMMA ConsiderGood ==
    ASSUME NEW rows, NEW plan \in Plan, SeatsLeft(plan), PlanOfRows(rows, plan),
           NEW e \in Edge, EdgeOfRows(rows, e)
    PROVE  /\ Consider(plan, e, {}) \in Plan
           /\ SeatsLeft(Consider(plan, e, {}))
           /\ PlanOfRows(rows, Consider(plan, e, {}))
<1> DEFINE q == Consider(plan, e, {})
<1>1. q \in Plan
    BY ConsiderType
<1>2. SeatsLeft(q)
    <2>1. e.section \in Sections
        BY DEF Edge
    <2>2. CASE CanAssign(plan, e, {})
        <3>1. q.capLeft = [plan.capLeft EXCEPT ![e.section] = @ - 1]
            BY <2>2 DEF Consider, DoAssign
        <3>2. plan.capLeft \in [Sections -> Int] /\ plan.capLeft[e.section] > 0
            BY <2>2 DEF CanAssign, Plan
        <3> QED BY <2>1, <3>1, <3>2 DEF SeatsLeft
    <2>3. CASE ~CanAssign(plan, e, {})
        <3>1. q.capLeft = plan.capLeft
            BY <2>3 DEF Consider, Defer, Plan
        <3> QED BY <3>1 DEF SeatsLeft
    <2> QED BY <2>2, <2>3
<1>3. PlanOfRows(rows, q)
    <2>1. \/ q.confirmed = Append(plan.confirmed, e) /\ q.waitlist = plan.waitlist
          \/ q.confirmed = plan.confirmed /\ q.waitlist = Append(plan.waitlist, e)
        BY ConsiderLists
    <2>2. plan.confirmed \in Seq(Edge) /\ plan.waitlist \in Seq(Edge)
        BY DEF Plan, Assignment
    <2>3. ASSUME NEW l \in Seq(Edge), \A i \in 1..Len(l) : EdgeOfRows(rows, l[i])
          PROVE  \A i \in 1..Len(Append(l, e)) : EdgeOfRows(rows, Append(l, e)[i])
        <3>1. Len(Append(l, e)) = Len(l) + 1
            BY AppendProperties
        <3>2. \A i \in 1..Len(l) : Append(l, e)[i] = l[i]
            BY AppendProperties
        <3>3. Append(l, e)[Len(l) + 1] = e
            BY AppendProperties
        <3>4. Len(l) \in Nat
            OBVIOUS
        <3>5. SUFFICES ASSUME NEW i \in 1..(Len(l) + 1)
                       PROVE  EdgeOfRows(rows, Append(l, e)[i])
            BY <3>1
        <3>6. CASE i \in 1..Len(l)
            BY <2>3, <3>2, <3>6
        <3>7. CASE i = Len(l) + 1
            BY <3>3, <3>7
        <3> QED BY <3>4, <3>6, <3>7
    <2> HIDE DEF q
    <2> QED BY <2>1, <2>2, <2>3 DEF PlanOfRows
<1> QED BY <1>1, <1>2, <1>3

\* A request of Solve.
LEMMA ConsiderRequestGood ==
    ASSUME NEW loc, GoodLocals(loc), NEW r \in loc.todo
    PROVE  /\ ConsiderRequest(loc, r) \in Plan
           /\ SeatsLeft(ConsiderRequest(loc, r))
           /\ PlanOfRows(loc.rows, ConsiderRequest(loc, r))
<1> DEFINE p == PrimaryRow(loc.rows, r.sv, CourseOf[r.lhp])
           edge(lhp) == [student |-> r.sv, course |-> CourseOf[r.lhp],
                         section |-> lhp, score |-> 0]
           first == Consider(loc.plan, edge(p.lhp), {})
<1>1. r \in loc.rows /\ loc.rows \in SUBSET PendingRow
    BY DEF GoodLocals, BatchType
<1>2. p \in loc.rows /\ p.sv = r.sv /\ CourseOf[p.lhp] = CourseOf[r.lhp]
    BY <1>1, PrimaryRowIn
<1>3. ASSUME NEW lhp \in Sections, lhp \in {p.lhp, p.phu}
      PROVE  edge(lhp) \in Edge /\ EdgeOfRows(loc.rows, edge(lhp))
    <2>1. r.sv \in Students /\ CourseOf[r.lhp] \in Courses
        BY <1>1, ConstantsAssumption DEF PendingRow
    <2>2. edge(lhp) \in Edge
        BY <2>1 DEF Edge
    <2>3. EdgeOfRows(loc.rows, edge(lhp))
        BY <1>2, <1>3 DEF EdgeOfRows
    <2> QED BY <2>2, <2>3
<1>4. p.lhp \in Sections /\ p.phu \in Sections \union {NoSection}
    BY <1>1, <1>2 DEF PendingRow
<1>5. loc.plan \in Plan /\ SeatsLeft(loc.plan) /\ PlanOfRows(loc.rows, loc.plan)
    BY DEF GoodLocals, BatchType
<1>6. edge(p.lhp) \in Edge /\ EdgeOfRows(loc.rows, edge(p.lhp))
    BY <1>3, <1>4
<1>7. p.phu # NoSection => edge(p.phu) \in Edge /\ EdgeOfRows(loc.rows, edge(p.phu))
    BY <1>3, <1>4
<1>8. ConsiderRequest(loc, r) =
          IF p.phu = NoSection THEN first ELSE Consider(first, edge(p.phu), {})
    BY DEF ConsiderRequest
<1> HIDE DEF p, edge
<1>9. first \in Plan /\ SeatsLeft(first) /\ PlanOfRows(loc.rows, first)
    BY <1>5, <1>6, ConsiderGood
<1> HIDE DEF first
<1>10. p.phu # NoSection =>
          /\ Consider(first, edge(p.phu), {}) \in Plan
          /\ SeatsLeft(Consider(first, edge(p.phu), {}))
          /\ PlanOfRows(loc.rows, Consider(first, edge(p.phu), {}))
    BY <1>7, <1>9, ConsiderGood
<1> QED BY <1>8, <1>9, <1>10

\* The statements of a plan.
LEMMA WritesGood ==
    ASSUME NEW loc, GoodLocals(loc), NEW plan \in Plan, PlanOfRows(loc.rows, plan),
           NEW w \in WritesOf(loc, plan)
    PROVE  WriteOfRows(loc.rows, w)
<1>1. loc.rows \in SUBSET PendingRow
    BY DEF GoodLocals, BatchType
<1>2. plan.confirmed \in Seq(Edge) /\ plan.waitlist \in Seq(Edge)
    BY DEF Plan, Assignment
<1>3. CASE \E i \in 1..Len(plan.confirmed) :
               w = StatusWrite(loc, plan, i) \/ w = CountWrite(loc, plan, i)
    <2>1. PICK i \in 1..Len(plan.confirmed) :
              w = StatusWrite(loc, plan, i) \/ w = CountWrite(loc, plan, i)
        BY <1>3
    <2> DEFINE a == plan.confirmed[i]
               p == RowOf(loc, a)
    <2>2. a \in Edge /\ i \in Nat
        BY <1>2
    <2>3. a.section \in Sections
        BY <2>2 DEF Edge
    <2>4. p \in loc.rows /\ a.section \in {p.lhp, p.phu}
        BY DEF PlanOfRows, EdgeOfRows, RowOf
    <2>5. p \in PendingRow
        BY <1>1, <2>4
    <2>6. \/ w = [op |-> "confirm", at |-> i, row |-> p, lhp |-> a.section]
          \/ w = [op |-> "move", at |-> i, row |-> p, lhp |-> a.section]
          \/ w = [op |-> "count", at |-> i, row |-> p, lhp |-> a.section]
        BY <2>1 DEF StatusWrite, CountWrite
    <2> HIDE DEF a, p
    <2> QED BY <2>2, <2>3, <2>4, <2>5, <2>6 DEF WriteOfRows, WriteOp
<1>4. CASE w \in WaitWrites(loc, plan)
    <2>1. PICK e \in ToSet(plan.waitlist) :
              w = [op |-> "wait", at |-> 0, row |-> RowOf(loc, e), lhp |-> RowOf(loc, e).lhp]
        BY <1>4 DEF WaitWrites
    <2>2. PICK i \in 1..Len(plan.waitlist) : e = plan.waitlist[i]
        BY <2>1 DEF ToSet
    <2> DEFINE p == RowOf(loc, e)
    <2>3. p \in loc.rows
        BY <2>2 DEF PlanOfRows, EdgeOfRows, RowOf
    <2>4. p \in PendingRow /\ p.lhp \in Sections
        BY <1>1, <2>3 DEF PendingRow
    <2>5. w = [op |-> "wait", at |-> 0, row |-> p, lhp |-> p.lhp]
        BY <2>1
    <2> HIDE DEF p
    <2> QED BY <2>3, <2>4, <2>5 DEF WriteOfRows, WriteOp
<1> QED BY <1>3, <1>4 DEF WritesOf

\* A batch after a turn of Solve.
LEMMA AllocatedGood ==
    ASSUME NEW loc, GoodLocals(loc), NEW r \in loc.todo
    PROVE  LET plan == ConsiderRequest(loc, r)
           IN  /\ GoodLocals([loc EXCEPT !.todo = @ \ {r}, !.plan = plan])
               /\ GoodLocals([loc EXCEPT !.pc = "write", !.todo = {}, !.plan = NoPlan,
                                         !.writes = WritesOf(loc, plan)])
<1> DEFINE plan == ConsiderRequest(loc, r)
<1>1. plan \in Plan /\ SeatsLeft(plan) /\ PlanOfRows(loc.rows, plan)
    BY ConsiderRequestGood
<1> HIDE DEF plan
<1>2. GoodLocals([loc EXCEPT !.todo = @ \ {r}, !.plan = plan])
    BY <1>1 DEF GoodLocals, BatchType
<1>3. \A w \in WritesOf(loc, plan) : WriteOfRows(loc.rows, w)
    BY <1>1, WritesGood
<1> DEFINE writes == WritesOf(loc, plan)
<1> HIDE DEF writes
<1>4. (\A w \in writes : WriteOfRows(loc.rows, w)) /\ writes \in SUBSET WriteOp
    BY <1>3 DEF WriteOfRows, writes
<1>5. GoodLocals([loc EXCEPT !.pc = "write", !.todo = {}, !.plan = NoPlan, !.writes = writes])
    BY <1>4, NoPlanGood DEF GoodLocals, BatchType
<1> QED BY <1>2, <1>5 DEF plan, writes

\* A batch after one of its statements.
LEMMA WrittenGood ==
    ASSUME NEW loc, GoodLocals(loc), NEW w
    PROVE  GoodLocals([loc EXCEPT !.writes = @ \ {w}])
BY DEF GoodLocals, BatchType

-----------------------------------------------------------------------------
(***************************************************************************)
(* The table dang_ky                                                       *)
(***************************************************************************)

Table == [Students -> [Sections -> Row \union {NoRow}]]

\* The row of a key after an UPDATE, an INSERT and a DELETE.
LEMMA SetRow ==
    ASSUME NEW t \in Table, NEW sv \in Students, NEW lhp \in Sections, NEW st \in TrangThai
    PROVE  /\ SetTrangThai(t, sv, lhp, st) \in Table
           /\ \A s \in Students, l \in Sections :
                  SetTrangThai(t, sv, lhp, st)[s][l] =
                      IF s = sv /\ l = lhp THEN [t[s][l] EXCEPT !.trangThai = st] ELSE t[s][l]
<1>1. t[sv][lhp] \in Row \union {NoRow}
    BY DEF Table
<1>2. [t[sv][lhp] EXCEPT !.trangThai = st] \in Row
    <2>1. CASE t[sv][lhp] \in Row
        BY <2>1 DEF Row
    <2>2. CASE t[sv][lhp] = NoRow
        BY <2>2 DEF Row, NoRow
    <2> QED BY <1>1, <2>1, <2>2
<1> DEFINE new == [t[sv][lhp] EXCEPT !.trangThai = st]
<1>3. SetTrangThai(t, sv, lhp, st) = [t EXCEPT ![sv] = [t[sv] EXCEPT ![lhp] = new]]
    BY DEF SetTrangThai
<1> HIDE DEF new
<1>4. /\ SetTrangThai(t, sv, lhp, st) \in Table
      /\ \A s \in Students, l \in Sections :
             SetTrangThai(t, sv, lhp, st)[s][l] = IF s = sv /\ l = lhp THEN new ELSE t[s][l]
    <2> HIDE DEF Row, NoRow
    <2> QED BY <1>2, <1>3 DEF Table, new
<1> QED BY <1>4 DEF new

\* The rows of a table after one was put in place of another.
LEMMA PutRow ==
    ASSUME NEW t \in Table, NEW sv \in Students, NEW lhp \in Sections,
           NEW row \in Row \union {NoRow}
    PROVE  LET new == [t EXCEPT ![sv][lhp] = row]
           IN  /\ new \in Table
               /\ \A s \in Students, l \in Sections :
                      new[s][l] = IF s = sv /\ l = lhp THEN row ELSE t[s][l]
<1>1. [t EXCEPT ![sv][lhp] = row] = [t EXCEPT ![sv] = [t[sv] EXCEPT ![lhp] = row]]
    OBVIOUS
<1> QED BY <1>1 DEF Table

\* The rows of a table after an INSERT.
LEMMA InsertedRow ==
    ASSUME NEW t \in Table, NEW sv \in Students, NEW lhp \in Sections, NEW st \in TrangThai,
           NEW phu \in Sections \union {NoSection}
    PROVE  /\ InsertRow(t, sv, lhp, st, phu) \in Table
           /\ \A s \in Students, l \in Sections :
                  InsertRow(t, sv, lhp, st, phu)[s][l] =
                      IF s = sv /\ l = lhp
                      THEN [trangThai |-> st, monHoc |-> CourseOf[lhp], phu |-> phu]
                      ELSE t[s][l]
<1> DEFINE row == [trangThai |-> st, monHoc |-> CourseOf[lhp], phu |-> phu]
<1>1. row \in Row
    BY ConstantsAssumption DEF Row
<1>2. InsertRow(t, sv, lhp, st, phu) = [t EXCEPT ![sv][lhp] = row]
    BY DEF InsertRow
<1> HIDE DEF row
<1>3. /\ InsertRow(t, sv, lhp, st, phu) \in Table
      /\ \A s \in Students, l \in Sections :
             InsertRow(t, sv, lhp, st, phu)[s][l] = IF s = sv /\ l = lhp THEN row ELSE t[s][l]
    <2>1. row \in Row \union {NoRow}
        BY <1>1
    <2>2. LET new == [t EXCEPT ![sv][lhp] = row]
          IN  /\ new \in Table
              /\ \A s \in Students, l \in Sections :
                     new[s][l] = IF s = sv /\ l = lhp THEN row ELSE t[s][l]
        BY <2>1, PutRow
    <2> QED BY <1>2, <2>2
<1> QED BY <1>3 DEF row

\* The rows of a table after a DELETE.
LEMMA DeletedRow ==
    ASSUME NEW t \in Table, NEW sv \in Students, NEW lhp \in Sections
    PROVE  /\ DeleteRow(t, sv, lhp) \in Table
           /\ \A s \in Students, l \in Sections :
                  DeleteRow(t, sv, lhp)[s][l] = IF s = sv /\ l = lhp THEN NoRow ELSE t[s][l]
BY PutRow DEF DeleteRow

-----------------------------------------------------------------------------
(***************************************************************************)
(* Types                                                                   *)
(***************************************************************************)

TypeInv == TypeOK /\ \A b \in Batches : GoodLocals(batch[b])

\* The parts of the type invariant, each with what it reads.
TablesType == dangKy \in Table /\ counter \in [Sections -> Int]

CallsType ==
    /\ sent \subseteq Requests
    /\ inbox \subseteq sent \X Replicas
    /\ huy \subseteq sent \X Replicas

BatchesType ==
    /\ batch \in [Batches -> BatchType]
    /\ \A b \in Batches : GoodLocals(batch[b])

BoundsType == failures \in 0..MaxFailures /\ crashes \in 0..MaxCrashes
\* TypeInv is the conjunction of its parts.
LEMMA TypeParts == TypeInv <=> TablesType /\ CallsType /\ BatchesType /\ BoundsType
BY DEF TypeInv, TypeOK, TablesType, Table, CallsType, BatchesType, BoundsType,
       GoodLocals, SeatsLeft

\* The same for the state after a step.
LEMMA TypePartsNext == TypeInv' <=> TablesType' /\ CallsType' /\ BatchesType' /\ BoundsType'
BY DEF TypeInv, TypeOK, TablesType, Table, CallsType, BatchesType, BoundsType,
       GoodLocals, SeatsLeft

\* Giving one batch good locals.
LEMMA BatchUpdated ==
    ASSUME BatchesType, NEW b \in Batches, NEW loc, GoodLocals(loc),
           batch' = [batch EXCEPT ![b] = loc]
    PROVE  BatchesType'
<1>1. loc \in BatchType
    BY DEF GoodLocals
<1> QED BY <1>1 DEF BatchesType

\* The fields of a request and of a pending row.
LEMMA DeliveryType ==
    ASSUME CallsType, NEW d \in inbox \union huy
    PROVE  /\ d[1] \in sent /\ d[1] \in Request
           /\ d[1].sv \in Students /\ d[1].lhp \in Sections
           /\ d[1].phu \in Sections \union {NoSection}
BY ConstantsAssumption DEF CallsType, Request

\* A failed statement.
LEMMA FailureCounted ==
    ASSUME BoundsType, StatementFails \/ UNCHANGED failures
    PROVE  failures' \in 0..MaxFailures
BY ConstantsAssumption DEF BoundsType, StatementFails

\* A scan finds pending rows.
LEMMA ScanType ==
    ASSUME TablesType
    PROVE  ChoXuLyRows \in SUBSET PendingRow
<1>1. SUFFICES ASSUME NEW k \in Students \X Sections,
                      dangKy[k[1]][k[2]].trangThai = "ChoXuLy"
               PROVE  [sv |-> k[1], lhp |-> k[2], phu |-> dangKy[k[1]][k[2]].phu] \in PendingRow
    BY DEF ChoXuLyRows
<1>2. dangKy[k[1]][k[2]] \in Row \union {NoRow}
    BY DEF TablesType, Table
<1>3. dangKy[k[1]][k[2]].phu \in Sections \union {NoSection}
    BY <1>2 DEF Row, NoRow
<1> QED BY <1>3 DEF PendingRow

\* A statement of a batch leaves tables of the right type.
LEMMA ExecutedType ==
    ASSUME TablesType, NEW rows \in SUBSET PendingRow, NEW w, WriteOfRows(rows, w), Executed(w)
    PROVE  TablesType'
<1>1. w.row.sv \in Students /\ w.row.lhp \in Sections /\ w.lhp \in Sections
    BY DEF WriteOfRows, WriteOp, PendingRow
<1>2. CASE w.op = "confirm"
    <2>1. dangKy \in Table /\ "DaDangKy" \in TrangThai
        BY DEF TablesType, TrangThai
    <2>2. SetTrangThai(dangKy, w.row.sv, w.row.lhp, "DaDangKy") \in Table
        BY <1>1, <2>1, SetRow
    <2>3. /\ dangKy' = SetTrangThai(dangKy, w.row.sv, w.row.lhp, "DaDangKy")
          /\ UNCHANGED counter
        BY <1>2 DEF Executed
    <2> QED BY <2>2, <2>3 DEF TablesType
<1>3. CASE w.op = "move"
    <2> DEFINE t == DeleteRow(dangKy, w.row.sv, w.row.lhp)
    <2>1. t \in Table
        BY <1>1, DeletedRow DEF TablesType
    <2> HIDE DEF t
    <2>2. "DaDangKy" \in TrangThai /\ NoSection \in Sections \union {NoSection}
        BY DEF TrangThai
    <2>3. InsertRow(t, w.row.sv, w.lhp, "DaDangKy", NoSection) \in Table
        BY <1>1, <2>1, <2>2, InsertedRow
    <2>4. dangKy' \in Table /\ UNCHANGED counter
        BY <1>3, <2>3 DEF Executed, t
    <2> QED BY <2>4 DEF TablesType
<1>4. CASE w.op = "count"
    BY <1>1, <1>4 DEF Executed, TablesType
<1>5. CASE w.op = "wait"
    <2>1. dangKy \in Table /\ "DanhSachCho" \in TrangThai
        BY DEF TablesType, TrangThai
    <2>2. SetTrangThai(dangKy, w.row.sv, w.row.lhp, "DanhSachCho") \in Table
        BY <1>1, <2>1, SetRow
    <2>3. /\ dangKy' = SetTrangThai(dangKy, w.row.sv, w.row.lhp, "DanhSachCho")
          /\ UNCHANGED counter
        BY <1>5 DEF Executed
    <2> QED BY <2>2, <2>3 DEF TablesType
<1> QED BY <1>2, <1>3, <1>4, <1>5 DEF Executed

\* The initial state.
LEMMA InitTypeInv == Init => TypeInv
<1> SUFFICES ASSUME Init PROVE TypeInv
    OBVIOUS
<1>1. TablesType
    BY DEF Init, TablesType, Table
<1>2. CallsType /\ BoundsType
    BY ConstantsAssumption DEF Init, CallsType, BoundsType
<1>3. BatchesType
    BY IdleGood DEF Init, BatchesType, GoodLocals
<1> QED BY <1>1, <1>2, <1>3, TypeParts

\* A step of a request: a client, a delivery or the second statement of HUY.
LEMMA RequestTypeInv ==
    ASSUME TypeInv,
           \/ \E q \in Requests : Send(q)
           \/ \E d \in inbox : Drop(d) \/ DangKyMonHoc(d) \/ HuyXoa(d)
           \/ \E d \in huy : HuyTru(d)
    PROVE  TypeInv'
<1>1. TablesType /\ CallsType /\ BatchesType /\ BoundsType
    BY TypeParts
<1>2. ASSUME NEW q \in Requests, Send(q)
      PROVE  TypeInv'
    <2>1. TablesType' /\ BatchesType' /\ BoundsType'
        BY <1>1, <1>2 DEF Send, tables, TablesType, BatchesType, BoundsType
    <2>2. CallsType'
        BY <1>1, <1>2 DEF Send, CallsType
    <2> QED BY <2>1, <2>2, TypePartsNext
<1>3. ASSUME NEW d \in inbox, Drop(d)
      PROVE  TypeInv'
    <2>1. TablesType' /\ BatchesType' /\ BoundsType'
        BY <1>1, <1>3 DEF Drop, tables, TablesType, BatchesType, BoundsType
    <2>2. CallsType'
        BY <1>1, <1>3 DEF Drop, CallsType
    <2> QED BY <2>1, <2>2, TypePartsNext
<1>4. ASSUME NEW d \in inbox, DangKyMonHoc(d)
      PROVE  TypeInv'
    <2>1. dangKy' \in Table
        <3>1. PICK phu \in Sections \union {NoSection} :
                  dangKy' = InsertRow(dangKy, d[1].sv, d[1].lhp, "ChoXuLy", phu)
            BY <1>1, <1>4, DeliveryType DEF DangKyMonHoc
        <3>2. "ChoXuLy" \in TrangThai /\ dangKy \in Table
            BY <1>1 DEF TablesType, TrangThai
        <3>3. d[1].sv \in Students /\ d[1].lhp \in Sections
            BY <1>1, DeliveryType
        <3> QED BY <3>1, <3>2, <3>3, InsertedRow
    <2>2. TablesType' /\ BatchesType' /\ BoundsType'
        BY <1>1, <1>4, <2>1 DEF DangKyMonHoc, TablesType, BatchesType, BoundsType
    <2>3. CallsType'
        BY <1>1, <1>4 DEF DangKyMonHoc, CallsType
    <2> QED BY <2>2, <2>3, TypePartsNext
<1>5. ASSUME NEW d \in inbox, HuyXoa(d)
      PROVE  TypeInv'
    <2>1. dangKy' \in Table
        BY <1>1, <1>5, DeliveryType, DeletedRow DEF HuyXoa, TablesType
    <2>2. TablesType' /\ BatchesType' /\ BoundsType'
        BY <1>1, <1>5, <2>1 DEF HuyXoa, TablesType, BatchesType, BoundsType
    <2>3. CallsType'
        BY <1>1, <1>5 DEF HuyXoa, CallsType
    <2> QED BY <2>2, <2>3, TypePartsNext
<1>6. ASSUME NEW d \in huy, HuyTru(d)
      PROVE  TypeInv'
    <2>1. TablesType'
        BY <1>1, <1>6, DeliveryType DEF HuyTru, TablesType
    <2>2. BatchesType' /\ BoundsType'
        BY <1>1, <1>6, FailureCounted DEF HuyTru, BatchesType, BoundsType
    <2>3. CallsType'
        BY <1>1, <1>6 DEF HuyTru, CallsType
    <2> QED BY <2>1, <2>2, <2>3, TypePartsNext
<1> QED BY <1>2, <1>3, <1>4, <1>5, <1>6

\* A step of a batch.
LEMMA BatchTypeInv ==
    ASSUME TypeInv, NEW b \in Batches, BatchStep(b)
    PROVE  TypeInv'
<1> DEFINE loc == batch[b]
<1>1. TablesType /\ CallsType /\ BatchesType /\ BoundsType /\ GoodLocals(loc)
    BY TypeParts DEF BatchesType
<1>2. loc.rows \in SUBSET PendingRow
    BY <1>1 DEF GoodLocals, BatchType
<1>3. CASE Scan(b)
    <2>1. BatchesType'
        BY <1>1, <1>3, ScanType, ScannedGood, BatchUpdated DEF Scan
    <2>2. TablesType' /\ CallsType' /\ BoundsType'
        BY <1>1, <1>3 DEF Scan, tables, calls, TablesType, CallsType, BoundsType
    <2> QED BY <2>1, <2>2, TypePartsNext
<1>4. CASE CheckRow(b)
    <2>1. PICK r \in loc.todo, refuse \in BOOLEAN :
              LET add == IF refuse THEN {r} ELSE {}
                  now == [loc EXCEPT !.todo = @ \ {r}, !.rejected = @ \union add,
                                     !.toReject = @ \union add]
              IN  batch' = [batch EXCEPT ![b] = IF now.todo = {} THEN AfterChecks(now) ELSE now]
        BY <1>4 DEF CheckRow
    <2> DEFINE add == IF refuse THEN {r} ELSE {}
               now == [loc EXCEPT !.todo = @ \ {r}, !.rejected = @ \union add,
                                  !.toReject = @ \union add]
    <2>2. GoodLocals(now)
        BY <1>1, CheckedGood
    <2>3. batch' = [batch EXCEPT ![b] = IF now.todo = {} THEN AfterChecks(now) ELSE now]
        BY <2>1
    <2> HIDE DEF now
    <2>4. BatchesType'
        BY <1>1, <2>2, <2>3, AfterChecksGood, BatchUpdated
    <2>5. TablesType' /\ CallsType' /\ crashes' = crashes /\ (StatementFails \/ UNCHANGED failures)
        BY <1>1, <1>4 DEF CheckRow, tables, calls, TablesType, CallsType
    <2>6. BoundsType'
        BY <1>1, <2>5, FailureCounted DEF BoundsType
    <2> QED BY <2>4, <2>5, <2>6, TypePartsNext
<1>5. CASE Reject(b)
    <2>1. PICK r \in loc.toReject :
              /\ \/ /\ dangKy' = SetTrangThai(dangKy, r.sv, r.lhp, "TuChoi")
                    /\ UNCHANGED failures
                 \/ StatementFails /\ UNCHANGED dangKy
              /\ batch' = [batch EXCEPT ![b] = AfterChecks([loc EXCEPT !.toReject = @ \ {r}])]
        BY <1>5 DEF Reject
    <2>2. BatchesType'
        BY <1>1, <2>1, RefusedGood, AfterChecksGood, BatchUpdated
    <2>3. r.sv \in Students /\ r.lhp \in Sections
        BY <1>1, <1>2 DEF GoodLocals, PendingRow
    <2>4. TablesType'
        BY <1>1, <1>5, <2>1, <2>3, SetRow DEF Reject, TablesType, TrangThai
    <2>5. CallsType' /\ crashes' = crashes
        BY <1>1, <1>5 DEF Reject, calls, CallsType
    <2>6. BoundsType'
        BY <1>1, <2>1, <2>5, FailureCounted DEF BoundsType
    <2> QED BY <2>2, <2>4, <2>5, <2>6, TypePartsNext
<1>6. CASE ReadSlot(b)
    <2> PICK s \in Wanted(loc) \ loc.read : \E n \in {SlotConLai(s)} \union ReadErrors(s) :
              /\ IF n = SlotConLai(s) THEN UNCHANGED failures ELSE StatementFails
              /\ batch' = [batch EXCEPT ![b] = SlotRead(loc, s, n)]
        BY <1>6 DEF ReadSlot
    <2>1. PICK n \in {SlotConLai(s)} \union ReadErrors(s) :
              /\ IF n = SlotConLai(s) THEN UNCHANGED failures ELSE StatementFails
              /\ batch' = [batch EXCEPT ![b] = SlotRead(loc, s, n)]
        OBVIOUS
    <2>2. s \in Sections
        <3>1. PICK r \in Eligible(loc) : s \in SectionsOfRequest(loc, r)
            BY <2>1 DEF Wanted
        <3>2. r \in loc.rows
            BY <3>1 DEF Eligible
        <3>3. PrimaryRow(loc.rows, r.sv, CourseOf[r.lhp]) \in PendingRow
            BY <1>2, <3>2, PrimaryRowIn
        <3> QED BY <3>1, <3>3 DEF SectionsOfRequest, PendingRow
    <2>3. n \in Nat
        BY <1>1, <2>1, <2>2, ConstantsAssumption DEF SlotConLai, ReadErrors, TablesType
    <2>4. BatchesType'
        BY <1>1, <2>1, <2>2, <2>3, SlotReadGood, BatchUpdated
    <2>5. TablesType' /\ CallsType' /\ crashes' = crashes
        BY <1>1, <1>6 DEF ReadSlot, tables, calls, TablesType, CallsType
    <2>6. BoundsType'
        BY <1>1, <2>1, <2>5, FailureCounted DEF BoundsType
    <2> QED BY <2>4, <2>5, <2>6, TypePartsNext
<1>7. CASE Allocate(b)
    <2>1. PICK r \in loc.todo :
              LET plan == ConsiderRequest(loc, r)
              IN  \/ batch' = [batch EXCEPT ![b] =
                          [loc EXCEPT !.pc = "write", !.todo = {}, !.plan = NoPlan,
                                      !.writes = WritesOf(loc, plan)]]
                  \/ batch' = [batch EXCEPT ![b] = [loc EXCEPT !.todo = @ \ {r}, !.plan = plan]]
        BY <1>7 DEF Allocate
    <2>2. BatchesType'
        BY <1>1, <2>1, AllocatedGood, BatchUpdated
    <2>3. TablesType' /\ CallsType' /\ BoundsType'
        BY <1>1, <1>7 DEF Allocate, tables, calls, TablesType, CallsType, BoundsType
    <2> QED BY <2>2, <2>3, TypePartsNext
<1>8. CASE Write(b)
    <2>1. PICK w \in loc.writes :
              /\ \/ Executed(w) /\ UNCHANGED failures
                 \/ StatementFails /\ UNCHANGED tables
              /\ \/ batch' = [batch EXCEPT ![b] = Idle]
                 \/ batch' = [batch EXCEPT ![b] = [loc EXCEPT !.writes = @ \ {w}]]
        BY <1>8 DEF Write
    <2>2. BatchesType'
        BY <1>1, <2>1, IdleGood, WrittenGood, BatchUpdated
    <2>3. WriteOfRows(loc.rows, w)
        BY <1>1 DEF GoodLocals
    <2>4. Executed(w) => TablesType'
        BY <1>1, <1>2, <2>3, ExecutedType
    <2>5. TablesType'
        BY <1>1, <2>1, <2>4 DEF tables, TablesType
    <2>6. CallsType' /\ crashes' = crashes
        BY <1>1, <1>8 DEF Write, calls, CallsType
    <2>7. BoundsType'
        BY <1>1, <2>1, <2>6, FailureCounted DEF BoundsType
    <2> QED BY <2>2, <2>5, <2>6, <2>7, TypePartsNext
<1> QED BY <1>3, <1>4, <1>5, <1>6, <1>7, <1>8 DEF BatchStep

\* A pod stops.
LEMMA CrashTypeInv ==
    ASSUME TypeInv, NEW r \in Replicas, Crash(r)
    PROVE  TypeInv'
<1>1. TablesType /\ CallsType /\ BatchesType /\ BoundsType
    BY TypeParts
<1>2. TablesType' /\ CallsType'
    BY <1>1 DEF Crash, tables, TablesType, CallsType
<1>3. BoundsType'
    BY <1>1, ConstantsAssumption DEF Crash, BoundsType
<1>4. BatchesType'
    BY <1>1, IdleGood DEF Crash, BatchesType, GoodLocals
<1> QED BY <1>2, <1>3, <1>4, TypePartsNext

\* Every step keeps the type invariant.
LEMMA TypeInvStep == TypeInv /\ [Next]_vars => TypeInv'
<1> SUFFICES ASSUME TypeInv, [Next]_vars PROVE TypeInv'
    OBVIOUS
<1>1. CASE UNCHANGED vars
    BY <1>1, TypeParts, TypePartsNext DEF vars, TablesType, CallsType, BatchesType, BoundsType
<1> QED BY <1>1, RequestTypeInv, BatchTypeInv, CrashTypeInv DEF Next

\* Tables, calls and batches keep their types, whatever fails or stops: the
\* counter is an integer, no batch works with a negative number of seats, and
\* no delivery exists that no client sent.
THEOREM TypeCorrect == Spec => []TypeOK
<1>1. TypeInv => TypeOK
    BY DEF TypeInv
<1> QED BY <1>1, InitTypeInv, TypeInvStep, PTL DEF Spec

-----------------------------------------------------------------------------
(***************************************************************************)
(* Rows come from requests                                                 *)
(***************************************************************************)

\* Asked, for a set of requests.
NamedIn(requests, sv, lhp) ==
    \E q \in requests : /\ q.kind = "DANG_KY"
                        /\ q.sv = sv
                        /\ lhp \in {q.lhp, q.phu}
                        /\ CourseOf[lhp] = CourseOf[q.lhp]

\* Of a row, the section of its key and its alternative were asked for, and
\* so they were of every row that a batch remembers, which may have changed
\* or gone since the scan.
TableAsked ==
    \A sv \in Students, lhp \in Sections :
        /\ dangKy[sv][lhp].trangThai # "khong" => NamedIn(sent, sv, lhp)
        /\ dangKy[sv][lhp].phu # NoSection => NamedIn(sent, sv, dangKy[sv][lhp].phu)

PendingAsked(r) == NamedIn(sent, r.sv, r.lhp) /\ (r.phu # NoSection => NamedIn(sent, r.sv, r.phu))

BatchesAsked == \A b \in Batches : \A r \in batch[b].rows : PendingAsked(r)

AskedInv == TypeInv /\ TableAsked /\ BatchesAsked

\* What was asked for once, remains asked for.
LEMMA AskedKept ==
    ASSUME sent \subseteq sent'
    PROVE  \A sv, lhp : NamedIn(sent, sv, lhp) => NamedIn(sent', sv, lhp)
BY DEF NamedIn

\* No step forgets a request that was sent.
LEMMA SentGrows == ASSUME Next PROVE sent \subseteq sent'
BY DEF Next, Send, Drop, DangKyMonHoc, HuyXoa, HuyTru, BatchStep, Scan, CheckRow, Reject,
       ReadSlot, Allocate, Write, Crash, calls

\* A status written to a row that was asked for.
LEMMA SetAsked ==
    ASSUME TypeInv, TableAsked, sent \subseteq sent',
           NEW sv \in Students, NEW lhp \in Sections, NEW st \in TrangThai,
           NamedIn(sent, sv, lhp), dangKy' = SetTrangThai(dangKy, sv, lhp, st)
    PROVE  TableAsked'
<1>1. dangKy \in Table
    BY TypeParts DEF TablesType
<1>2. SUFFICES ASSUME NEW s \in Students, NEW l \in Sections
               PROVE  /\ dangKy'[s][l].trangThai # "khong" => NamedIn(sent', s, l)
                      /\ dangKy'[s][l].phu # NoSection => NamedIn(sent', s, dangKy'[s][l].phu)
    BY DEF TableAsked
<1>3. dangKy'[s][l] =
          IF s = sv /\ l = lhp THEN [dangKy[s][l] EXCEPT !.trangThai = st] ELSE dangKy[s][l]
    BY <1>1, SetRow
<1>4. dangKy[s][l] \in Row \union {NoRow}
    BY <1>1 DEF Table
<1>5. dangKy'[s][l].phu = dangKy[s][l].phu
    BY <1>3, <1>4 DEF Row, NoRow
<1>6. dangKy'[s][l].trangThai # "khong" => NamedIn(sent, s, l)
    BY <1>3 DEF TableAsked
<1> QED BY <1>5, <1>6, AskedKept DEF TableAsked

\* A row put in place of another.
LEMMA PutAsked ==
    ASSUME TableAsked, sent \subseteq sent', NEW sv \in Students, NEW lhp \in Sections,
           NEW row \in Row \union {NoRow},
           row.trangThai # "khong" => NamedIn(sent', sv, lhp),
           row.phu # NoSection => NamedIn(sent', sv, row.phu),
           \A s \in Students, l \in Sections :
               dangKy'[s][l] = IF s = sv /\ l = lhp THEN row ELSE dangKy[s][l]
    PROVE  TableAsked'
<1>1. SUFFICES ASSUME NEW s \in Students, NEW l \in Sections
               PROVE  /\ dangKy'[s][l].trangThai # "khong" => NamedIn(sent', s, l)
                      /\ dangKy'[s][l].phu # NoSection => NamedIn(sent', s, dangKy'[s][l].phu)
    BY DEF TableAsked
<1>2. CASE s = sv /\ l = lhp
    BY <1>2
<1>3. CASE ~(s = sv /\ l = lhp)
    <2>1. dangKy'[s][l] = dangKy[s][l]
        BY <1>3
    <2> QED BY <2>1, AskedKept DEF TableAsked
<1> QED BY <1>2, <1>3

\* A table that is not written.
LEMMA TableKept ==
    ASSUME TableAsked, sent \subseteq sent', UNCHANGED dangKy
    PROVE  TableAsked'
BY AskedKept DEF TableAsked

\* Batches that scan nothing new.
LEMMA RowsKept ==
    ASSUME BatchesAsked, sent \subseteq sent',
           \A b \in Batches : batch'[b].rows \subseteq batch[b].rows
    PROVE  BatchesAsked'
<1>1. SUFFICES ASSUME NEW b \in Batches, NEW r \in batch'[b].rows
               PROVE  NamedIn(sent', r.sv, r.lhp) /\ (r.phu # NoSection => NamedIn(sent', r.sv, r.phu))
    BY DEF BatchesAsked, PendingAsked
<1> QED BY AskedKept DEF BatchesAsked, PendingAsked

\* The steps of requests.
LEMMA RequestAsked ==
    ASSUME AskedInv, sent \subseteq sent',
           \/ \E q \in Requests : Send(q)
           \/ \E d \in inbox : Drop(d) \/ DangKyMonHoc(d) \/ HuyXoa(d)
           \/ \E d \in huy : HuyTru(d)
    PROVE  TableAsked' /\ BatchesAsked'
<1>1. TablesType /\ CallsType /\ BatchesType /\ TableAsked /\ BatchesAsked
    BY TypeParts DEF AskedInv
<1>2. UNCHANGED batch
    BY DEF Send, Drop, DangKyMonHoc, HuyXoa, HuyTru
<1>3. BatchesAsked'
    BY <1>1, <1>2, RowsKept
<1>4. CASE UNCHANGED dangKy
    BY <1>1, <1>3, <1>4, TableKept
<1>5. ASSUME NEW d \in inbox, DangKyMonHoc(d)
      PROVE  TableAsked'
    <2> DEFINE q == d[1]
    <2>1. PICK phu \in {q.phu, NoSection} :
              dangKy' = InsertRow(dangKy, q.sv, q.lhp, "ChoXuLy", phu)
        BY <1>5 DEF DangKyMonHoc
    <2>2. /\ q \in sent /\ q.sv \in Students /\ q.lhp \in Sections
          /\ q.phu \in Sections \union {NoSection}
        BY <1>1, DeliveryType
    <2>3. q.kind = "DANG_KY" /\ PhuHopLe(q)
        BY <1>5 DEF DangKyMonHoc
    <2>4. NamedIn(sent', q.sv, q.lhp) /\ (q.phu # NoSection => NamedIn(sent', q.sv, q.phu))
        BY <2>2, <2>3, AskedKept DEF NamedIn, PhuHopLe
    <2> DEFINE row == [trangThai |-> "ChoXuLy", monHoc |-> CourseOf[q.lhp], phu |-> phu]
    <2>5. \A s \in Students, l \in Sections :
              dangKy'[s][l] = IF s = q.sv /\ l = q.lhp THEN row ELSE dangKy[s][l]
        <3>1. "ChoXuLy" \in TrangThai /\ phu \in Sections \union {NoSection}
            BY <2>2 DEF TrangThai
        <3> QED BY <1>1, <2>1, <2>2, <3>1, InsertedRow DEF TablesType
    <2>6. row.trangThai # "khong" => NamedIn(sent', q.sv, q.lhp)
        BY <2>4
    <2>7. row.phu # NoSection => NamedIn(sent', q.sv, row.phu)
        BY <2>4
    <2>8. row \in Row \union {NoRow}
        BY <2>2, ConstantsAssumption DEF Row, TrangThai
    <2> DEFINE sv == q.sv
               lhp == q.lhp
    <2>9. /\ sv \in Students /\ lhp \in Sections
          /\ row.trangThai # "khong" => NamedIn(sent', sv, lhp)
          /\ row.phu # NoSection => NamedIn(sent', sv, row.phu)
          /\ \A s \in Students, l \in Sections :
                 dangKy'[s][l] = IF s = sv /\ l = lhp THEN row ELSE dangKy[s][l]
        BY <2>2, <2>5, <2>6, <2>7
    <2> HIDE DEF row, q, sv, lhp
    <2> QED BY <1>1, <2>8, <2>9, PutAsked
<1>6. ASSUME NEW d \in inbox, HuyXoa(d)
      PROVE  TableAsked'
    <2>1. PICK sv \in Students, lhp \in Sections : dangKy' = DeleteRow(dangKy, sv, lhp)
        BY <1>1, <1>6, DeliveryType DEF HuyXoa
    <2>2. dangKy \in Table
        BY <1>1 DEF TablesType
    <2>3. \A s \in Students, l \in Sections :
              dangKy'[s][l] = IF s = sv /\ l = lhp THEN NoRow ELSE dangKy[s][l]
        BY <2>1, <2>2, DeletedRow
    <2>4. NoRow \in Row \union {NoRow} /\ NoRow.trangThai = "khong" /\ NoRow.phu = NoSection
        BY DEF NoRow
    <2> QED BY <1>1, <2>3, <2>4, PutAsked
<1>7. \/ UNCHANGED dangKy
      \/ \E d \in inbox : DangKyMonHoc(d) \/ HuyXoa(d)
    BY DEF Send, Drop, HuyTru, tables
<1> QED BY <1>3, <1>4, <1>5, <1>6, <1>7

\* A scan finds rows that were asked for.
LEMMA ScanAsked ==
    ASSUME AskedInv, NEW r \in ChoXuLyRows
    PROVE  PendingAsked(r)
<1>1. PICK k \in Students \X Sections :
          /\ dangKy[k[1]][k[2]].trangThai = "ChoXuLy"
          /\ r = [sv |-> k[1], lhp |-> k[2], phu |-> dangKy[k[1]][k[2]].phu]
    BY DEF ChoXuLyRows
<1>2. k[1] \in Students /\ k[2] \in Sections
    OBVIOUS
<1>3. TableAsked
    BY DEF AskedInv
<1> QED BY <1>1, <1>2, <1>3 DEF TableAsked, PendingAsked

\* A statement of a batch writes to sections its row names.
LEMMA ExecutedAsked ==
    ASSUME AskedInv, sent \subseteq sent', NEW rows \in SUBSET PendingRow,
           \A r \in rows : PendingAsked(r), NEW w, WriteOfRows(rows, w), Executed(w)
    PROVE  TableAsked'
<1>1. /\ w.row.sv \in Students /\ w.row.lhp \in Sections /\ w.lhp \in Sections
      /\ w.lhp \in {w.row.lhp, w.row.phu}
    BY DEF WriteOfRows, WriteOp, PendingRow
<1>2. NamedIn(sent, w.row.sv, w.row.lhp) /\ NamedIn(sent, w.row.sv, w.lhp)
    BY <1>1, ConstantsAssumption DEF WriteOfRows, PendingAsked
<1>3. TypeInv /\ TableAsked /\ dangKy \in Table
    BY TypeParts DEF AskedInv, TablesType
<1>4. CASE w.op \in {"confirm", "wait"}
    <2>1. PICK st \in TrangThai : dangKy' = SetTrangThai(dangKy, w.row.sv, w.row.lhp, st)
        BY <1>4 DEF Executed, TrangThai
    <2> QED BY <1>1, <1>2, <1>3, <2>1, SetAsked
<1>5. CASE w.op = "count"
    BY <1>3, <1>5, TableKept DEF Executed
<1>6. CASE w.op = "move"
    <2> DEFINE t == DeleteRow(dangKy, w.row.sv, w.row.lhp)
               row == [trangThai |-> "DaDangKy", monHoc |-> CourseOf[w.lhp], phu |-> NoSection]
    <2>1. /\ t \in Table
          /\ \A s \in Students, l \in Sections :
                 t[s][l] = IF s = w.row.sv /\ l = w.row.lhp THEN NoRow ELSE dangKy[s][l]
        BY <1>1, <1>3, DeletedRow
    <2>2. dangKy' = InsertRow(t, w.row.sv, w.lhp, "DaDangKy", NoSection)
        BY <1>6 DEF Executed
    <2> HIDE DEF t
    <2>3. "DaDangKy" \in TrangThai /\ NoSection \in Sections \union {NoSection}
        BY DEF TrangThai
    <2>4. \A s \in Students, l \in Sections :
              dangKy'[s][l] = IF s = w.row.sv /\ l = w.lhp THEN row ELSE t[s][l]
        BY <1>1, <2>1, <2>2, <2>3, InsertedRow
    <2>5. row.phu = NoSection /\ NoRow.phu = NoSection /\ NoRow.trangThai = "khong"
        BY DEF NoRow
    <2> HIDE DEF row
    <2>6. SUFFICES ASSUME NEW s \in Students, NEW l \in Sections
                   PROVE  /\ dangKy'[s][l].trangThai # "khong" => NamedIn(sent', s, l)
                          /\ dangKy'[s][l].phu # NoSection => NamedIn(sent', s, dangKy'[s][l].phu)
        BY DEF TableAsked
    <2>7. CASE s = w.row.sv /\ l = w.lhp
        BY <1>2, <2>4, <2>5, <2>7, AskedKept
    <2>8. CASE ~(s = w.row.sv /\ l = w.lhp)
        <3>1. dangKy'[s][l] = NoRow \/ dangKy'[s][l] = dangKy[s][l]
            BY <2>1, <2>4, <2>8
        <3> QED BY <1>3, <2>5, <3>1, AskedKept DEF TableAsked
    <2> QED BY <2>7, <2>8
<1> QED BY <1>4, <1>5, <1>6 DEF Executed

\* The steps of batches.
LEMMA BatchAsked ==
    ASSUME AskedInv, sent \subseteq sent', NEW b \in Batches, BatchStep(b)
    PROVE  TableAsked' /\ BatchesAsked'
<1> DEFINE loc == batch[b]
<1>1. TypeInv /\ TablesType /\ BatchesType /\ TableAsked /\ BatchesAsked /\ GoodLocals(loc)
    BY TypeParts DEF AskedInv, BatchesType
<1>2. loc.rows \in SUBSET PendingRow /\ \A r \in loc.rows : PendingAsked(r)
    BY <1>1 DEF GoodLocals, BatchType, BatchesAsked
<1>3. CASE Scan(b)
    <2> DEFINE new == [Idle EXCEPT !.pc = "check", !.rows = ChoXuLyRows, !.todo = ChoXuLyRows]
    <2>1. batch' = [batch EXCEPT ![b] = new] /\ new.rows = ChoXuLyRows /\ UNCHANGED dangKy
        BY <1>3 DEF Scan, Idle, tables
    <2> HIDE DEF new
    <2>2. \A c \in Batches : batch'[c].rows = IF c = b THEN ChoXuLyRows ELSE batch[c].rows
        BY <1>1, <2>1 DEF BatchesType
    <2>3. \A c \in Batches : \A r \in batch'[c].rows : PendingAsked(r)
        BY <1>1, <2>2, ScanAsked DEF BatchesAsked
    <2>4. BatchesAsked'
        BY <2>3, AskedKept DEF BatchesAsked, PendingAsked
    <2> QED BY <1>1, <2>1, <2>4, TableKept
<1>4. CASE ~Scan(b)
    <2>1. PICK new : batch' = [batch EXCEPT ![b] = new] /\ new.rows \subseteq loc.rows
        <3>1. loc \in BatchType
            BY <1>1 DEF GoodLocals
        <3>2. Idle.rows \subseteq loc.rows
            BY DEF Idle
        <3>3. ASSUME NEW l, l \in BatchType, l.rows \subseteq loc.rows
              PROVE  AfterChecks(l).rows \subseteq loc.rows
            BY <3>2, <3>3 DEF AfterChecks, BatchType
        <3>4. CASE CheckRow(b)
            <4>1. PICK r \in loc.todo, refuse \in BOOLEAN :
                      LET add == IF refuse THEN {r} ELSE {}
                          now == [loc EXCEPT !.todo = @ \ {r}, !.rejected = @ \union add,
                                             !.toReject = @ \union add]
                      IN  batch' = [batch EXCEPT ![b] =
                                       IF now.todo = {} THEN AfterChecks(now) ELSE now]
                BY <3>4 DEF CheckRow
            <4> DEFINE add == IF refuse THEN {r} ELSE {}
                       now == [loc EXCEPT !.todo = @ \ {r}, !.rejected = @ \union add,
                                          !.toReject = @ \union add]
            <4>2. GoodLocals(now) /\ now.rows = loc.rows
                BY <1>1, <3>1, CheckedGood DEF BatchType
            <4>3. batch' = [batch EXCEPT ![b] = IF now.todo = {} THEN AfterChecks(now) ELSE now]
                BY <4>1
            <4> HIDE DEF now
            <4> QED BY <3>3, <4>2, <4>3 DEF GoodLocals
        <3>5. CASE Reject(b)
            <4>1. PICK r \in loc.toReject :
                      batch' = [batch EXCEPT ![b] = AfterChecks([loc EXCEPT !.toReject = @ \ {r}])]
                BY <3>5 DEF Reject
            <4> DEFINE now == [loc EXCEPT !.toReject = @ \ {r}]
            <4>2. GoodLocals(now) /\ now.rows = loc.rows
                BY <1>1, <3>1, RefusedGood DEF BatchType
            <4> HIDE DEF now
            <4> QED BY <3>3, <4>1, <4>2 DEF GoodLocals, now
        <3>6. CASE ReadSlot(b)
            <4>1. PICK s, n : batch' = [batch EXCEPT ![b] = SlotRead(loc, s, n)]
                BY <3>6 DEF ReadSlot
            <4>2. SlotRead(loc, s, n).rows = loc.rows
                BY <3>1 DEF SlotRead, BatchType
            <4> QED BY <4>1, <4>2
        <3>7. CASE Allocate(b)
            <4>1. PICK r \in loc.todo :
                      LET plan == ConsiderRequest(loc, r)
                      IN  \/ batch' = [batch EXCEPT ![b] =
                                  [loc EXCEPT !.pc = "write", !.todo = {}, !.plan = NoPlan,
                                              !.writes = WritesOf(loc, plan)]]
                          \/ batch' = [batch EXCEPT ![b] =
                                  [loc EXCEPT !.todo = @ \ {r}, !.plan = plan]]
                BY <3>7 DEF Allocate
            <4> DEFINE plan == ConsiderRequest(loc, r)
                       last == [loc EXCEPT !.pc = "write", !.todo = {}, !.plan = NoPlan,
                                           !.writes = WritesOf(loc, plan)]
                       next == [loc EXCEPT !.todo = @ \ {r}, !.plan = plan]
            <4>2. last.rows = loc.rows /\ next.rows = loc.rows
                BY <3>1 DEF BatchType
            <4>3. batch' = [batch EXCEPT ![b] = last] \/ batch' = [batch EXCEPT ![b] = next]
                BY <4>1
            <4> HIDE DEF last, next
            <4> QED BY <4>2, <4>3
        <3>8. CASE Write(b)
            <4>1. PICK w \in loc.writes :
                      \/ batch' = [batch EXCEPT ![b] = Idle]
                      \/ batch' = [batch EXCEPT ![b] = [loc EXCEPT !.writes = @ \ {w}]]
                BY <3>8 DEF Write
            <4> DEFINE next == [loc EXCEPT !.writes = @ \ {w}]
            <4>2. next.rows = loc.rows
                BY <3>1 DEF BatchType
            <4>3. batch' = [batch EXCEPT ![b] = Idle] \/ batch' = [batch EXCEPT ![b] = next]
                BY <4>1
            <4> HIDE DEF next
            <4> QED BY <3>2, <4>2, <4>3
        <3> QED BY <1>4, <3>4, <3>5, <3>6, <3>7, <3>8 DEF BatchStep
    <2>2. \A c \in Batches : batch'[c].rows \subseteq batch[c].rows
        BY <1>1, <2>1 DEF BatchesType
    <2>3. BatchesAsked'
        BY <1>1, <2>2, RowsKept
    <2>4. TableAsked'
        <3>1. CASE UNCHANGED dangKy
            BY <1>1, <3>1, TableKept
        <3>2. ASSUME NEW r \in loc.toReject, dangKy' = SetTrangThai(dangKy, r.sv, r.lhp, "TuChoi")
              PROVE  TableAsked'
            <4>1. r \in loc.rows /\ r.sv \in Students /\ r.lhp \in Sections
                BY <1>1, <1>2 DEF GoodLocals, PendingRow
            <4>2. NamedIn(sent, r.sv, r.lhp) /\ "TuChoi" \in TrangThai
                BY <1>2, <4>1 DEF PendingAsked, TrangThai
            <4> QED BY <1>1, <3>2, <4>1, <4>2, SetAsked
        <3>3. ASSUME NEW w \in loc.writes, Executed(w)
              PROVE  TableAsked'
            BY <1>1, <1>2, <3>3, ExecutedAsked DEF GoodLocals
        <3>4. \/ UNCHANGED dangKy
              \/ \E r \in loc.toReject : dangKy' = SetTrangThai(dangKy, r.sv, r.lhp, "TuChoi")
              \/ \E w \in loc.writes : Executed(w)
            BY <1>4 DEF BatchStep, CheckRow, Reject, ReadSlot, Allocate, Write, tables
        <3> QED BY <3>1, <3>2, <3>3, <3>4
    <2> QED BY <2>3, <2>4
<1> QED BY <1>3, <1>4

\* The naming of sections at the start and after every step.
LEMMA AskedInit == Init => AskedInv
<1> SUFFICES ASSUME Init PROVE AskedInv
    OBVIOUS
<1>1. TableAsked
    BY DEF Init, TableAsked, NoRow
<1>2. BatchesAsked
    BY DEF Init, BatchesAsked, Idle
<1> QED BY <1>1, <1>2, InitTypeInv DEF AskedInv

\* Every step.
LEMMA AskedStep == AskedInv /\ [Next]_vars => AskedInv'
<1> SUFFICES ASSUME AskedInv, [Next]_vars PROVE AskedInv'
    OBVIOUS
<1>1. TypeInv'
    BY TypeInvStep DEF AskedInv
<1>2. CASE UNCHANGED vars
    <2>1. sent \subseteq sent' /\ UNCHANGED <<dangKy, batch>>
        BY <1>2 DEF vars
    <2> QED BY <1>1, <2>1, TableKept, RowsKept DEF AskedInv
<1>3. CASE Next
    <2>1. sent \subseteq sent'
        BY <1>3, SentGrows
    <2>2. ASSUME NEW r \in Replicas, Crash(r)
          PROVE  TableAsked' /\ BatchesAsked'
        <3>1. UNCHANGED dangKy /\ \A b \in Batches : batch'[b].rows \subseteq batch[b].rows
            BY <2>2 DEF Crash, tables, Idle
        <3> QED BY <2>1, <3>1, TableKept, RowsKept DEF AskedInv
    <2> QED BY <1>1, <1>3, <2>1, <2>2, RequestAsked, BatchAsked DEF Next, AskedInv
<1> QED BY <1>2, <1>3

\* Whatever batches, cancellations and failures do in between, a row is only
\* ever in a section that its student asked for, in a wish for its course: a
\* batch that works from rows read long ago moves nobody to another section.
THEOREM OnlyAsked == Spec => []OnlyAskedSections
<1>1. AskedInv => OnlyAskedSections
    BY DEF AskedInv, TableAsked, OnlyAskedSections, Asked, NamedIn, NoRow
<1> QED BY AskedInit, AskedStep, <1>1, PTL DEF Spec

-----------------------------------------------------------------------------
(***************************************************************************)
(* Conditions                                                              *)
(***************************************************************************)

\* One pod, with one batch at a time.
OneBatch == \A b, c \in Batches : b = c

\* assignedCourse remembers the last course of a student only.  That is
\* enough if a student who names two sections of a course in wishes of their
\* own wishes for no other course.
OneCourseRemembered ==
    \A q1, q2, q3 \in {q \in Requests : q.kind = "DANG_KY"} :
        /\ q1.sv = q2.sv /\ q1.sv = q3.sv
        /\ CourseOf[q1.lhp] = CourseOf[q2.lhp] /\ q1.lhp # q2.lhp
        => CourseOf[q3.lhp] = CourseOf[q1.lhp]

\* Nobody cancels, no statement fails and no pod stops.
NoCancellations == \A q \in Requests : q.kind # "HUY"
NoFaults        == MaxFailures = 0 /\ MaxCrashes = 0

-----------------------------------------------------------------------------
(***************************************************************************)
(* Counting                                                                *)
(***************************************************************************)

\* Sets that a function pairs off have the same size.
LEMMA SameSize ==
    ASSUME NEW S, IsFiniteSet(S), NEW T, NEW f \in [S -> T],
           \A x, y \in S : f[x] = f[y] => x = y,
           \A t \in T : \E x \in S : f[x] = t
    PROVE  IsFiniteSet(T) /\ Cardinality(T) = Cardinality(S)
<1>1. f \in Surjection(S, T) /\ f \in Injection(S, T)
    BY DEF Surjection, Injection, IsInjective
<1> QED BY <1>1, FS_Surjection

\* A set that a function sends into another one, with no two elements to the
\* same place, is not larger.
LEMMA NotLarger ==
    ASSUME NEW S, NEW T, IsFiniteSet(T), NEW f \in [S -> T],
           \A x, y \in S : f[x] = f[y] => x = y
    PROVE  IsFiniteSet(S) /\ Cardinality(S) <= Cardinality(T)
<1>1. f \in Injection(S, T)
    BY DEF Injection, IsInjective
<1> QED BY <1>1, FS_Injection

\* Taking one element out of a finite set.
LEMMA OneLess ==
    ASSUME NEW S, IsFiniteSet(S), NEW x \in S, NEW T, T = S \ {x}
    PROVE  Cardinality(T) = Cardinality(S) - 1
BY FS_RemoveElement

\* Adding or dropping one element changes the size by at most one.
LEMMA AtMostOneMore ==
    ASSUME NEW S, IsFiniteSet(S), NEW x, NEW T, T \subseteq S \union {x}
    PROVE  /\ IsFiniteSet(T)
           /\ Cardinality(S) \in Nat /\ Cardinality(T) \in Nat
           /\ Cardinality(T) <= Cardinality(S) + 1
<1>1. /\ IsFiniteSet(S \union {x})
      /\ Cardinality(S \union {x}) \in {Cardinality(S), Cardinality(S) + 1}
    BY FS_AddElement
<1>2. T \in SUBSET (S \union {x})
    OBVIOUS
<1>3. IsFiniteSet(T) /\ Cardinality(T) <= Cardinality(S \union {x})
    BY <1>1, <1>2, FS_Subset
<1>4. Cardinality(S) \in Nat /\ Cardinality(T) \in Nat
    BY <1>3, FS_CardinalityType
<1> QED BY <1>1, <1>3, <1>4

-----------------------------------------------------------------------------
(***************************************************************************)
(* The rows of a batch                                                     *)
(***************************************************************************)

\* A student wished for a section as a primary one.
Wished(requests, sv, lhp) == \E q \in requests : q.kind = "DANG_KY" /\ q.sv = sv /\ q.lhp = lhp

\* The alternative of a row is a section of the same course.
SameCourse(lhp, phu) == phu # NoSection => CourseOf[phu] = CourseOf[lhp]

\* A scan returns each row once; the student wished for it.
GoodRows(requests, rows) ==
    /\ \A r \in rows : Wished(requests, r.sv, r.lhp) /\ SameCourse(r.lhp, r.phu)
    /\ \A r1, r2 \in rows : r1.sv = r2.sv /\ r1.lhp = r2.lhp => r1 = r2

\* What OneCourseRemembered says of the rows of a batch.
RowsRemembered(rows) ==
    \A r1, r2, r3 \in rows :
        /\ r1.sv = r2.sv /\ r1.sv = r3.sv
        /\ CourseOf[r1.lhp] = CourseOf[r2.lhp] /\ r1 # r2
        => CourseOf[r3.lhp] = CourseOf[r1.lhp]

\* What it says of requests holds of the rows that come from them.
LEMMA RememberedRows ==
    ASSUME OneCourseRemembered, sent \subseteq Requests, NEW rows, GoodRows(sent, rows)
    PROVE  RowsRemembered(rows)
<1>1. SUFFICES ASSUME NEW r1 \in rows, NEW r2 \in rows, NEW r3 \in rows,
                      r1.sv = r2.sv, r1.sv = r3.sv,
                      CourseOf[r1.lhp] = CourseOf[r2.lhp], r1 # r2
               PROVE  CourseOf[r3.lhp] = CourseOf[r1.lhp]
    BY DEF RowsRemembered
<1>2. r1.lhp # r2.lhp
    BY <1>1 DEF GoodRows
<1>3. \A r \in rows : \E q \in Requests : q.kind = "DANG_KY" /\ q.sv = r.sv /\ q.lhp = r.lhp
    BY DEF GoodRows, Wished
<1>4. PICK q1 \in Requests : q1.kind = "DANG_KY" /\ q1.sv = r1.sv /\ q1.lhp = r1.lhp
    BY <1>3
<1>5. PICK q2 \in Requests : q2.kind = "DANG_KY" /\ q2.sv = r2.sv /\ q2.lhp = r2.lhp
    BY <1>3
<1>6. PICK q3 \in Requests : q3.kind = "DANG_KY" /\ q3.sv = r3.sv /\ q3.lhp = r3.lhp
    BY <1>3
<1> QED BY <1>1, <1>2, <1>4, <1>5, <1>6 DEF OneCourseRemembered

-----------------------------------------------------------------------------
(***************************************************************************)
(* The plan of a batch                                                     *)
(***************************************************************************)

\* The seats of a section that a plan disposes of, free or given away.
SeatsOf(plan, lhp) == plan.capLeft[lhp] + Cardinality(SeatsTaken(plan, lhp))

\* An assignment answers the request of a row: same student, same course.
Answers(a, r) == a.student = r.sv /\ a.course = CourseOf[r.lhp]

\* Every assignment answers a request that Solve has considered.
FromDone(done, plan) ==
    \A i \in 1..Len(plan.confirmed) : \E r \in done : Answers(plan.confirmed[i], r)

\* Of a course given to a student who has a request for it left, the student
\* is remembered.
Remembers(todo, plan) ==
    \A i \in 1..Len(plan.confirmed), r \in todo :
        Answers(plan.confirmed[i], r) => plan.assignedCourse[r.sv] = CourseOf[r.lhp]

\* A student gets one seat of a course.
GivenOnce(plan) ==
    \A i, j \in 1..Len(plan.confirmed) :
        /\ plan.confirmed[i].student = plan.confirmed[j].student
        /\ plan.confirmed[i].course = plan.confirmed[j].course
        => i = j

GoodPlan(done, todo, plan) == FromDone(done, plan) /\ Remembers(todo, plan) /\ GivenOnce(plan)

\* A turn of the greedy loop keeps the seats of a section together.
LEMMA ConsiderSeats ==
    ASSUME NEW plan \in Plan, NEW e \in Edge, NEW lhp \in Sections
    PROVE  SeatsOf(Consider(plan, e, {}), lhp) = SeatsOf(plan, lhp)
<1>1. plan.capLeft \in [Sections -> Int] /\ Cardinality(SeatsTaken(plan, lhp)) \in Nat
    BY SeatsTakenFinite DEF Plan
<1>2. e.section \in Sections
    BY DEF Edge
<1>3. CASE CanAssign(plan, e, {})
    <2> DEFINE q == DoAssign(plan, e)
    <2>1. q.capLeft = [plan.capLeft EXCEPT ![e.section] = @ - 1]
        BY DEF DoAssign
    <2>2. Cardinality(SeatsTaken(q, lhp)) =
              IF lhp = e.section THEN Cardinality(SeatsTaken(plan, lhp)) + 1
              ELSE Cardinality(SeatsTaken(plan, lhp))
        BY DoAssignSeats
    <2>3. Consider(plan, e, {}) = q
        BY <1>3 DEF Consider
    <2> HIDE DEF q
    <2>4. CASE lhp = e.section
        <3>1. q.capLeft[lhp] = plan.capLeft[lhp] - 1
            BY <1>1, <1>2, <2>1, <2>4
        <3> QED BY <1>1, <2>2, <2>3, <2>4, <3>1 DEF SeatsOf
    <2>5. CASE lhp # e.section
        <3>1. q.capLeft[lhp] = plan.capLeft[lhp]
            BY <1>1, <1>2, <2>1, <2>5
        <3> QED BY <1>1, <2>2, <2>3, <2>5, <3>1 DEF SeatsOf
    <2> QED BY <2>4, <2>5
<1>4. CASE ~CanAssign(plan, e, {})
    <2>1. Consider(plan, e, {}).capLeft = plan.capLeft
        BY <1>4 DEF Consider, Defer, Plan
    <2>2. Consider(plan, e, {}).confirmed = plan.confirmed
        BY <1>4 DEF Consider, Defer, Plan
    <2> QED BY <2>1, <2>2 DEF SeatsOf, SeatsTaken
<1> QED BY <1>3, <1>4

\* The lists and the memory of a plan after a turn of the greedy loop.
LEMMA ConsiderCases ==
    ASSUME NEW plan \in Plan, NEW e \in Edge
    PROVE  LET q == Consider(plan, e, {})
               n == Len(plan.confirmed)
           IN  \/ /\ plan.assignedCourse[e.student] # e.course
                  /\ Len(q.confirmed) = n + 1
                  /\ q.confirmed[n + 1] = e
                  /\ \A i \in 1..n : q.confirmed[i] = plan.confirmed[i]
                  /\ q.assignedCourse = [plan.assignedCourse EXCEPT ![e.student] = e.course]
               \/ q.confirmed = plan.confirmed /\ q.assignedCourse = plan.assignedCourse
<1> DEFINE q == Consider(plan, e, {})
<1>1. plan.confirmed \in Seq(Edge)
    BY DEF Plan, Assignment
<1>2. CASE CanAssign(plan, e, {})
    <2>1. /\ q.confirmed = Append(plan.confirmed, e)
          /\ q.assignedCourse = [plan.assignedCourse EXCEPT ![e.student] = e.course]
        BY <1>2 DEF Consider, DoAssign
    <2>2. plan.assignedCourse[e.student] # e.course
        BY <1>2 DEF CanAssign
    <2> HIDE DEF q
    <2>3. /\ Len(q.confirmed) = Len(plan.confirmed) + 1
          /\ q.confirmed[Len(plan.confirmed) + 1] = e
          /\ \A i \in 1..Len(plan.confirmed) : q.confirmed[i] = plan.confirmed[i]
        BY <1>1, <2>1, AppendProperties
    <2> QED BY <2>1, <2>2, <2>3 DEF q
<1>3. CASE ~CanAssign(plan, e, {})
    <2>1. q.confirmed = plan.confirmed /\ q.assignedCourse = plan.assignedCourse
        BY <1>3 DEF Consider, Defer, Plan
    <2> QED BY <2>1
<1> QED BY <1>2, <1>3

\* A turn for an edge of request r, which Solve has taken from todo, gives no
\* student a second seat of a course.  Another course of the student is
\* forgotten, but then no request for that one is left.
LEMMA ConsiderOnce ==
    ASSUME NEW rows \in SUBSET PendingRow, RowsRemembered(rows),
           NEW done \in SUBSET rows, NEW todo \in SUBSET rows, NEW r \in done \intersect todo,
           done \intersect todo \subseteq {r},
           NEW plan \in Plan, GoodPlan(done, todo, plan),
           NEW e \in Edge, Answers(e, r)
    PROVE  GoodPlan(done, todo, Consider(plan, e, {}))
<1> DEFINE q == Consider(plan, e, {})
           n == Len(plan.confirmed)
<1>1. n \in Nat /\ plan.assignedCourse \in [Students -> Courses \union {NoCourse}]
    BY DEF Plan
<1>2. CASE q.confirmed = plan.confirmed /\ q.assignedCourse = plan.assignedCourse
    BY <1>2 DEF GoodPlan, FromDone, Remembers, GivenOnce
<1>3. CASE /\ plan.assignedCourse[e.student] # e.course
           /\ Len(q.confirmed) = n + 1
           /\ q.confirmed[n + 1] = e
           /\ \A i \in 1..n : q.confirmed[i] = plan.confirmed[i]
           /\ q.assignedCourse = [plan.assignedCourse EXCEPT ![e.student] = e.course]
    <2> HIDE DEF q, n
    <2>1. \A i \in 1..Len(q.confirmed) : i = n + 1 \/ i \in 1..n
        BY <1>1, <1>3
    <2>2. \A i \in 1..n : ~(plan.confirmed[i].student = e.student /\ plan.confirmed[i].course = e.course)
        BY <1>3 DEF GoodPlan, Remembers, Answers, n
    <2>3. FromDone(done, q)
        <3>1. \A i \in 1..n : \E x \in done : Answers(q.confirmed[i], x)
            BY <1>3 DEF GoodPlan, FromDone, n
        <3> QED BY <1>3, <2>1, <3>1 DEF FromDone
    <2>4. GivenOnce(q)
        <3>1. \A i, j \in 1..n : q.confirmed[i].student = q.confirmed[j].student
                                 /\ q.confirmed[i].course = q.confirmed[j].course => i = j
            BY <1>3 DEF GoodPlan, GivenOnce, n
        <3> QED BY <1>3, <2>1, <2>2, <3>1 DEF GivenOnce
    <2>5. Remembers(todo, q)
        <3>1. SUFFICES ASSUME NEW i \in 1..Len(q.confirmed), NEW t \in todo,
                              Answers(q.confirmed[i], t)
                       PROVE  q.assignedCourse[t.sv] = CourseOf[t.lhp]
            BY DEF Remembers
        <3>2. e.student \in Students /\ t.sv \in Students
            BY DEF Edge, PendingRow
        <3>3. CASE t.sv = e.student /\ CourseOf[t.lhp] = e.course
            BY <1>1, <1>3, <3>2, <3>3
        <3>4. CASE t.sv # e.student
            <4>1. i # n + 1
                BY <1>3, <3>1, <3>4 DEF Answers
            <4>2. plan.assignedCourse[t.sv] = CourseOf[t.lhp]
                BY <1>3, <2>1, <3>1, <4>1 DEF GoodPlan, Remembers, n
            <4> QED BY <1>1, <1>3, <3>2, <3>4, <4>2
        <3>5. CASE t.sv = e.student /\ CourseOf[t.lhp] # e.course
            <4>1. i \in 1..n
                BY <1>3, <2>1, <3>1, <3>5 DEF Answers
            <4>2. PICK x \in done : Answers(plan.confirmed[i], x)
                BY <4>1 DEF GoodPlan, FromDone, n
            <4>3. x.sv = t.sv /\ CourseOf[x.lhp] = CourseOf[t.lhp]
                BY <1>3, <3>1, <4>1, <4>2 DEF Answers
            <4>4. r.sv = t.sv /\ CourseOf[r.lhp] # CourseOf[t.lhp]
                BY <3>5 DEF Answers
            <4>5. x # t
                BY <4>3, <4>4
            <4> QED BY <4>3, <4>4, <4>5 DEF RowsRemembered
        <3> QED BY <3>3, <3>4, <3>5
    <2> QED BY <2>3, <2>4, <2>5 DEF GoodPlan, q
<1>4. \/ /\ plan.assignedCourse[e.student] # e.course
         /\ Len(q.confirmed) = n + 1
         /\ q.confirmed[n + 1] = e
         /\ \A i \in 1..n : q.confirmed[i] = plan.confirmed[i]
         /\ q.assignedCourse = [plan.assignedCourse EXCEPT ![e.student] = e.course]
      \/ q.confirmed = plan.confirmed /\ q.assignedCourse = plan.assignedCourse
    BY ConsiderCases
<1> QED BY <1>2, <1>3, <1>4

\* The request of a row: one or two turns.
LEMMA ConsiderRequestOnce ==
    ASSUME NEW loc, GoodLocals(loc), RowsRemembered(loc.rows), loc.todo \subseteq Eligible(loc),
           NEW r \in loc.todo, GoodPlan(Eligible(loc) \ loc.todo, loc.todo, loc.plan)
    PROVE  GoodPlan(Eligible(loc) \ (loc.todo \ {r}), loc.todo \ {r}, ConsiderRequest(loc, r))
<1> DEFINE p == PrimaryRow(loc.rows, r.sv, CourseOf[r.lhp])
           edge(lhp) == [student |-> r.sv, course |-> CourseOf[r.lhp],
                         section |-> lhp, score |-> 0]
           first == Consider(loc.plan, edge(p.lhp), {})
           done == Eligible(loc) \ (loc.todo \ {r})
<1>1. r \in loc.rows /\ loc.rows \in SUBSET PendingRow /\ loc.plan \in Plan
    BY DEF GoodLocals, BatchType
<1>2. p \in PendingRow
    BY <1>1, PrimaryRowIn
<1>3. ASSUME NEW lhp \in Sections PROVE edge(lhp) \in Edge /\ Answers(edge(lhp), r)
    <2>1. r.sv \in Students /\ CourseOf[r.lhp] \in Courses
        BY <1>1, ConstantsAssumption DEF PendingRow
    <2> QED BY <2>1 DEF Edge, Answers
<1>4. /\ done \in SUBSET loc.rows /\ loc.todo \in SUBSET loc.rows
      /\ r \in done \intersect loc.todo /\ done \intersect loc.todo \subseteq {r}
    BY DEF Eligible
<1>5. GoodPlan(done, loc.todo, loc.plan)
    BY DEF GoodPlan, FromDone
<1>6. p.lhp \in Sections /\ p.phu \in Sections \union {NoSection}
    BY <1>2 DEF PendingRow
<1>7. ConsiderRequest(loc, r) =
          IF p.phu = NoSection THEN first ELSE Consider(first, edge(p.phu), {})
    BY DEF ConsiderRequest
<1> HIDE DEF p, edge, done
<1>8. first \in Plan
    BY <1>1, <1>3, <1>6, ConsiderType
<1>9. GoodPlan(done, loc.todo, first)
    BY <1>1, <1>3, <1>4, <1>5, <1>6, ConsiderOnce
<1> HIDE DEF first
<1>10. p.phu # NoSection => GoodPlan(done, loc.todo, Consider(first, edge(p.phu), {}))
    BY <1>1, <1>3, <1>4, <1>6, <1>8, <1>9, ConsiderOnce
<1>11. GoodPlan(done, loc.todo, ConsiderRequest(loc, r))
    BY <1>7, <1>9, <1>10
<1> QED BY <1>11 DEF GoodPlan, Remembers, done

\* It moves seats only between capLeft and confirmed.
LEMMA ConsiderRequestSeats ==
    ASSUME NEW loc, GoodLocals(loc), NEW r \in loc.todo, NEW lhp \in Sections
    PROVE  SeatsOf(ConsiderRequest(loc, r), lhp) = SeatsOf(loc.plan, lhp)
<1> DEFINE p == PrimaryRow(loc.rows, r.sv, CourseOf[r.lhp])
           edge(l) == [student |-> r.sv, course |-> CourseOf[r.lhp],
                       section |-> l, score |-> 0]
           first == Consider(loc.plan, edge(p.lhp), {})
<1>1. r \in loc.rows /\ loc.rows \in SUBSET PendingRow /\ loc.plan \in Plan
    BY DEF GoodLocals, BatchType
<1>2. p \in PendingRow
    BY <1>1, PrimaryRowIn
<1>3. ASSUME NEW l \in Sections PROVE edge(l) \in Edge
    <2>1. r.sv \in Students /\ CourseOf[r.lhp] \in Courses
        BY <1>1, ConstantsAssumption DEF PendingRow
    <2> QED BY <2>1 DEF Edge
<1>4. p.lhp \in Sections /\ p.phu \in Sections \union {NoSection}
    BY <1>2 DEF PendingRow
<1>5. ConsiderRequest(loc, r) =
          IF p.phu = NoSection THEN first ELSE Consider(first, edge(p.phu), {})
    BY DEF ConsiderRequest
<1> HIDE DEF p, edge
<1>6. first \in Plan /\ SeatsOf(first, lhp) = SeatsOf(loc.plan, lhp)
    BY <1>1, <1>3, <1>4, ConsiderType, ConsiderSeats
<1> HIDE DEF first
<1>7. p.phu # NoSection => SeatsOf(Consider(first, edge(p.phu), {}), lhp) = SeatsOf(first, lhp)
    BY <1>3, <1>4, <1>6, ConsiderSeats
<1> QED BY <1>5, <1>6, <1>7

-----------------------------------------------------------------------------
(***************************************************************************)
(* The statements of a batch                                               *)
(***************************************************************************)

\* Two statements serve the same student and course.
SameOwner(w, v) == w.row.sv = v.row.sv /\ CourseOf[w.row.lhp] = CourseOf[v.row.lhp]

\* For a student and course there is at most one statement about a row, and
\* at most one about a counter.
WritesOnce(writes) ==
    \A w, v \in writes : SameOwner(w, v) /\ (w.op = "count" <=> v.op = "count") => w = v

\* A status is written to the row it is about, unless the row moves.
WritesInPlace(writes) == \A w \in writes : w.op \in {"confirm", "wait"} => w.lhp = w.row.lhp

\* The statements of an operation for a section.
Selected(writes, ops, lhp) == {w \in writes : w.op \in ops /\ w.lhp = lhp}

\* A statement of a plan is one of three.
LEMMA WritesCases ==
    ASSUME NEW loc, NEW plan, NEW w \in WritesOf(loc, plan)
    PROVE  \/ \E i \in 1..Len(plan.confirmed) : w = StatusWrite(loc, plan, i)
           \/ \E i \in 1..Len(plan.confirmed) : w = CountWrite(loc, plan, i)
           \/ \E i \in 1..Len(plan.waitlist) :
                  /\ ~Handled(plan, plan.waitlist[i])
                  /\ w = [op |-> "wait", at |-> 0, row |-> RowOf(loc, plan.waitlist[i]),
                          lhp |-> RowOf(loc, plan.waitlist[i]).lhp]
BY DEF WritesOf, WaitWrites, ToSet

\* The statements of an assignment and what they say.
LEMMA WriteFields ==
    ASSUME NEW loc, NEW plan, NEW i
    PROVE  LET s == StatusWrite(loc, plan, i)
               c == CountWrite(loc, plan, i)
               a == plan.confirmed[i]
           IN  /\ s.op \in {"confirm", "move"} /\ s.at = i /\ s.lhp = a.section
               /\ s.row = RowOf(loc, a) /\ (s.op = "confirm" => s.lhp = s.row.lhp)
               /\ c.op = "count" /\ c.at = i /\ c.lhp = a.section /\ c.row = RowOf(loc, a)
BY DEF StatusWrite, CountWrite

\* The statements of a plan are finitely many, each status in its place.
LEMMA WritesOfShape ==
    ASSUME NEW loc, NEW plan \in Plan
    PROVE  IsFiniteSet(WritesOf(loc, plan)) /\ WritesInPlace(WritesOf(loc, plan))
<1> DEFINE n == Len(plan.confirmed)
           m == Len(plan.waitlist)
           wait(i) == [op |-> "wait", at |-> 0, row |-> RowOf(loc, plan.waitlist[i]),
                       lhp |-> RowOf(loc, plan.waitlist[i]).lhp]
           S == {StatusWrite(loc, plan, i) : i \in 1..n}
           C == {CountWrite(loc, plan, i) : i \in 1..n}
           W == {wait(i) : i \in 1..m}
<1>1. n \in Nat /\ m \in Nat
    BY DEF Plan
<1>2. \A k \in Nat : IsFiniteSet(1..k)
    BY FS_Interval
<1>3. IsFiniteSet(S)
    <2>1. [i \in 1..n |-> StatusWrite(loc, plan, i)] \in Surjection(1..n, S)
        BY DEF Surjection
    <2> QED BY <1>1, <1>2, <2>1, FS_Surjection
<1>4. IsFiniteSet(C)
    <2>1. [i \in 1..n |-> CountWrite(loc, plan, i)] \in Surjection(1..n, C)
        BY DEF Surjection
    <2> QED BY <1>1, <1>2, <2>1, FS_Surjection
<1>5. IsFiniteSet(W)
    <2>1. [i \in 1..m |-> wait(i)] \in Surjection(1..m, W)
        BY DEF Surjection
    <2> QED BY <1>1, <1>2, <2>1, FS_Surjection
<1>6. IsFiniteSet((S \union C) \union W)
    BY <1>3, <1>4, <1>5, FS_Union
<1>7. WritesOf(loc, plan) \in SUBSET ((S \union C) \union W)
    BY WritesCases
<1>8. WritesInPlace(WritesOf(loc, plan))
    BY WritesCases, WriteFields DEF WritesInPlace
<1> QED BY <1>6, <1>7, <1>8, FS_Subset

\* A plan with one seat for a student and course has one statement of a kind.
LEMMA WritesOfOnce ==
    ASSUME NEW loc, NEW plan \in Plan, PlanOfRows(loc.rows, plan), GivenOnce(plan)
    PROVE  WritesOnce(WritesOf(loc, plan))
<1> DEFINE n == Len(plan.confirmed)
           m == Len(plan.waitlist)
           served(w, e) == w.row = RowOf(loc, e) /\ w.row.sv = e.student /\ CourseOf[w.row.lhp] = e.course
           status(w) == \E i \in 1..n : w = StatusWrite(loc, plan, i) /\ served(w, plan.confirmed[i])
           count(w) == \E i \in 1..n : w = CountWrite(loc, plan, i) /\ served(w, plan.confirmed[i])
           wait(w) == \E i \in 1..m :
                          /\ ~Handled(plan, plan.waitlist[i])
                          /\ w = [op |-> "wait", at |-> 0, row |-> RowOf(loc, plan.waitlist[i]),
                                  lhp |-> RowOf(loc, plan.waitlist[i]).lhp]
                          /\ served(w, plan.waitlist[i])
<1>1. \A i \in 1..n : LET p == RowOf(loc, plan.confirmed[i])
                      IN  p.sv = plan.confirmed[i].student /\ CourseOf[p.lhp] = plan.confirmed[i].course
    BY DEF PlanOfRows, EdgeOfRows, RowOf
<1>2. \A i \in 1..m : LET p == RowOf(loc, plan.waitlist[i])
                      IN  p.sv = plan.waitlist[i].student /\ CourseOf[p.lhp] = plan.waitlist[i].course
    BY DEF PlanOfRows, EdgeOfRows, RowOf
<1>3. ASSUME NEW w \in WritesOf(loc, plan)
      PROVE  status(w) \/ count(w) \/ wait(w)
    <2>1. ASSUME NEW i \in 1..n, w = StatusWrite(loc, plan, i)
          PROVE  status(w)
        BY <1>1, <2>1, WriteFields
    <2>2. ASSUME NEW i \in 1..n, w = CountWrite(loc, plan, i)
          PROVE  count(w)
        BY <1>1, <2>2, WriteFields
    <2>3. ASSUME NEW i \in 1..m, ~Handled(plan, plan.waitlist[i]),
                 w = [op |-> "wait", at |-> 0, row |-> RowOf(loc, plan.waitlist[i]),
                      lhp |-> RowOf(loc, plan.waitlist[i]).lhp]
          PROVE  wait(w)
        BY <1>2, <2>3
    <2> QED BY <2>1, <2>2, <2>3, WritesCases
<1>4. \A w : (status(w) => w.op # "count") /\ (count(w) => w.op = "count") /\ (wait(w) => w.op # "count")
    BY WriteFields
<1>5. SUFFICES ASSUME NEW w \in WritesOf(loc, plan), NEW v \in WritesOf(loc, plan),
                      SameOwner(w, v), w.op = "count" <=> v.op = "count"
               PROVE  w = v
    BY DEF WritesOnce
<1>6. (status(w) \/ count(w) \/ wait(w)) /\ (status(v) \/ count(v) \/ wait(v))
    BY <1>3
<1>7. CASE status(w) /\ status(v)
    BY <1>5, <1>7 DEF SameOwner, GivenOnce
<1>8. CASE count(w) /\ count(v)
    BY <1>5, <1>8 DEF SameOwner, GivenOnce
<1>9. CASE wait(w) /\ wait(v)
    BY <1>5, <1>9 DEF SameOwner, RowOf
<1>10. \A x, y : status(x) /\ wait(y) => ~SameOwner(x, y) /\ ~SameOwner(y, x)
    BY DEF SameOwner, Handled
<1> HIDE DEF status, count, wait
<1> QED BY <1>4, <1>5, <1>6, <1>7, <1>8, <1>9, <1>10

\* There is a status and a count for every seat that a plan gives away.
LEMMA WritesOfCount ==
    ASSUME NEW loc, NEW plan \in Plan, NEW lhp \in Sections
    PROVE  /\ Cardinality(Selected(WritesOf(loc, plan), {"count"}, lhp))
                = Cardinality(SeatsTaken(plan, lhp))
           /\ Cardinality(Selected(WritesOf(loc, plan), {"confirm", "move"}, lhp))
                = Cardinality(SeatsTaken(plan, lhp))
<1> DEFINE T == SeatsTaken(plan, lhp)
           C == Selected(WritesOf(loc, plan), {"count"}, lhp)
           S == Selected(WritesOf(loc, plan), {"confirm", "move"}, lhp)
<1>1. IsFiniteSet(T)
    BY SeatsTakenFinite
<1>2. \A i \in 1..Len(plan.confirmed) :
          StatusWrite(loc, plan, i) \in WritesOf(loc, plan) /\ CountWrite(loc, plan, i) \in WritesOf(loc, plan)
    BY DEF WritesOf
<1>3. Cardinality(C) = Cardinality(T)
    <2> DEFINE f == [i \in T |-> CountWrite(loc, plan, i)]
    <2>1. f \in [T -> C]
        BY <1>2, WriteFields DEF SeatsTaken, Selected
    <2>2. \A x, y \in T : f[x] = f[y] => x = y
        BY WriteFields
    <2>3. \A w \in C : \E x \in T : f[x] = w
        <3> SUFFICES ASSUME NEW w \in C PROVE \E x \in T : f[x] = w
            OBVIOUS
        <3>1. w \in WritesOf(loc, plan) /\ w.op = "count" /\ w.lhp = lhp
            BY DEF Selected
        <3>2. PICK i \in 1..Len(plan.confirmed) : w = CountWrite(loc, plan, i)
            BY <3>1, WritesCases, WriteFields
        <3>3. i \in T
            BY <3>1, <3>2, WriteFields DEF SeatsTaken
        <3> QED BY <3>2, <3>3
    <2> HIDE DEF f, T, C
    <2> QED BY <1>1, <2>1, <2>2, <2>3, SameSize
<1>4. Cardinality(S) = Cardinality(T)
    <2> DEFINE f == [i \in T |-> StatusWrite(loc, plan, i)]
    <2>1. f \in [T -> S]
        BY <1>2, WriteFields DEF SeatsTaken, Selected
    <2>2. \A x, y \in T : f[x] = f[y] => x = y
        BY WriteFields
    <2>3. \A w \in S : \E x \in T : f[x] = w
        <3> SUFFICES ASSUME NEW w \in S PROVE \E x \in T : f[x] = w
            OBVIOUS
        <3>1. w \in WritesOf(loc, plan) /\ w.op \in {"confirm", "move"} /\ w.lhp = lhp
            BY DEF Selected
        <3>2. PICK i \in 1..Len(plan.confirmed) : w = StatusWrite(loc, plan, i)
            BY <3>1, WritesCases, WriteFields
        <3>3. i \in T
            BY <3>1, <3>2, WriteFields DEF SeatsTaken
        <3> QED BY <3>2, <3>3
    <2> HIDE DEF f, T, S
    <2> QED BY <1>1, <2>1, <2>2, <2>3, SameSize
<1> QED BY <1>3, <1>4


-----------------------------------------------------------------------------
(***************************************************************************)
(* The locals of a batch                                                   *)
(***************************************************************************)

\* What each phase of a batch has: rows once it has scanned, a plan while it
\* allocates, statements while it writes, and seats only of sections it has
\* read.
ShapeLocals(loc) ==
    /\ loc.pc = "idle" => loc.rows = {}
    /\ loc.pc = "slots" => loc.todo \subseteq Eligible(loc)
    /\ loc.pc # "slots" => loc.plan = NoPlan
    /\ loc.pc # "write" => loc.writes = {}
    /\ \A lhp \in Sections \ loc.read : SeatsOf(loc.plan, lhp) = 0
    /\ IsFiniteSet(loc.writes)
    /\ WritesInPlace(loc.writes)

\* A student gets a course once, in the plan and in the statements.
OnceLocals(loc) ==
    /\ GoodPlan(Eligible(loc) \ loc.todo, loc.todo, loc.plan)
    /\ WritesOnce(loc.writes)

\* The plan before the greedy loop disposes of no seat.
LEMMA NoPlanSeats ==
    /\ \A lhp \in Sections : SeatsOf(NoPlan, lhp) = 0
    /\ \A done, todo : GoodPlan(done, todo, NoPlan)
<1>1. NoPlan.confirmed = << >> /\ \A lhp \in Sections : NoPlan.capLeft[lhp] = 0
    BY DEF NoPlan, EmptyPlan
<1>2. Len(NoPlan.confirmed) = 0
    BY <1>1
<1>3. \A lhp \in Sections : SeatsTaken(NoPlan, lhp) = {}
    BY <1>2 DEF SeatsTaken
<1>4. ASSUME NEW lhp \in Sections PROVE SeatsOf(NoPlan, lhp) = 0
    <2>1. SeatsTaken(NoPlan, lhp) = {} /\ Cardinality({}) = 0
        BY <1>3, FS_EmptySet
    <2>2. Cardinality(SeatsTaken(NoPlan, lhp)) = 0
        BY <2>1
    <2> QED BY <1>1, <2>2 DEF SeatsOf
<1>5. \A done, todo : GoodPlan(done, todo, NoPlan)
    BY <1>2 DEF GoodPlan, FromDone, Remembers, GivenOnce
<1> QED BY <1>4, <1>5

\* No statements.
LEMMA NoWrites ==
    IsFiniteSet({}) /\ WritesInPlace({}) /\ WritesOnce({})
BY FS_EmptySet DEF WritesInPlace, WritesOnce

\* A batch without a plan and without statements.
LEMMA QuietLocals ==
    ASSUME NEW loc, loc.plan = NoPlan, loc.writes = {}, loc.pc = "idle" => loc.rows = {},
           loc.pc = "slots" => loc.todo \subseteq Eligible(loc)
    PROVE  ShapeLocals(loc) /\ OnceLocals(loc)
BY NoPlanSeats, NoWrites DEF ShapeLocals, OnceLocals

\* A batch after the rule engine or one of its refusals.
LEMMA AfterChecksLocals ==
    ASSUME NEW loc \in BatchType, loc.plan = NoPlan, loc.writes = {}
    PROVE  LET new == AfterChecks(loc)
           IN  /\ ShapeLocals(new) /\ OnceLocals(new)
               /\ new.plan = NoPlan /\ new.writes = {}
               /\ \/ new = Idle
                  \/ /\ new.pc \in {"reject", "slots"}
                     /\ new.rows = loc.rows /\ new.rejected = loc.rejected
                     /\ new.toReject = loc.toReject
<1> DEFINE reject == [loc EXCEPT !.pc = "reject"]
           slots == [loc EXCEPT !.pc = "slots", !.todo = Eligible(loc)]
           new == AfterChecks(loc)
<1>1. /\ reject.pc = "reject" /\ reject.plan = NoPlan /\ reject.writes = {}
      /\ reject.rows = loc.rows /\ reject.rejected = loc.rejected /\ reject.toReject = loc.toReject
    BY DEF BatchType
<1>2. /\ slots.pc = "slots" /\ slots.plan = NoPlan /\ slots.writes = {}
      /\ slots.rows = loc.rows /\ slots.rejected = loc.rejected /\ slots.toReject = loc.toReject
      /\ slots.todo = Eligible(loc)
    BY DEF BatchType
<1>3. slots.todo \subseteq Eligible(slots)
    BY <1>2 DEF Eligible
<1>4. Idle.pc = "idle" /\ Idle.rows = {} /\ Idle.plan = NoPlan /\ Idle.writes = {}
    BY DEF Idle
<1>5. new \in {reject, slots, Idle}
    BY DEF AfterChecks
<1>6. /\ new.plan = NoPlan /\ new.writes = {}
      /\ new.pc = "idle" => new.rows = {}
      /\ new.pc = "slots" => new.todo \subseteq Eligible(new)
      /\ \/ new = Idle
         \/ /\ new.pc \in {"reject", "slots"}
            /\ new.rows = loc.rows /\ new.rejected = loc.rejected /\ new.toReject = loc.toReject
    <2> HIDE DEF reject, slots, new
    <2> QED BY <1>1, <1>2, <1>3, <1>4, <1>5
<1> HIDE DEF new
<1> QED BY <1>6, QuietLocals DEF new

\* A batch after the check of a row.
CheckedLocals(loc, r, add) ==
    [loc EXCEPT !.todo = @ \ {r}, !.rejected = @ \union add, !.toReject = @ \union add]

\* What a check leaves alone.
LEMMA CheckedFields ==
    ASSUME NEW loc \in BatchType, NEW r, NEW add
    PROVE  LET now == CheckedLocals(loc, r, add)
           IN  /\ now.pc = loc.pc /\ now.rows = loc.rows /\ now.plan = loc.plan
               /\ now.writes = loc.writes /\ now.todo = loc.todo \ {r}
               /\ now.rejected = loc.rejected \union add
               /\ now.toReject = loc.toReject \union add
BY DEF CheckedLocals, BatchType

\* A batch asks for the seats of sections only.
LEMMA WantedSections ==
    ASSUME NEW loc, GoodLocals(loc)
    PROVE  Wanted(loc) \subseteq Sections
<1>1. SUFFICES ASSUME NEW r \in Eligible(loc), NEW s \in SectionsOfRequest(loc, r)
               PROVE  s \in Sections
    BY DEF Wanted
<1>2. r \in loc.rows /\ loc.rows \in SUBSET PendingRow
    BY DEF Eligible, GoodLocals, BatchType
<1>3. PrimaryRow(loc.rows, r.sv, CourseOf[r.lhp]) \in PendingRow
    BY <1>2, PrimaryRowIn
<1> QED BY <1>1, <1>3 DEF SectionsOfRequest, PendingRow

\* A batch after it has read the seats of a section.
LEMMA SlotReadFields ==
    ASSUME NEW loc \in BatchType, NEW s \in Sections, NEW n
    PROVE  LET new == SlotRead(loc, s, n)
           IN  /\ new.pc = loc.pc /\ new.rows = loc.rows /\ new.todo = loc.todo
               /\ new.rejected = loc.rejected /\ new.writes = loc.writes
               /\ new.read = loc.read \union {s}
               /\ new.plan.confirmed = loc.plan.confirmed
               /\ new.plan.assignedCourse = loc.plan.assignedCourse
               /\ new.plan.capLeft = [loc.plan.capLeft EXCEPT ![s] = n]
BY DEF SlotRead, BatchType, Plan

\* It disposes of the seats read, and of those it had.
LEMMA SlotReadLocals ==
    ASSUME NEW loc, GoodLocals(loc), ShapeLocals(loc), loc.pc = "slots",
           NEW s \in Sections \ loc.read, NEW n \in Nat
    PROVE  /\ ShapeLocals(SlotRead(loc, s, n))
           /\ OnceLocals(loc) => OnceLocals(SlotRead(loc, s, n))
           /\ \A lhp \in Sections :
                  SeatsOf(SlotRead(loc, s, n).plan, lhp) =
                      IF lhp = s THEN n ELSE SeatsOf(loc.plan, lhp)
<1> DEFINE new == SlotRead(loc, s, n)
<1>1. loc \in BatchType /\ loc.plan \in Plan /\ loc.plan.capLeft \in [Sections -> Int]
    BY DEF GoodLocals, BatchType, Plan
<1>2. /\ new.pc = loc.pc /\ new.rows = loc.rows /\ new.todo = loc.todo
      /\ new.rejected = loc.rejected /\ new.writes = loc.writes
      /\ new.read = loc.read \union {s}
      /\ new.plan.confirmed = loc.plan.confirmed
      /\ new.plan.assignedCourse = loc.plan.assignedCourse
      /\ new.plan.capLeft = [loc.plan.capLeft EXCEPT ![s] = n]
    BY <1>1, SlotReadFields
<1> HIDE DEF new
<1>3. Eligible(new) = Eligible(loc)
    BY <1>2 DEF Eligible
<1>4. \A lhp \in Sections : SeatsTaken(new.plan, lhp) = SeatsTaken(loc.plan, lhp)
    BY <1>2 DEF SeatsTaken
<1>5. ASSUME NEW lhp \in Sections
      PROVE  SeatsOf(new.plan, lhp) = IF lhp = s THEN n ELSE SeatsOf(loc.plan, lhp)
    <2>1. new.plan.capLeft[lhp] = IF lhp = s THEN n ELSE loc.plan.capLeft[lhp]
        BY <1>1, <1>2
    <2>2. CASE lhp = s
        <3>1. loc.plan.capLeft[s] + Cardinality(SeatsTaken(loc.plan, s)) = 0
            BY DEF ShapeLocals, SeatsOf
        <3>2. loc.plan.capLeft[s] \in Int /\ loc.plan.capLeft[s] >= 0
            BY <1>1 DEF GoodLocals, SeatsLeft
        <3>3. Cardinality(SeatsTaken(loc.plan, s)) \in Nat
            BY <1>1, SeatsTakenFinite
        <3>4. Cardinality(SeatsTaken(loc.plan, s)) = 0
            BY <3>1, <3>2, <3>3
        <3> QED BY <1>4, <2>1, <2>2, <3>4 DEF SeatsOf
    <2>3. CASE lhp # s
        BY <1>4, <2>1, <2>3 DEF SeatsOf
    <2> QED BY <2>2, <2>3
<1>6. ShapeLocals(new)
    BY <1>2, <1>3, <1>5 DEF ShapeLocals
<1>7. OnceLocals(loc) => OnceLocals(new)
    BY <1>2, <1>3 DEF OnceLocals, GoodPlan, FromDone, Remembers, GivenOnce
<1> QED BY <1>5, <1>6, <1>7 DEF new

\* A batch after a turn of Solve, and after the last one.
NextTurn(loc, r) == [loc EXCEPT !.todo = @ \ {r}, !.plan = ConsiderRequest(loc, r)]

LastTurn(loc, r) ==
    [loc EXCEPT !.pc = "write", !.todo = {}, !.plan = NoPlan,
                !.writes = WritesOf(loc, ConsiderRequest(loc, r))]

\* What a turn leaves alone.
LEMMA TurnFields ==
    ASSUME NEW loc \in BatchType, NEW r
    PROVE  LET next == NextTurn(loc, r)
               last == LastTurn(loc, r)
           IN  /\ next.pc = loc.pc /\ next.rows = loc.rows /\ next.rejected = loc.rejected
               /\ next.read = loc.read /\ next.writes = loc.writes
               /\ next.todo = loc.todo \ {r} /\ next.plan = ConsiderRequest(loc, r)
               /\ last.pc = "write" /\ last.rows = loc.rows /\ last.rejected = loc.rejected
               /\ last.todo = {} /\ last.plan = NoPlan
               /\ last.writes = WritesOf(loc, ConsiderRequest(loc, r))
BY DEF NextTurn, LastTurn, BatchType

\* A turn of Solve that is not the last keeps the seats of the batch.
LEMMA NextTurnLocals ==
    ASSUME NEW loc, GoodLocals(loc), ShapeLocals(loc), loc.pc = "slots", NEW r \in loc.todo
    PROVE  /\ ShapeLocals(NextTurn(loc, r))
           /\ RowsRemembered(loc.rows) /\ OnceLocals(loc) => OnceLocals(NextTurn(loc, r))
           /\ \A lhp \in Sections :
                  SeatsOf(NextTurn(loc, r).plan, lhp) = SeatsOf(loc.plan, lhp)
<1> DEFINE new == NextTurn(loc, r)
<1>1. loc \in BatchType
    BY DEF GoodLocals
<1>2. /\ new.pc = loc.pc /\ new.rows = loc.rows /\ new.rejected = loc.rejected
      /\ new.read = loc.read /\ new.writes = loc.writes
      /\ new.todo = loc.todo \ {r} /\ new.plan = ConsiderRequest(loc, r)
    BY <1>1, TurnFields
<1> HIDE DEF new
<1>3. Eligible(new) = Eligible(loc)
    BY <1>2 DEF Eligible
<1>4. loc.todo \subseteq Eligible(loc)
    BY DEF ShapeLocals
<1>5. \A lhp \in Sections : SeatsOf(new.plan, lhp) = SeatsOf(loc.plan, lhp)
    BY <1>2, ConsiderRequestSeats
<1>6. ShapeLocals(new)
    BY <1>2, <1>3, <1>4, <1>5 DEF ShapeLocals
<1>7. ASSUME RowsRemembered(loc.rows), OnceLocals(loc)
      PROVE  OnceLocals(new)
    <2>1. GoodPlan(Eligible(loc) \ (loc.todo \ {r}), loc.todo \ {r}, ConsiderRequest(loc, r))
        BY <1>4, <1>7, ConsiderRequestOnce DEF OnceLocals
    <2> QED BY <1>2, <1>3, <1>7, <2>1 DEF OnceLocals
<1> QED BY <1>5, <1>6, <1>7 DEF new

\* The last turn leaves a batch with the statements of its plan.
LEMMA LastTurnLocals ==
    ASSUME NEW loc, GoodLocals(loc), ShapeLocals(loc), loc.pc = "slots", NEW r \in loc.todo
    PROVE  /\ ShapeLocals(LastTurn(loc, r))
           /\ RowsRemembered(loc.rows) /\ OnceLocals(loc) => OnceLocals(LastTurn(loc, r))
<1> DEFINE new == LastTurn(loc, r)
           plan == ConsiderRequest(loc, r)
<1>1. loc \in BatchType
    BY DEF GoodLocals
<1>2. plan \in Plan /\ PlanOfRows(loc.rows, plan)
    BY ConsiderRequestGood
<1>3. /\ new.pc = "write" /\ new.rows = loc.rows /\ new.todo = {} /\ new.plan = NoPlan
      /\ new.writes = WritesOf(loc, plan)
    BY <1>1, TurnFields
<1> HIDE DEF new, plan
<1>4. ShapeLocals(new)
    BY <1>2, <1>3, WritesOfShape, NoPlanSeats DEF ShapeLocals
<1>5. ASSUME RowsRemembered(loc.rows), OnceLocals(loc)
      PROVE  OnceLocals(new)
    <2>1. loc.todo \subseteq Eligible(loc)
        BY DEF ShapeLocals
    <2>2. GivenOnce(plan)
        BY <1>5, <2>1, ConsiderRequestOnce DEF OnceLocals, GoodPlan, plan
    <2>3. WritesOnce(new.writes)
        BY <1>2, <1>3, <2>2, WritesOfOnce
    <2> QED BY <1>3, <2>3, NoPlanSeats DEF OnceLocals
<1> QED BY <1>4, <1>5 DEF new

\* A batch after one of its statements.
WrittenLocals(loc, w) == [loc EXCEPT !.writes = @ \ {w}]

\* What a statement leaves alone.
LEMMA WrittenFields ==
    ASSUME NEW loc \in BatchType, NEW w
    PROVE  LET new == WrittenLocals(loc, w)
           IN  /\ new.pc = loc.pc /\ new.rows = loc.rows /\ new.todo = loc.todo
               /\ new.rejected = loc.rejected /\ new.read = loc.read /\ new.plan = loc.plan
               /\ new.writes = loc.writes \ {w}
BY DEF WrittenLocals, BatchType

\* A batch with a statement less.
LEMMA WrittenLocalsGood ==
    ASSUME NEW loc, GoodLocals(loc), ShapeLocals(loc), loc.pc = "write", NEW w
    PROVE  /\ ShapeLocals(WrittenLocals(loc, w))
           /\ OnceLocals(loc) => OnceLocals(WrittenLocals(loc, w))
<1> DEFINE new == WrittenLocals(loc, w)
<1>1. loc \in BatchType
    BY DEF GoodLocals
<1>2. /\ new.pc = loc.pc /\ new.rows = loc.rows /\ new.todo = loc.todo
      /\ new.rejected = loc.rejected /\ new.read = loc.read /\ new.plan = loc.plan
      /\ new.writes = loc.writes \ {w}
    BY <1>1, WrittenFields
<1> HIDE DEF new
<1>3. IsFiniteSet(new.writes)
    <2>1. loc.writes \ {w} \in SUBSET loc.writes /\ IsFiniteSet(loc.writes)
        BY DEF ShapeLocals
    <2> QED BY <1>2, <2>1, FS_Subset
<1>4. ShapeLocals(new)
    BY <1>2, <1>3 DEF ShapeLocals, WritesInPlace
<1>5. OnceLocals(loc) => OnceLocals(new)
    BY <1>2 DEF OnceLocals, WritesOnce, Eligible
<1> QED BY <1>4, <1>5 DEF new

-----------------------------------------------------------------------------
(***************************************************************************)
(* The steps of a batch                                                    *)
(***************************************************************************)

ShapeInv == TypeInv /\ \A b \in Batches : ShapeLocals(batch[b])

\* The four kinds of steps, by what they do to the seats of a batch with
\* locals loc before and new after the step.  Most move none: at most a
\* refused row is written.
Moves(loc, new) ==
    /\ new.writes = loc.writes
    /\ \A lhp \in Sections : SeatsOf(new.plan, lhp) = SeatsOf(loc.plan, lhp)
    /\ UNCHANGED counter
    /\ \/ UNCHANGED dangKy
       \/ \E r \in loc.toReject : dangKy' = SetTrangThai(dangKy, r.sv, r.lhp, "TuChoi")
    /\ UNCHANGED failures \/ StatementFails

\* It learns of the seats of a section.
Learns(loc, new) ==
    /\ loc.pc = "slots"
    /\ new.writes = loc.writes
    /\ \E s \in Sections, n \in Nat :
           /\ \A lhp \in Sections :
                  SeatsOf(new.plan, lhp) = IF lhp = s THEN n ELSE SeatsOf(loc.plan, lhp)
           /\ \/ n = SlotConLai(s) /\ UNCHANGED failures
              \/ StatementFails
    /\ UNCHANGED tables

\* It queues the statements of a plan, for the seats the plan gives away.
Queues(loc, new) ==
    /\ loc.writes = {}
    /\ new.plan = NoPlan
    /\ \E plan \in Plan :
           /\ SeatsLeft(plan)
           /\ new.writes = WritesOf(loc, plan)
           /\ \A lhp \in Sections : SeatsOf(plan, lhp) = SeatsOf(loc.plan, lhp)
    /\ UNCHANGED <<tables, failures>>

\* It executes a statement or loses it.
Writes(loc, new) ==
    /\ loc.pc = "write"
    /\ new.plan = NoPlan
    /\ \E w \in loc.writes :
           /\ new.writes = loc.writes \ {w}
           /\ \/ Executed(w) /\ UNCHANGED failures
              \/ StatementFails /\ UNCHANGED tables

\* The rows of a batch come from its scan.
RowsFrom(loc, new) ==
    \/ new.rows \subseteq loc.rows
    \/ new.rows = ChoXuLyRows /\ UNCHANGED dangKy

\* What a step of a batch does.
Effect(loc, new) ==
    /\ ShapeLocals(new)
    /\ RowsRemembered(loc.rows) /\ OnceLocals(loc) => OnceLocals(new)
    /\ RowsFrom(loc, new)
    /\ Moves(loc, new) \/ Learns(loc, new) \/ Queues(loc, new) \/ Writes(loc, new)

\* Every step of a batch is of one of the four kinds.
LEMMA BatchEffect ==
    ASSUME ShapeInv, NEW b \in Batches, BatchStep(b)
    PROVE  /\ \E new : batch' = [batch EXCEPT ![b] = new] /\ Effect(batch[b], new)
           /\ UNCHANGED <<sent, inbox, huy, crashes>>
<1> DEFINE loc == batch[b]
<1>1. TablesType /\ GoodLocals(loc) /\ ShapeLocals(loc) /\ loc \in BatchType
    BY TypeParts DEF ShapeInv, BatchesType, GoodLocals
<1>2. UNCHANGED <<sent, inbox, huy, crashes>>
    BY DEF BatchStep, Scan, CheckRow, Reject, ReadSlot, Allocate, Write, calls
<1>3. Idle.pc = "idle" /\ Idle.rows = {} /\ Idle.plan = NoPlan /\ Idle.writes = {}
    BY DEF Idle
<1> SUFFICES \E new : batch' = [batch EXCEPT ![b] = new] /\ Effect(loc, new)
    BY <1>2
<1>4. CASE Scan(b)
    <2> DEFINE new == [Idle EXCEPT !.pc = "check", !.rows = ChoXuLyRows, !.todo = ChoXuLyRows]
    <2>1. /\ batch' = [batch EXCEPT ![b] = new] /\ loc.pc = "idle"
          /\ UNCHANGED <<dangKy, counter, failures>>
        BY <1>4 DEF Scan, tables
    <2>2. new.pc = "check" /\ new.rows = ChoXuLyRows /\ new.plan = NoPlan /\ new.writes = {}
        BY DEF Idle
    <2> HIDE DEF new
    <2>3. ShapeLocals(new) /\ OnceLocals(new)
        BY <2>2, QuietLocals
    <2>4. loc.plan = NoPlan /\ loc.writes = {}
        BY <1>1, <2>1 DEF ShapeLocals
    <2>5. Moves(loc, new)
        BY <2>1, <2>2, <2>4 DEF Moves
    <2>6. RowsFrom(loc, new)
        BY <2>1, <2>2 DEF RowsFrom
    <2> QED BY <2>1, <2>3, <2>5, <2>6 DEF Effect
<1>5. CASE CheckRow(b)
    <2>1. PICK r \in loc.todo, refuse \in BOOLEAN :
              LET add == IF refuse THEN {r} ELSE {}
                  now == [loc EXCEPT !.todo = @ \ {r}, !.rejected = @ \union add,
                                     !.toReject = @ \union add]
              IN  batch' = [batch EXCEPT ![b] = IF now.todo = {} THEN AfterChecks(now) ELSE now]
        BY <1>5 DEF CheckRow
    <2> DEFINE add == IF refuse THEN {r} ELSE {}
               now == CheckedLocals(loc, r, add)
               new == IF now.todo = {} THEN AfterChecks(now) ELSE now
    <2>2. batch' = [batch EXCEPT ![b] = new]
        BY <2>1 DEF CheckedLocals
    <2>3. loc.pc = "check" /\ UNCHANGED <<dangKy, counter>> /\ (UNCHANGED failures \/ StatementFails)
        BY <1>5 DEF CheckRow, tables
    <2>4. loc.plan = NoPlan /\ loc.writes = {}
        BY <1>1, <2>3 DEF ShapeLocals
    <2>5. now \in BatchType
        <3>1. add \in SUBSET {r}
            OBVIOUS
        <3> QED BY <1>1, <3>1, CheckedGood DEF GoodLocals, CheckedLocals
    <2>6. now.pc = "check" /\ now.rows = loc.rows /\ now.plan = NoPlan /\ now.writes = {}
        BY <1>1, <2>3, <2>4, CheckedFields
    <2> HIDE DEF now
    <2>7. ShapeLocals(now) /\ OnceLocals(now)
        BY <2>6, QuietLocals
    <2>8. /\ ShapeLocals(new) /\ OnceLocals(new) /\ new.rows \subseteq loc.rows
          /\ new.plan = NoPlan /\ new.writes = {}
        BY <1>3, <2>5, <2>6, <2>7, AfterChecksLocals
    <2> HIDE DEF new
    <2>9. Moves(loc, new)
        BY <2>3, <2>4, <2>8 DEF Moves
    <2> QED BY <2>2, <2>8, <2>9 DEF Effect, RowsFrom
<1>6. CASE Reject(b)
    <2>1. PICK r \in loc.toReject :
              /\ \/ /\ dangKy' = SetTrangThai(dangKy, r.sv, r.lhp, "TuChoi")
                    /\ UNCHANGED failures
                 \/ StatementFails /\ UNCHANGED dangKy
              /\ batch' = [batch EXCEPT ![b] = AfterChecks([loc EXCEPT !.toReject = @ \ {r}])]
        BY <1>6 DEF Reject
    <2> DEFINE now == [loc EXCEPT !.toReject = @ \ {r}]
               new == AfterChecks(now)
    <2>2. loc.plan = NoPlan /\ loc.writes = {} /\ UNCHANGED counter
        BY <1>1, <1>6 DEF Reject, ShapeLocals
    <2>3. now \in BatchType /\ now.plan = NoPlan /\ now.writes = {} /\ now.rows = loc.rows
        BY <1>1, <2>2, RefusedGood DEF GoodLocals, BatchType
    <2> HIDE DEF now
    <2>4. /\ ShapeLocals(new) /\ OnceLocals(new) /\ new.rows \subseteq loc.rows
          /\ new.plan = NoPlan /\ new.writes = {}
        BY <1>3, <2>3, AfterChecksLocals
    <2>5. batch' = [batch EXCEPT ![b] = new]
        BY <2>1 DEF now
    <2> HIDE DEF new
    <2>6. Moves(loc, new)
        BY <2>1, <2>2, <2>4 DEF Moves
    <2> QED BY <2>4, <2>5, <2>6 DEF Effect, RowsFrom
<1>7. CASE ReadSlot(b)
    <2>1. PICK s \in Wanted(loc) \ loc.read : \E n \in {SlotConLai(s)} \union ReadErrors(s) :
              /\ IF n = SlotConLai(s) THEN UNCHANGED failures ELSE StatementFails
              /\ batch' = [batch EXCEPT ![b] = SlotRead(loc, s, n)]
        BY <1>7 DEF ReadSlot
    <2>2. PICK n \in {SlotConLai(s)} \union ReadErrors(s) :
              /\ IF n = SlotConLai(s) THEN UNCHANGED failures ELSE StatementFails
              /\ batch' = [batch EXCEPT ![b] = SlotRead(loc, s, n)]
        BY <2>1
    <2>3. s \in Sections
        BY <1>1, WantedSections
    <2>4. n \in Nat
        BY <1>1, <2>2, <2>3, ConstantsAssumption DEF SlotConLai, ReadErrors, TablesType
    <2>5. loc.pc = "slots" /\ UNCHANGED tables
        BY <1>7 DEF ReadSlot
    <2> DEFINE new == SlotRead(loc, s, n)
    <2>6. /\ ShapeLocals(new) /\ (OnceLocals(loc) => OnceLocals(new))
          /\ \A lhp \in Sections : SeatsOf(new.plan, lhp) = IF lhp = s THEN n ELSE SeatsOf(loc.plan, lhp)
        BY <1>1, <2>1, <2>3, <2>4, <2>5, SlotReadLocals
    <2>7. new.writes = loc.writes /\ new.rows = loc.rows
        <3>1. loc \in BatchType
            BY <1>1
        <3> HIDE DEF loc
        <3> QED BY <2>3, <3>1 DEF SlotRead, BatchType
    <2> HIDE DEF new
    <2>8. Learns(loc, new)
        BY <2>2, <2>3, <2>4, <2>5, <2>6, <2>7 DEF Learns
    <2> QED BY <2>2, <2>6, <2>7, <2>8 DEF Effect, RowsFrom, new
<1>8. CASE Allocate(b)
    <2>1. PICK r \in loc.todo :
              LET plan == ConsiderRequest(loc, r)
              IN  batch' = [batch EXCEPT ![b] =
                      IF loc.todo = {r}
                      THEN [loc EXCEPT !.pc = "write", !.todo = {}, !.plan = NoPlan,
                                       !.writes = WritesOf(loc, plan)]
                      ELSE [loc EXCEPT !.todo = @ \ {r}, !.plan = plan]]
        BY <1>8 DEF Allocate
    <2>2. loc.pc = "slots" /\ UNCHANGED <<dangKy, counter, failures>>
        BY <1>8 DEF Allocate, tables
    <2> DEFINE last == LastTurn(loc, r)
               next == NextTurn(loc, r)
               plan == ConsiderRequest(loc, r)
    <2>3. batch' = [batch EXCEPT ![b] = last] \/ batch' = [batch EXCEPT ![b] = next]
        BY <2>1 DEF LastTurn, NextTurn
    <2>4. ASSUME batch' = [batch EXCEPT ![b] = next]
          PROVE  Effect(loc, next)
        <3>1. next.writes = loc.writes /\ next.rows = loc.rows
            BY <1>1, TurnFields
        <3>2. /\ ShapeLocals(next) /\ (RowsRemembered(loc.rows) /\ OnceLocals(loc) => OnceLocals(next))
              /\ \A lhp \in Sections : SeatsOf(next.plan, lhp) = SeatsOf(loc.plan, lhp)
            BY <1>1, <2>2, NextTurnLocals
        <3> HIDE DEF next
        <3>3. Moves(loc, next)
            BY <2>2, <3>1, <3>2 DEF Moves
        <3> QED BY <3>1, <3>2, <3>3 DEF Effect, RowsFrom
    <2>5. ASSUME batch' = [batch EXCEPT ![b] = last]
          PROVE  Effect(loc, last)
        <3>1. last.writes = WritesOf(loc, plan) /\ last.rows = loc.rows /\ last.plan = NoPlan
            BY <1>1, TurnFields
        <3>2. ShapeLocals(last) /\ (RowsRemembered(loc.rows) /\ OnceLocals(loc) => OnceLocals(last))
            BY <1>1, <2>2, LastTurnLocals
        <3>3. plan \in Plan /\ SeatsLeft(plan)
            BY <1>1, ConsiderRequestGood
        <3>4. \A lhp \in Sections : SeatsOf(plan, lhp) = SeatsOf(loc.plan, lhp)
            BY <1>1, ConsiderRequestSeats
        <3>5. loc.writes = {}
            BY <1>1, <2>2 DEF ShapeLocals
        <3> HIDE DEF last, plan
        <3>6. Queues(loc, last)
            BY <2>2, <3>1, <3>3, <3>4, <3>5 DEF Queues, tables
        <3> QED BY <3>1, <3>2, <3>6 DEF Effect, RowsFrom
    <2> QED BY <2>3, <2>4, <2>5
<1>9. CASE Write(b)
    <2>1. PICK w \in loc.writes :
              /\ \/ Executed(w) /\ UNCHANGED failures
                 \/ StatementFails /\ UNCHANGED tables
              /\ batch' = [batch EXCEPT ![b] = IF loc.writes = {w} THEN Idle
                                               ELSE [loc EXCEPT !.writes = @ \ {w}]]
        BY <1>9 DEF Write
    <2> DEFINE next == WrittenLocals(loc, w)
               new == IF loc.writes = {w} THEN Idle ELSE next
    <2>2. batch' = [batch EXCEPT ![b] = new]
        BY <2>1 DEF WrittenLocals
    <2>3. loc.pc = "write" /\ loc.plan = NoPlan
        BY <1>1, <1>9 DEF Write, ShapeLocals
    <2>4. ShapeLocals(next) /\ (OnceLocals(loc) => OnceLocals(next))
        BY <1>1, <2>3, WrittenLocalsGood
    <2>5. next.writes = loc.writes \ {w} /\ next.rows = loc.rows /\ next.plan = NoPlan
        BY <1>1, <2>3, WrittenFields
    <2>6. ShapeLocals(Idle) /\ OnceLocals(Idle)
        BY <1>3, QuietLocals
    <2> HIDE DEF next
    <2>7. /\ ShapeLocals(new) /\ (OnceLocals(loc) => OnceLocals(new))
          /\ new.writes = loc.writes \ {w} /\ new.rows \subseteq loc.rows /\ new.plan = NoPlan
        BY <1>3, <2>4, <2>5, <2>6
    <2> HIDE DEF new
    <2>8. Writes(loc, new)
        BY <2>1, <2>3, <2>7 DEF Writes
    <2> QED BY <2>2, <2>7, <2>8 DEF Effect, RowsFrom
<1> QED BY <1>4, <1>5, <1>6, <1>7, <1>8, <1>9 DEF BatchStep

\* A batch is as the phases say.
LEMMA ShapeInit == Init => ShapeInv
<1> SUFFICES ASSUME Init PROVE ShapeInv
    OBVIOUS
<1>1. Idle.pc = "idle" /\ Idle.rows = {} /\ Idle.plan = NoPlan /\ Idle.writes = {}
    BY DEF Idle
<1>2. \A b \in Batches : batch[b] = Idle
    BY DEF Init
<1> QED BY <1>1, <1>2, InitTypeInv, QuietLocals DEF ShapeInv

\* Every step keeps the shape of batches.
LEMMA ShapeStep == ShapeInv /\ [Next]_vars => ShapeInv'
<1> SUFFICES ASSUME ShapeInv, [Next]_vars PROVE ShapeInv'
    OBVIOUS
<1>1. TypeInv' /\ BatchesType
    BY TypeInvStep, TypeParts DEF ShapeInv
<1>2. CASE UNCHANGED batch
    BY <1>1, <1>2 DEF ShapeInv
<1>3. ASSUME NEW b \in Batches, BatchStep(b)
      PROVE  \A c \in Batches : ShapeLocals(batch'[c])
    <2>1. PICK new : batch' = [batch EXCEPT ![b] = new] /\ ShapeLocals(new)
        BY <1>3, BatchEffect DEF Effect
    <2> QED BY <1>1, <2>1 DEF ShapeInv, BatchesType
<1>4. ASSUME NEW r \in Replicas, Crash(r)
      PROVE  \A c \in Batches : ShapeLocals(batch'[c])
    <2>1. \A c \in Batches : batch'[c] = Idle \/ batch'[c] = batch[c]
        BY <1>4 DEF Crash
    <2>2. Idle.pc = "idle" /\ Idle.rows = {} /\ Idle.plan = NoPlan /\ Idle.writes = {}
        BY DEF Idle
    <2>3. ShapeLocals(Idle)
        BY <2>2, QuietLocals
    <2> QED BY <2>1, <2>3 DEF ShapeInv
<1>5. UNCHANGED vars => UNCHANGED batch
    BY DEF vars
<1>6. \/ UNCHANGED batch
      \/ \E b \in Batches : BatchStep(b)
      \/ \E r \in Replicas : Crash(r)
    BY <1>5 DEF Next, Send, Drop, DangKyMonHoc, HuyXoa, HuyTru
<1> QED BY <1>1, <1>2, <1>3, <1>4, <1>6 DEF ShapeInv

-----------------------------------------------------------------------------
(***************************************************************************)
(* Statements that still have to be executed                               *)
(***************************************************************************)

\* Outstanding, for the batches of some state.
StatementsOf(batches, ops, lhp) ==
    {o \in Batches \X UNION {batches[b].writes : b \in Batches} :
        o[2] \in batches[o[1]].writes /\ o[2].op \in ops /\ o[2].lhp = lhp}

\* An outstanding statement is one that some batch has.
LEMMA StatementIn ==
    ASSUME NEW batches, NEW ops, NEW lhp, NEW o
    PROVE  o \in StatementsOf(batches, ops, lhp)
             <=> \E b \in Batches : \E w \in batches[b].writes :
                     o = <<b, w>> /\ w.op \in ops /\ w.lhp = lhp
BY DEF StatementsOf

\* There are finitely many slots for batches.
LEMMA BatchesFinite == IsFiniteSet(Batches)
<1>1. IsFiniteSet(1..BatchSlots)
    BY ConstantsAssumption, FS_Interval
<1> QED BY <1>1, FinitenessAssumption, FS_Product DEF Batches

\* Batches with finitely many statements have finitely many together.
LEMMA StatementsFinite ==
    ASSUME NEW batches, \A b \in Batches : IsFiniteSet(batches[b].writes), NEW ops, NEW lhp
    PROVE  /\ IsFiniteSet(StatementsOf(batches, ops, lhp))
           /\ Cardinality(StatementsOf(batches, ops, lhp)) \in Nat
<1> DEFINE all == {batches[b].writes : b \in Batches}
<1>1. IsFiniteSet(all)
    <2>1. [b \in Batches |-> batches[b].writes] \in Surjection(Batches, all)
        BY DEF Surjection
    <2> QED BY <2>1, BatchesFinite, FS_Surjection
<1>2. \A W \in all : IsFiniteSet(W)
    OBVIOUS
<1>3. IsFiniteSet(Batches \X UNION all)
    <2> HIDE DEF all
    <2>1. IsFiniteSet(UNION all)
        BY <1>1, <1>2, FS_UNION
    <2> QED BY <2>1, BatchesFinite, FS_Product
<1>4. StatementsOf(batches, ops, lhp) \in SUBSET (Batches \X UNION all)
    BY DEF StatementsOf
<1> HIDE DEF all
<1>5. IsFiniteSet(StatementsOf(batches, ops, lhp))
    BY <1>3, <1>4, FS_Subset
<1> QED BY <1>5, FS_CardinalityType

\* Batches that lose statements.
LEMMA StatementsFewer ==
    ASSUME NEW before, \A b \in Batches : IsFiniteSet(before[b].writes),
           NEW after, \A b \in Batches : after[b].writes \subseteq before[b].writes,
           NEW ops, NEW lhp
    PROVE  /\ StatementsOf(after, ops, lhp) \subseteq StatementsOf(before, ops, lhp)
           /\ Cardinality(StatementsOf(after, ops, lhp)) \in Nat
           /\ Cardinality(StatementsOf(after, ops, lhp)) <= Cardinality(StatementsOf(before, ops, lhp))
<1>1. StatementsOf(after, ops, lhp) \in SUBSET StatementsOf(before, ops, lhp)
    BY StatementIn
<1>2. IsFiniteSet(StatementsOf(before, ops, lhp))
    BY StatementsFinite
<1>3. /\ IsFiniteSet(StatementsOf(after, ops, lhp))
      /\ Cardinality(StatementsOf(after, ops, lhp)) <= Cardinality(StatementsOf(before, ops, lhp))
    BY <1>1, <1>2, FS_Subset
<1> QED BY <1>1, <1>3, FS_CardinalityType

\* Batches that keep their statements.
LEMMA StatementsKept ==
    ASSUME NEW before, NEW after, \A b \in Batches : after[b].writes = before[b].writes,
           NEW ops, NEW lhp
    PROVE  StatementsOf(after, ops, lhp) = StatementsOf(before, ops, lhp)
<1>1. ASSUME NEW o
      PROVE  o \in StatementsOf(after, ops, lhp) <=> o \in StatementsOf(before, ops, lhp)
    BY StatementIn
<1>2. StatementsOf(after, ops, lhp) \subseteq StatementsOf(before, ops, lhp)
    BY <1>1
<1>3. StatementsOf(before, ops, lhp) \subseteq StatementsOf(after, ops, lhp)
    BY <1>1
<1> QED BY <1>2, <1>3

\* A batch that has one statement less.
LEMMA StatementGone ==
    ASSUME NEW before, \A c \in Batches : IsFiniteSet(before[c].writes),
           NEW after, NEW b \in Batches, NEW w, w \in before[b].writes,
           after[b].writes = before[b].writes \ {w},
           \A c \in Batches \ {b} : after[c].writes = before[c].writes,
           NEW ops, NEW lhp
    PROVE  /\ w.op \in ops /\ w.lhp = lhp =>
                  Cardinality(StatementsOf(after, ops, lhp)) =
                      Cardinality(StatementsOf(before, ops, lhp)) - 1
           /\ ~(w.op \in ops /\ w.lhp = lhp) =>
                  StatementsOf(after, ops, lhp) = StatementsOf(before, ops, lhp)
<1> DEFINE old == StatementsOf(before, ops, lhp)
           new == StatementsOf(after, ops, lhp)
<1>1. IsFiniteSet(old) /\ Cardinality(old) \in Nat
    BY StatementsFinite
<1>2. new = old \ {<<b, w>>}
    <2>1. ASSUME NEW o PROVE o \in new <=> o \in old \ {<<b, w>>}
        BY StatementIn
    <2> QED BY <2>1
<1>3. CASE w.op \in ops /\ w.lhp = lhp
    <2>1. <<b, w>> \in old
        BY <1>3, StatementIn
    <2>2. Cardinality(old \ {<<b, w>>}) = Cardinality(old) - 1
        <3> HIDE DEF old
        <3> QED BY <1>1, <2>1, FS_RemoveElement
    <2> QED BY <1>2, <1>3, <2>2
<1>4. CASE ~(w.op \in ops /\ w.lhp = lhp)
    <2>1. <<b, w>> \notin old
        BY <1>4, StatementIn
    <2>2. new = old
        BY <1>2, <2>1
    <2> QED BY <1>1, <1>4, <2>2
<1> QED BY <1>3, <1>4

\* A batch that had no statement and gets some.
LEMMA StatementsQueued ==
    ASSUME NEW before, \A c \in Batches : IsFiniteSet(before[c].writes),
           NEW after, NEW b \in Batches, before[b].writes = {},
           NEW W, IsFiniteSet(W),
           \A c \in Batches : after[c].writes = IF c = b THEN W ELSE before[c].writes,
           NEW ops, NEW lhp
    PROVE  /\ Cardinality(Selected(W, ops, lhp)) \in Nat
           /\ Cardinality(StatementsOf(after, ops, lhp)) =
                  Cardinality(StatementsOf(before, ops, lhp)) + Cardinality(Selected(W, ops, lhp))
<1> DEFINE old == StatementsOf(before, ops, lhp)
           new == StatementsOf(after, ops, lhp)
           S == Selected(W, ops, lhp)
           added == {b} \X S
<1>1. IsFiniteSet(old) /\ Cardinality(old) \in Nat
    BY StatementsFinite
<1>2. IsFiniteSet(S) /\ Cardinality(S) \in Nat
    <2>1. S \in SUBSET W
        BY DEF Selected
    <2> QED BY <2>1, FS_Subset, FS_CardinalityType
<1>3. IsFiniteSet(added) /\ Cardinality(added) = Cardinality(S)
    <2> DEFINE f == [w \in S |-> <<b, w>>]
    <2>1. f \in [S -> added]
        OBVIOUS
    <2>2. \A x, y \in S : f[x] = f[y] => x = y
        OBVIOUS
    <2>3. \A t \in added : \E x \in S : f[x] = t
        OBVIOUS
    <2> HIDE DEF f, S, added
    <2> QED BY <1>2, <2>1, <2>2, <2>3, SameSize
<1>4. new = old \union added
    <2>1. ASSUME NEW o PROVE o \in new <=> o \in old \union added
        BY StatementIn DEF Selected
    <2> QED BY <2>1
<1>5. old \intersect added = {}
    <2>1. ASSUME NEW o \in old, o \in added PROVE FALSE
        BY <2>1, StatementIn
    <2> QED BY <2>1
<1>6. Cardinality(old \union added) = Cardinality(old) + Cardinality(added)
    <2> HIDE DEF old, added, S
    <2>1. Cardinality(old \intersect added) = 0
        BY <1>5, FS_EmptySet
    <2>2. Cardinality(old \union added) =
              Cardinality(old) + Cardinality(added) - Cardinality(old \intersect added)
        BY <1>1, <1>3, FS_Union
    <2> QED BY <1>1, <1>2, <1>3, <2>1, <2>2
<1> QED BY <1>2, <1>3, <1>4, <1>6

-----------------------------------------------------------------------------
(***************************************************************************)
(* Confirmed rows                                                          *)
(***************************************************************************)

\* A student has a seat in a section.
Holds(table, sv, lhp) == table[sv][lhp].trangThai = "DaDangKy"

\* An UPDATE of a status decides about the seat of its own key only.
LEMMA SetHolds ==
    ASSUME NEW t \in Table, NEW sv \in Students, NEW lhp \in Sections, NEW st \in TrangThai,
           NEW s \in Students, NEW l \in Sections
    PROVE  Holds(SetTrangThai(t, sv, lhp, st), s, l)
             <=> IF s = sv /\ l = lhp THEN st = "DaDangKy" ELSE Holds(t, s, l)
<1>1. SetTrangThai(t, sv, lhp, st)[s][l] =
          IF s = sv /\ l = lhp THEN [t[s][l] EXCEPT !.trangThai = st] ELSE t[s][l]
    BY SetRow
<1>2. t[s][l] \in Row \union {NoRow}
    BY DEF Table
<1>3. [t[s][l] EXCEPT !.trangThai = st].trangThai = st
    BY <1>2 DEF Row, NoRow
<1> QED BY <1>1, <1>3 DEF Holds

\* So does an INSERT.
LEMMA InsertHolds ==
    ASSUME NEW t \in Table, NEW sv \in Students, NEW lhp \in Sections, NEW st \in TrangThai,
           NEW phu \in Sections \union {NoSection}, NEW s \in Students, NEW l \in Sections
    PROVE  Holds(InsertRow(t, sv, lhp, st, phu), s, l)
             <=> IF s = sv /\ l = lhp THEN st = "DaDangKy" ELSE Holds(t, s, l)
<1>1. InsertRow(t, sv, lhp, st, phu)[s][l] =
          IF s = sv /\ l = lhp
          THEN [trangThai |-> st, monHoc |-> CourseOf[lhp], phu |-> phu]
          ELSE t[s][l]
    BY InsertedRow
<1> QED BY <1>1 DEF Holds

\* So does a DELETE, which takes the seat.
LEMMA DeleteHolds ==
    ASSUME NEW t \in Table, NEW sv \in Students, NEW lhp \in Sections,
           NEW s \in Students, NEW l \in Sections
    PROVE  Holds(DeleteRow(t, sv, lhp), s, l) <=> ~(s = sv /\ l = lhp) /\ Holds(t, s, l)
<1>1. DeleteRow(t, sv, lhp)[s][l] = IF s = sv /\ l = lhp THEN NoRow ELSE t[s][l]
    BY DeletedRow
<1>2. NoRow.trangThai = "khong"
    BY DEF NoRow
<1> QED BY <1>1, <1>2 DEF Holds

\* The seats after a statement of a batch: a confirmed or moved row has one
\* in the section of the statement, and a moved or waiting row has none in
\* its own.
LEMMA ExecutedHolds ==
    ASSUME TablesType, NEW rows \in SUBSET PendingRow, NEW w, WriteOfRows(rows, w),
           WritesInPlace({w}), Executed(w), NEW s \in Students, NEW l \in Sections
    PROVE  Holds(dangKy', s, l) <=>
               \/ w.op \in {"confirm", "move"} /\ s = w.row.sv /\ l = w.lhp
               \/ /\ Holds(dangKy, s, l)
                  /\ ~(w.op \in {"move", "wait"} /\ s = w.row.sv /\ l = w.row.lhp)
<1>1. w.row.sv \in Students /\ w.row.lhp \in Sections /\ w.lhp \in Sections
    BY DEF WriteOfRows, WriteOp, PendingRow
<1>2. dangKy \in Table
    BY DEF TablesType
<1>3. "DaDangKy" \in TrangThai /\ "DanhSachCho" \in TrangThai
    BY DEF TrangThai
<1>4. CASE w.op = "confirm"
    <2>1. dangKy' = SetTrangThai(dangKy, w.row.sv, w.row.lhp, "DaDangKy") /\ w.lhp = w.row.lhp
        BY <1>4 DEF Executed, WritesInPlace
    <2> QED BY <1>1, <1>2, <1>3, <1>4, <2>1, SetHolds
<1>5. CASE w.op = "move"
    <2> DEFINE t == DeleteRow(dangKy, w.row.sv, w.row.lhp)
    <2>1. t \in Table
        BY <1>1, <1>2, DeletedRow
    <2>2. Holds(t, s, l) <=> ~(s = w.row.sv /\ l = w.row.lhp) /\ Holds(dangKy, s, l)
        BY <1>1, <1>2, DeleteHolds
    <2>3. dangKy' = InsertRow(t, w.row.sv, w.lhp, "DaDangKy", NoSection)
        BY <1>5 DEF Executed
    <2> HIDE DEF t
    <2>4. NoSection \in Sections \union {NoSection}
        OBVIOUS
    <2>5. Holds(dangKy', s, l) <=>
              IF s = w.row.sv /\ l = w.lhp THEN TRUE ELSE Holds(t, s, l)
        BY <1>1, <1>3, <2>1, <2>3, <2>4, InsertHolds
    <2> QED BY <1>5, <2>2, <2>5
<1>6. CASE w.op = "count"
    BY <1>6 DEF Executed
<1>7. CASE w.op = "wait"
    <2>1. dangKy' = SetTrangThai(dangKy, w.row.sv, w.row.lhp, "DanhSachCho")
        BY <1>7 DEF Executed
    <2> QED BY <1>1, <1>2, <1>3, <1>7, <2>1, SetHolds
<1> QED BY <1>4, <1>5, <1>6, <1>7 DEF Executed

\* A refused row has no seat; the others keep theirs.
LEMMA RefusedHolds ==
    ASSUME TablesType, NEW r \in PendingRow, dangKy' = SetTrangThai(dangKy, r.sv, r.lhp, "TuChoi"),
           NEW s \in Students, NEW l \in Sections
    PROVE  Holds(dangKy', s, l) <=> Holds(dangKy, s, l) /\ ~(s = r.sv /\ l = r.lhp)
<1>1. r.sv \in Students /\ r.lhp \in Sections /\ "TuChoi" \in TrangThai /\ dangKy \in Table
    BY DEF PendingRow, TrangThai, TablesType
<1> QED BY <1>1, SetHolds

\* Requests give no seats, and take those only that they name.
LEMMA RequestHolds ==
    ASSUME TypeInv, NEW d \in inbox, DangKyMonHoc(d) \/ HuyXoa(d),
           NEW s \in Students, NEW l \in Sections
    PROVE  Holds(dangKy', s, l) <=> Holds(dangKy, s, l) /\ ~(s = d[1].sv /\ l = d[1].lhp)
<1>1. dangKy \in Table /\ CallsType
    BY TypeParts DEF TablesType
<1>2. d[1].sv \in Students /\ d[1].lhp \in Sections /\ d[1].phu \in Sections \union {NoSection}
    BY <1>1, DeliveryType
<1>3. CASE DangKyMonHoc(d)
    <2>1. PICK phu \in Sections \union {NoSection} :
              dangKy' = InsertRow(dangKy, d[1].sv, d[1].lhp, "ChoXuLy", phu)
        BY <1>2, <1>3 DEF DangKyMonHoc
    <2>2. "ChoXuLy" \in TrangThai
        BY DEF TrangThai
    <2> QED BY <1>1, <1>2, <2>1, <2>2, InsertHolds
<1>4. CASE HuyXoa(d)
    BY <1>1, <1>2, <1>4, DeleteHolds DEF HuyXoa
<1> QED BY <1>3, <1>4

\* The students with a seat in a section, for the table of some state.
Holders(table, lhp) == {sv \in Students : Holds(table, sv, lhp)}

\* They are finitely many.
LEMMA HoldersFinite ==
    ASSUME NEW table, NEW lhp
    PROVE  IsFiniteSet(Holders(table, lhp)) /\ Cardinality(Holders(table, lhp)) \in Nat
<1>1. Holders(table, lhp) \in SUBSET Students
    BY DEF Holders
<1>2. IsFiniteSet(Holders(table, lhp))
    BY <1>1, FinitenessAssumption, FS_Subset
<1> QED BY <1>2, FS_CardinalityType

\* A step that gives no seat of a section leaves no more holders.
LEMMA HoldersFewer ==
    ASSUME NEW before, NEW after, NEW lhp,
           \A sv \in Students : Holds(after, sv, lhp) => Holds(before, sv, lhp)
    PROVE  Cardinality(Holders(after, lhp)) <= Cardinality(Holders(before, lhp))
<1>1. Holders(after, lhp) \in SUBSET Holders(before, lhp)
    BY DEF Holders
<1> QED BY <1>1, HoldersFinite, FS_Subset

\* A step that gives one leaves at most one more.
LEMMA HoldersOneMore ==
    ASSUME NEW before, NEW after, NEW lhp, NEW one,
           \A sv \in Students : Holds(after, sv, lhp) => Holds(before, sv, lhp) \/ sv = one
    PROVE  Cardinality(Holders(after, lhp)) <= Cardinality(Holders(before, lhp)) + 1
<1>1. Holders(after, lhp) \subseteq Holders(before, lhp) \union {one}
    BY DEF Holders
<1> QED BY <1>1, HoldersFinite, AtMostOneMore

-----------------------------------------------------------------------------
(***************************************************************************)
(* The counter and the rows                                                *)
(***************************************************************************)

\* Deliveries of cancellations of a section that no handler will get any
\* more, and those of some requests and deliveries.
CancelsTaken(lhp) == {d \in (sent \X Replicas) \ inbox : d[1].kind = "HUY" /\ d[1].lhp = lhp}

Halves(deliveries, lhp) == {d \in deliveries : d[1].lhp = lhp}

Taken(requests, deliveries, lhp) ==
    {d \in (requests \X Replicas) \ deliveries : d[1].kind = "HUY" /\ d[1].lhp = lhp}

\* A count is missing only if a statement failed, a pod stopped or a
\* cancellation was taken.
LedgerBound(lhp) ==
    RowsSoon(lhp) <= CounterSoon(lhp) + failures + crashes * Cardinality(Students)
                       + Cardinality(CancelsTaken(lhp))

LedgerInv == ShapeInv /\ IsFiniteSet(sent) /\ \A lhp \in Sections : LedgerBound(lhp)

\* A pod that stops has at most one count of the section for every student.
LossBounded ==
    crashes < MaxCrashes =>
        \A lhp \in Sections :
            Cardinality(StatementsOf(batch, {"count"}, lhp)) <= Cardinality(Students)

\* The sets that are counted.
LEMMA LedgerSets ==
    ASSUME NEW lhp \in Sections
    PROVE  /\ LedgerBound(lhp) <=>
                  Cardinality(Holders(dangKy, lhp))
                    + Cardinality(StatementsOf(batch, {"confirm", "move"}, lhp))
                  <= counter[lhp] + Cardinality(StatementsOf(batch, {"count"}, lhp))
                       - Cardinality(Halves(huy, lhp))
                       + failures + crashes * Cardinality(Students)
                       + Cardinality(Taken(sent, inbox, lhp))
           /\ LedgerBound(lhp)' <=>
                  Cardinality(Holders(dangKy', lhp))
                    + Cardinality(StatementsOf(batch', {"confirm", "move"}, lhp))
                  <= counter'[lhp] + Cardinality(StatementsOf(batch', {"count"}, lhp))
                       - Cardinality(Halves(huy', lhp))
                       + failures' + crashes' * Cardinality(Students)
                       + Cardinality(Taken(sent', inbox', lhp))
BY DEF LedgerBound, RowsSoon, CounterSoon, Confirmed, Holders, Holds, Outstanding, StatementsOf,
       Halves, CancelsTaken, Taken

\* Deliveries of finitely many requests.
LEMMA DeliveriesFinite ==
    ASSUME NEW requests, IsFiniteSet(requests), NEW D \in SUBSET (requests \X Replicas)
    PROVE  IsFiniteSet(D) /\ Cardinality(D) \in Nat
<1>1. IsFiniteSet(requests \X Replicas)
    BY FinitenessAssumption, FS_Product
<1>2. IsFiniteSet(D)
    BY <1>1, FS_Subset
<1> QED BY <1>2, FS_CardinalityType

\* What is counted are numbers.
LEMMA LedgerNumbers ==
    ASSUME ShapeInv, IsFiniteSet(sent), NEW lhp \in Sections
    PROVE  /\ \A b \in Batches : IsFiniteSet(batch[b].writes)
           /\ Cardinality(Holders(dangKy, lhp)) \in Nat
           /\ \A ops : Cardinality(StatementsOf(batch, ops, lhp)) \in Nat
           /\ counter[lhp] \in Int
           /\ IsFiniteSet(Halves(huy, lhp)) /\ Cardinality(Halves(huy, lhp)) \in Nat
           /\ IsFiniteSet(Taken(sent, inbox, lhp)) /\ Cardinality(Taken(sent, inbox, lhp)) \in Nat
           /\ failures \in Nat /\ crashes \in Nat
           /\ Cardinality(Students) \in Nat /\ crashes * Cardinality(Students) \in Nat
<1>1. TablesType /\ CallsType /\ BoundsType
    BY TypeParts DEF ShapeInv
<1>2. \A b \in Batches : IsFiniteSet(batch[b].writes)
    BY DEF ShapeInv, ShapeLocals
<1>3. \A ops : Cardinality(StatementsOf(batch, ops, lhp)) \in Nat
    BY <1>2, StatementsFinite
<1>4. Halves(huy, lhp) \in SUBSET (sent \X Replicas) /\ Taken(sent, inbox, lhp) \in SUBSET (sent \X Replicas)
    BY <1>1 DEF Halves, Taken, CallsType
<1>5. /\ IsFiniteSet(Halves(huy, lhp)) /\ Cardinality(Halves(huy, lhp)) \in Nat
      /\ IsFiniteSet(Taken(sent, inbox, lhp)) /\ Cardinality(Taken(sent, inbox, lhp)) \in Nat
    BY <1>4, DeliveriesFinite
<1>6. counter[lhp] \in Int /\ failures \in Nat /\ crashes \in Nat
    BY <1>1, ConstantsAssumption DEF TablesType, BoundsType
<1>7. Cardinality(Students) \in Nat
    BY FinitenessAssumption, FS_CardinalityType
<1>8. crashes * Cardinality(Students) \in Nat
    BY <1>6, <1>7
<1> QED BY <1>2, <1>3, <1>5, <1>6, <1>7, <1>8, HoldersFinite

\* No delivery comes back.
LEMMA TakenGrows ==
    ASSUME sent \subseteq sent', CallsType, IsFiniteSet(sent'),
           \A d \in inbox' : d \in inbox \/ d[1] \notin sent, NEW lhp
    PROVE  /\ Taken(sent, inbox, lhp) \subseteq Taken(sent', inbox', lhp)
           /\ IsFiniteSet(Taken(sent', inbox', lhp))
           /\ Cardinality(Taken(sent', inbox', lhp)) \in Nat
           /\ Cardinality(Taken(sent, inbox, lhp)) <= Cardinality(Taken(sent', inbox', lhp))
<1>1. Taken(sent, inbox, lhp) \in SUBSET Taken(sent', inbox', lhp)
    BY DEF Taken
<1>2. Taken(sent', inbox', lhp) \in SUBSET (sent' \X Replicas)
    BY DEF Taken
<1>3. IsFiniteSet(Taken(sent', inbox', lhp)) /\ Cardinality(Taken(sent', inbox', lhp)) \in Nat
    BY <1>2, DeliveriesFinite
<1> QED BY <1>1, <1>3, FS_Subset

\* The steps of requests.
LEMMA RequestLedger ==
    ASSUME LedgerInv, IsFiniteSet(sent'),
           \/ \E q \in Requests : Send(q)
           \/ \E d \in inbox : Drop(d) \/ DangKyMonHoc(d) \/ HuyXoa(d)
           \/ \E d \in huy : HuyTru(d),
           NEW lhp \in Sections
    PROVE  LedgerBound(lhp)'
<1> DEFINE H == Cardinality(Holders(dangKy, lhp))
           M == Cardinality(StatementsOf(batch, {"confirm", "move"}, lhp))
           N == Cardinality(StatementsOf(batch, {"count"}, lhp))
           h == Cardinality(Halves(huy, lhp))
           Y == Cardinality(Taken(sent, inbox, lhp))
           C == crashes * Cardinality(Students)
           newH == Cardinality(Holders(dangKy', lhp))
           newh == Cardinality(Halves(huy', lhp))
           newY == Cardinality(Taken(sent', inbox', lhp))
<1>1. TablesType /\ CallsType /\ BoundsType
    BY TypeParts DEF LedgerInv, ShapeInv
<1>2. /\ H \in Nat /\ M \in Nat /\ N \in Nat /\ h \in Nat /\ Y \in Nat /\ C \in Nat
      /\ counter[lhp] \in Int /\ failures \in Nat /\ crashes \in Nat
      /\ IsFiniteSet(Halves(huy, lhp)) /\ IsFiniteSet(Taken(sent, inbox, lhp))
    BY LedgerNumbers DEF LedgerInv
<1>3. H + M <= counter[lhp] + N - h + failures + C + Y
    BY LedgerSets DEF LedgerInv
<1>4. UNCHANGED <<batch, crashes>>
    BY DEF Send, Drop, DangKyMonHoc, HuyXoa, HuyTru
<1>5. LedgerBound(lhp)' <=> newH + M <= counter'[lhp] + N - newh + failures' + C + newY
    BY <1>4, LedgerSets
<1>6. newH \in Nat
    BY HoldersFinite
<1>7. ASSUME NEW q \in Requests, Send(q)
      PROVE  LedgerBound(lhp)'
    <2>1. sent \subseteq sent' /\ \A d \in inbox' : d \in inbox \/ d[1] \notin sent
        BY <1>7 DEF Send
    <2>2. newY \in Nat /\ Y <= newY
        BY <1>1, <2>1, TakenGrows
    <2>3. newH = H /\ newh = h /\ counter' = counter /\ failures' = failures
        BY <1>7 DEF Send, tables
    <2> HIDE DEF H, M, N, h, Y, C, newH, newh, newY
    <2> QED BY <1>2, <1>3, <1>5, <2>2, <2>3
<1>8. ASSUME NEW d \in inbox, Drop(d)
      PROVE  LedgerBound(lhp)'
    <2>1. sent \subseteq sent' /\ \A x \in inbox' : x \in inbox \/ x[1] \notin sent
        BY <1>8 DEF Drop
    <2>2. newY \in Nat /\ Y <= newY
        BY <1>1, <2>1, TakenGrows
    <2>3. newH = H /\ newh = h /\ counter' = counter /\ failures' = failures
        BY <1>8 DEF Drop, tables
    <2> HIDE DEF H, M, N, h, Y, C, newH, newh, newY
    <2> QED BY <1>2, <1>3, <1>5, <2>2, <2>3
<1>9. ASSUME NEW d \in inbox, DangKyMonHoc(d)
      PROVE  LedgerBound(lhp)'
    <2>1. sent \subseteq sent' /\ \A x \in inbox' : x \in inbox \/ x[1] \notin sent
        BY <1>9 DEF DangKyMonHoc
    <2>2. newY \in Nat /\ Y <= newY
        BY <1>1, <2>1, TakenGrows
    <2>3. newh = h /\ counter' = counter /\ failures' = failures
        BY <1>9 DEF DangKyMonHoc
    <2>4. \A sv \in Students : Holds(dangKy', sv, lhp) => Holds(dangKy, sv, lhp)
        BY <1>9, RequestHolds DEF LedgerInv, ShapeInv
    <2>5. newH <= H
        BY <2>4, HoldersFewer
    <2> HIDE DEF H, M, N, h, Y, C, newH, newh, newY
    <2> QED BY <1>2, <1>3, <1>5, <1>6, <2>2, <2>3, <2>5
<1>10. ASSUME NEW d \in inbox, HuyXoa(d)
       PROVE  LedgerBound(lhp)'
    <2>1. sent' = sent /\ inbox' = inbox \ {d} /\ huy' = huy \union {d} /\ d[1].kind = "HUY"
        BY <1>10 DEF HuyXoa
    <2>2. /\ Taken(sent, inbox, lhp) \subseteq Taken(sent', inbox', lhp)
          /\ IsFiniteSet(Taken(sent', inbox', lhp)) /\ newY \in Nat /\ Y <= newY
        BY <1>1, <2>1, TakenGrows
    <2>3. counter' = counter /\ failures' = failures
        BY <1>10 DEF HuyXoa
    <2>4. \A sv \in Students : Holds(dangKy', sv, lhp) => Holds(dangKy, sv, lhp)
        BY <1>10, RequestHolds DEF LedgerInv, ShapeInv
    <2>5. newH <= H
        BY <2>4, HoldersFewer
    <2>6. newh \in Nat /\ newh - h <= newY - Y
        <3>1. CASE d[1].lhp = lhp
            <4>1. d \in Taken(sent', inbox', lhp) /\ d \notin Taken(sent, inbox, lhp)
                BY <1>1, <2>1, <3>1 DEF Taken, CallsType
            <4>2. Taken(sent, inbox, lhp) \in SUBSET Taken(sent', inbox', lhp)
                BY <2>2
            <4>3. Y # newY
                BY <2>2, <4>1, <4>2, FS_Subset
            <4>4. Halves(huy', lhp) \subseteq Halves(huy, lhp) \union {d}
                BY <2>1 DEF Halves
            <4>5. newh \in Nat /\ newh <= h + 1
                BY <1>2, <4>4, AtMostOneMore
            <4> HIDE DEF h, Y, newh, newY
            <4> QED BY <1>2, <2>2, <4>3, <4>5
        <3>2. CASE d[1].lhp # lhp
            <4>1. Halves(huy', lhp) = Halves(huy, lhp)
                BY <2>1, <3>2 DEF Halves
            <4>2. newh = h
                BY <4>1
            <4> HIDE DEF h, Y, newh, newY
            <4> QED BY <1>2, <2>2, <4>2
        <3> QED BY <3>1, <3>2
    <2> HIDE DEF H, M, N, h, Y, C, newH, newh, newY
    <2> QED BY <1>2, <1>3, <1>5, <1>6, <2>2, <2>3, <2>5, <2>6
<1>11. ASSUME NEW d \in huy, HuyTru(d)
       PROVE  LedgerBound(lhp)'
    <2>1. newH = H /\ newY = Y
        BY <1>11 DEF HuyTru
    <2>2. /\ huy' = huy \ {d}
          /\ \/ counter' = [counter EXCEPT ![d[1].lhp] = @ - 1] /\ failures' = failures
             \/ counter' = counter /\ failures' = failures + 1
        BY <1>11 DEF HuyTru, StatementFails
    <2>3. counter \in [Sections -> Int]
        BY <1>1 DEF TablesType
    <2>4. CASE d[1].lhp = lhp
        <3>1. Halves(huy', lhp) = Halves(huy, lhp) \ {d} /\ d \in Halves(huy, lhp)
            BY <2>2, <2>4 DEF Halves
        <3>2. newh = h - 1
            BY <1>2, <3>1, OneLess
        <3>3. counter'[lhp] + failures' >= counter[lhp] + failures - 1 /\ counter'[lhp] \in Int /\ failures' \in Nat
            BY <1>2, <2>2, <2>3, <2>4
        <3> HIDE DEF H, M, N, h, Y, C, newH, newh, newY
        <3> QED BY <1>2, <1>3, <1>5, <2>1, <3>2, <3>3
    <2>5. CASE d[1].lhp # lhp
        <3>1. Halves(huy', lhp) = Halves(huy, lhp)
            BY <2>2, <2>5 DEF Halves
        <3>2. newh = h
            BY <3>1
        <3>3. counter'[lhp] = counter[lhp] /\ failures' >= failures /\ failures' \in Nat
            BY <1>2, <2>2, <2>3, <2>5
        <3> HIDE DEF H, M, N, h, Y, C, newH, newh, newY
        <3> QED BY <1>2, <1>3, <1>5, <2>1, <3>2, <3>3
    <2> QED BY <2>4, <2>5
<1> QED BY <1>7, <1>8, <1>9, <1>10, <1>11

\* The steps of batches: seats are given and counted together, and each
\* statement is executed or lost once.
LEMMA BatchLedger ==
    ASSUME LedgerInv, IsFiniteSet(sent'), ShapeInv', NEW b \in Batches, BatchStep(b),
           NEW lhp \in Sections
    PROVE  LedgerBound(lhp)'
<1> DEFINE loc == batch[b]
           rowOps == {"confirm", "move"}
           H == Cardinality(Holders(dangKy, lhp))
           M == Cardinality(StatementsOf(batch, rowOps, lhp))
           N == Cardinality(StatementsOf(batch, {"count"}, lhp))
           h == Cardinality(Halves(huy, lhp))
           Y == Cardinality(Taken(sent, inbox, lhp))
           C == crashes * Cardinality(Students)
           newH == Cardinality(Holders(dangKy', lhp))
           newM == Cardinality(StatementsOf(batch', rowOps, lhp))
           newN == Cardinality(StatementsOf(batch', {"count"}, lhp))
<1>1. TablesType /\ BatchesType /\ GoodLocals(loc) /\ loc.rows \in SUBSET PendingRow
    BY TypeParts DEF LedgerInv, ShapeInv, BatchesType, GoodLocals, BatchType
<1>2. /\ H \in Nat /\ M \in Nat /\ N \in Nat /\ h \in Nat /\ Y \in Nat /\ C \in Nat
      /\ counter[lhp] \in Int /\ failures \in Nat
      /\ \A c \in Batches : IsFiniteSet(batch[c].writes)
    BY LedgerNumbers DEF LedgerInv
<1>3. H + M <= counter[lhp] + N - h + failures + C + Y
    BY LedgerSets DEF LedgerInv
<1>4. UNCHANGED <<sent, inbox, huy, crashes>>
    BY BatchEffect DEF LedgerInv
<1>5. LedgerBound(lhp)' <=> newH + newM <= counter'[lhp] + newN - h + failures' + C + Y
    BY <1>4, LedgerSets
<1>6. PICK new : batch' = [batch EXCEPT ![b] = new] /\ Effect(loc, new)
    BY BatchEffect DEF LedgerInv
<1>7. \A c \in Batches : batch'[c] = IF c = b THEN new ELSE batch[c]
    BY <1>1, <1>6 DEF BatchesType
<1>8. newH \in Nat /\ newM \in Nat /\ newN \in Nat
    <2>1. \A c \in Batches : IsFiniteSet(batch'[c].writes)
        BY DEF ShapeInv, ShapeLocals
    <2> QED BY <2>1, HoldersFinite, StatementsFinite
<1>9. CASE new.writes = loc.writes /\ UNCHANGED counter /\ newH <= H
           /\ (UNCHANGED failures \/ StatementFails)
    <2>1. \A c \in Batches : batch'[c].writes = batch[c].writes
        BY <1>7, <1>9
    <2>2. newM = M /\ newN = N
        BY <2>1, StatementsKept
    <2>3. failures' \in Nat /\ failures' >= failures
        BY <1>2, <1>9 DEF StatementFails
    <2> HIDE DEF H, M, N, h, Y, C, newH, newM, newN
    <2> QED BY <1>2, <1>3, <1>5, <1>8, <1>9, <2>2, <2>3
<1>10. CASE Moves(loc, new)
    <2>1. \A sv \in Students : Holds(dangKy', sv, lhp) => Holds(dangKy, sv, lhp)
        <3>1. CASE UNCHANGED dangKy
            BY <3>1
        <3>2. ASSUME NEW r \in loc.toReject, dangKy' = SetTrangThai(dangKy, r.sv, r.lhp, "TuChoi")
              PROVE  \A sv \in Students : Holds(dangKy', sv, lhp) => Holds(dangKy, sv, lhp)
            <4>1. r \in PendingRow
                BY <1>1 DEF GoodLocals
            <4> QED BY <1>1, <3>2, <4>1, RefusedHolds
        <3> QED BY <1>10, <3>1, <3>2 DEF Moves
    <2>2. newH <= H
        BY <2>1, HoldersFewer
    <2>3. new.writes = loc.writes /\ UNCHANGED counter /\ (UNCHANGED failures \/ StatementFails)
        BY <1>10 DEF Moves
    <2> QED BY <1>9, <2>2, <2>3
<1>11. CASE Learns(loc, new)
    <2>1. /\ new.writes = loc.writes /\ UNCHANGED <<dangKy, counter>>
          /\ UNCHANGED failures \/ StatementFails
        BY <1>11 DEF Learns, tables
    <2>2. newH = H
        BY <2>1
    <2>3. newH <= H
        <3> HIDE DEF H, newH
        <3> QED BY <1>2, <2>2
    <2> QED BY <1>9, <2>1, <2>3
<1>12. CASE Queues(loc, new)
    <2>1. PICK plan \in Plan : new.writes = WritesOf(loc, plan)
        BY <1>12 DEF Queues
    <2> DEFINE W == WritesOf(loc, plan)
    <2>2. loc.writes = {} /\ UNCHANGED <<dangKy, counter, failures>>
        BY <1>12 DEF Queues, tables
    <2>3. IsFiniteSet(W)
        BY WritesOfShape
    <2>4. \A c \in Batches : batch'[c].writes = IF c = b THEN W ELSE batch[c].writes
        BY <1>7, <2>1
    <2>5. Cardinality(Selected(W, {"count"}, lhp)) = Cardinality(Selected(W, rowOps, lhp))
        BY WritesOfCount
    <2> HIDE DEF W
    <2>6. newM = M + Cardinality(Selected(W, rowOps, lhp))
        BY <1>2, <2>2, <2>3, <2>4, StatementsQueued
    <2>7. newN = N + Cardinality(Selected(W, {"count"}, lhp)) /\ Cardinality(Selected(W, {"count"}, lhp)) \in Nat
        BY <1>2, <2>2, <2>3, <2>4, StatementsQueued
    <2>8. newH = H
        BY <2>2
    <2> HIDE DEF H, M, N, h, Y, C, newH, newM, newN
    <2> QED BY <1>2, <1>3, <1>5, <1>8, <2>2, <2>5, <2>6, <2>7, <2>8
<1>13. CASE Writes(loc, new)
    <2>1. PICK w \in loc.writes :
              /\ new.writes = loc.writes \ {w}
              /\ \/ Executed(w) /\ UNCHANGED failures
                 \/ StatementFails /\ UNCHANGED tables
        BY <1>13 DEF Writes
    <2>2. \A c \in Batches : batch'[c].writes = IF c = b THEN loc.writes \ {w} ELSE batch[c].writes
        BY <1>7, <2>1
    <2> DEFINE fewer(ops) ==
                   /\ w.op \in ops /\ w.lhp = lhp =>
                          Cardinality(StatementsOf(batch', ops, lhp)) =
                              Cardinality(StatementsOf(batch, ops, lhp)) - 1
                   /\ ~(w.op \in ops /\ w.lhp = lhp) =>
                          StatementsOf(batch', ops, lhp) = StatementsOf(batch, ops, lhp)
    <2>3. ASSUME NEW ops PROVE fewer(ops)
        <3>1. \A c \in Batches : IsFiniteSet(batch[c].writes)
            BY <1>2
        <3>2. w \in batch[b].writes
            OBVIOUS
        <3>3. /\ batch'[b].writes = batch[b].writes \ {w}
              /\ \A c \in Batches \ {b} : batch'[c].writes = batch[c].writes
            BY <2>2
        <3> HIDE DEF loc
        <3> QED BY <3>1, <3>2, <3>3, StatementGone
    <2>4. /\ w.op \in rowOps /\ w.lhp = lhp => newM = M - 1
          /\ ~(w.op \in rowOps /\ w.lhp = lhp) => newM = M
          /\ w.op = "count" /\ w.lhp = lhp => newN = N - 1
          /\ ~(w.op = "count" /\ w.lhp = lhp) => newN = N
        <3>1. fewer(rowOps) /\ fewer({"count"})
            BY <2>3
        <3> QED BY <3>1
    <2>5. WriteOfRows(loc.rows, w) /\ WritesInPlace({w})
        BY <1>1 DEF GoodLocals, LedgerInv, ShapeInv, ShapeLocals, WritesInPlace
    <2>6. CASE StatementFails /\ UNCHANGED tables
        <3>1. newH = H /\ counter' = counter /\ failures' = failures + 1
            BY <2>6 DEF tables, StatementFails
        <3> HIDE DEF H, M, N, h, Y, C, newH, newM, newN
        <3> QED BY <1>2, <1>3, <1>5, <1>8, <2>4, <3>1
    <2>7. CASE Executed(w) /\ UNCHANGED failures
        <3>1. \A sv \in Students : Holds(dangKy', sv, lhp) <=>
                  \/ w.op \in rowOps /\ sv = w.row.sv /\ lhp = w.lhp
                  \/ /\ Holds(dangKy, sv, lhp)
                     /\ ~(w.op \in {"move", "wait"} /\ sv = w.row.sv /\ lhp = w.row.lhp)
            BY <1>1, <2>5, <2>7, ExecutedHolds
        <3>2. CASE w.op \in rowOps
            <4>1. counter' = counter /\ w.op # "count"
                BY <2>7, <3>2 DEF Executed
            <4>2. newH <= H + (IF w.lhp = lhp THEN 1 ELSE 0)
                <5>1. CASE w.lhp = lhp
                    BY <3>1, <5>1, HoldersOneMore
                <5>2. CASE w.lhp # lhp
                    <6>1. newH <= H
                        BY <3>1, <5>2, HoldersFewer
                    <6> HIDE DEF H, newH
                    <6> QED BY <1>2, <5>2, <6>1
                <5> QED BY <5>1, <5>2
            <4>3. newM = M - (IF w.lhp = lhp THEN 1 ELSE 0) /\ newN = N
                <5> HIDE DEF M, N, newM, newN
                <5> QED BY <1>2, <2>4, <3>2, <4>1
            <4> HIDE DEF H, M, N, h, Y, C, newH, newM, newN
            <4> QED BY <1>2, <1>3, <1>5, <1>8, <2>7, <4>1, <4>2, <4>3
        <3>3. CASE w.op \notin rowOps
            <4>1. newH <= H
                BY <3>1, <3>3, HoldersFewer
            <4>2. counter'[lhp] = counter[lhp] + (IF w.op = "count" /\ w.lhp = lhp THEN 1 ELSE 0)
                <5>1. counter \in [Sections -> Int] /\ w.lhp \in Sections
                    BY <1>1, <2>5 DEF TablesType, WriteOfRows, WriteOp
                <5>2. CASE w.op = "count"
                    <6>1. counter' = [counter EXCEPT ![w.lhp] = @ + 1]
                        BY <2>7, <5>2 DEF Executed
                    <6> QED BY <5>1, <5>2, <6>1
                <5>3. CASE w.op # "count"
                    <6>1. counter' = counter
                        BY <2>7, <5>3 DEF Executed
                    <6> QED BY <1>2, <5>3, <6>1
                <5> QED BY <5>2, <5>3
            <4>3. newM = M /\ newN = N - (IF w.op = "count" /\ w.lhp = lhp THEN 1 ELSE 0)
                <5> HIDE DEF M, N, newM, newN
                <5> QED BY <1>2, <2>4, <3>3
            <4> HIDE DEF H, M, N, h, Y, C, newH, newM, newN
            <4> QED BY <1>2, <1>3, <1>5, <1>8, <2>7, <4>1, <4>2, <4>3
        <3> QED BY <3>2, <3>3
    <2> QED BY <2>1, <2>6, <2>7
<1> QED BY <1>6, <1>10, <1>11, <1>12, <1>13 DEF Effect

\* A pod stops: the rows that its batches were to confirm are fewer too, and
\* the counts that get lost are bounded.
LEMMA CrashLedger ==
    ASSUME LedgerInv, LossBounded, IsFiniteSet(sent'), NEW r \in Replicas, Crash(r),
           NEW lhp \in Sections
    PROVE  LedgerBound(lhp)'
<1> DEFINE rowOps == {"confirm", "move"}
           H == Cardinality(Holders(dangKy, lhp))
           M == Cardinality(StatementsOf(batch, rowOps, lhp))
           N == Cardinality(StatementsOf(batch, {"count"}, lhp))
           h == Cardinality(Halves(huy, lhp))
           Y == Cardinality(Taken(sent, inbox, lhp))
           S == Cardinality(Students)
           newM == Cardinality(StatementsOf(batch', rowOps, lhp))
           newN == Cardinality(StatementsOf(batch', {"count"}, lhp))
           newh == Cardinality(Halves(huy', lhp))
           newY == Cardinality(Taken(sent', inbox', lhp))
<1>1. CallsType
    BY TypeParts DEF LedgerInv, ShapeInv
<1>2. /\ H \in Nat /\ M \in Nat /\ N \in Nat /\ h \in Nat /\ Y \in Nat /\ S \in Nat
      /\ counter[lhp] \in Int /\ failures \in Nat /\ crashes \in Nat
      /\ IsFiniteSet(Halves(huy, lhp))
      /\ \A c \in Batches : IsFiniteSet(batch[c].writes)
    BY LedgerNumbers DEF LedgerInv
<1>3. H + M <= counter[lhp] + N - h + failures + crashes * S + Y
    BY LedgerSets DEF LedgerInv
<1>4. N <= S
    BY DEF LossBounded, Crash
<1>5. UNCHANGED <<dangKy, counter, failures>> /\ crashes' = crashes + 1
    BY DEF Crash, tables
<1>6. LedgerBound(lhp)' <=> H + newM <= counter[lhp] + newN - newh + failures + (crashes + 1) * S + newY
    BY <1>5, LedgerSets
<1>7. \A c \in Batches : batch'[c].writes \subseteq batch[c].writes
    BY DEF Crash, Idle
<1>8. newM \in Nat /\ newM <= M /\ newN \in Nat
    BY <1>2, <1>7, StatementsFewer
<1>9. newh \in Nat /\ newh <= h
    <2>1. Halves(huy', lhp) \in SUBSET Halves(huy, lhp)
        BY DEF Crash, Halves
    <2> QED BY <1>2, <2>1, FS_Subset, FS_CardinalityType
<1>10. newY \in Nat /\ Y <= newY
    <2>1. sent \subseteq sent' /\ \A d \in inbox' : d \in inbox \/ d[1] \notin sent
        BY DEF Crash
    <2> QED BY <1>1, <2>1, TakenGrows
<1> HIDE DEF H, M, N, h, Y, S, newM, newN, newh, newY
<1>11. (crashes + 1) * S = crashes * S + S /\ crashes * S \in Nat
    BY <1>2
<1> QED BY <1>2, <1>3, <1>4, <1>6, <1>8, <1>9, <1>10, <1>11

\* The ledger is bounded at the start and after every step.
LEMMA LedgerInit == Init => LedgerInv
<1> SUFFICES ASSUME Init PROVE LedgerInv
    OBVIOUS
<1>1. ShapeInv /\ IsFiniteSet(sent) /\ sent = {} /\ crashes = 0
    BY ShapeInit, FS_EmptySet DEF Init
<1>2. SUFFICES ASSUME NEW lhp \in Sections PROVE LedgerBound(lhp)
    BY <1>1 DEF LedgerInv
<1>3. Holders(dangKy, lhp) = {} /\ Halves(huy, lhp) = {} /\ counter[lhp] = 0 /\ failures = 0
    BY DEF Init, Holders, Holds, Halves, NoRow
<1>4. \A b \in Batches : batch[b].writes = {}
    BY DEF Init, Idle
<1>5. \A ops : StatementsOf(batch, ops, lhp) = {}
    BY <1>4 DEF StatementsOf
<1>6. Cardinality({}) = 0
    BY FS_EmptySet
<1>7. /\ Cardinality(Holders(dangKy, lhp)) = 0 /\ Cardinality(Halves(huy, lhp)) = 0
      /\ Cardinality(StatementsOf(batch, {"confirm", "move"}, lhp)) = 0
      /\ Cardinality(StatementsOf(batch, {"count"}, lhp)) = 0
    BY <1>3, <1>5, <1>6
<1>8. Cardinality(Taken(sent, inbox, lhp)) \in Nat /\ crashes * Cardinality(Students) \in Nat
    BY <1>1, LedgerNumbers
<1> DEFINE Y == Cardinality(Taken(sent, inbox, lhp))
           C == crashes * Cardinality(Students)
<1>9. LedgerBound(lhp) <=> 0 + 0 <= 0 + 0 - 0 + 0 + C + Y
    BY <1>3, <1>7, LedgerSets
<1> HIDE DEF Y, C
<1> QED BY <1>8, <1>9 DEF Y, C

\* Finitely many requests are sent.
LEMMA SentFinite ==
    ASSUME IsFiniteSet(sent), [Next]_vars
    PROVE  IsFiniteSet(sent')
<1>1. sent' = sent \/ \E q : sent' = sent \union {q}
    BY DEF vars, Next, Send, Drop, DangKyMonHoc, HuyXoa, HuyTru, BatchStep, Scan, CheckRow,
           Reject, ReadSlot, Allocate, Write, Crash, calls
<1> QED BY <1>1, FS_AddElement

\* The bound is kept if the counts a stopped pod loses are bounded.
LEMMA LedgerStep == LedgerInv /\ LossBounded /\ [Next]_vars => LedgerInv'
<1> SUFFICES ASSUME LedgerInv, LossBounded, [Next]_vars PROVE LedgerInv'
    OBVIOUS
<1>1. ShapeInv'
    BY ShapeStep DEF LedgerInv
<1>2. IsFiniteSet(sent')
    BY SentFinite DEF LedgerInv
<1>3. CASE UNCHANGED vars
    <2>1. \A lhp \in Sections : LedgerBound(lhp)'
        BY <1>3, LedgerSets DEF LedgerInv, vars
    <2> QED BY <1>1, <1>2, <2>1 DEF LedgerInv
<1>4. CASE Next
    <2>1. \A lhp \in Sections : LedgerBound(lhp)'
        BY <1>1, <1>2, <1>4, RequestLedger, BatchLedger, CrashLedger DEF Next
    <2> QED BY <1>1, <1>2, <2>1 DEF LedgerInv
<1> QED BY <1>3, <1>4

-----------------------------------------------------------------------------
(***************************************************************************)
(* Without faults                                                          *)
(***************************************************************************)

\* Without cancellations none is ever taken.
LEMMA NothingTaken ==
    ASSUME NoCancellations, TypeInv
    PROVE  \A lhp : CancelsTaken(lhp) = {}
<1>1. sent \subseteq Requests
    BY TypeParts DEF CallsType
<1> QED BY <1>1 DEF CancelsTaken, NoCancellations

\* Whatever pods and batches run at the same time: if no statement fails, no
\* pod stops and nobody cancels, every row that is confirmed or about to be
\* is counted or about to be, so that in the end no seat is left out of
\* lop_hoc_phan_counter.  The counter itself may be behind on the way.
THEOREM SeatsStayAccounted == NoFaults /\ NoCancellations => (Spec => []SeatsAccounted)
<1>1. ASSUME NoFaults PROVE LedgerInv => LossBounded
    <2> SUFFICES ASSUME LedgerInv PROVE LossBounded
        OBVIOUS
    <2>1. crashes \in Nat
        BY TypeParts, ConstantsAssumption DEF LedgerInv, ShapeInv, BoundsType
    <2> QED BY <1>1, <2>1 DEF LossBounded, NoFaults
<1>2. ASSUME NoFaults, NoCancellations PROVE LedgerInv => SeatsAccounted
    <2> SUFFICES ASSUME LedgerInv, NEW lhp \in Sections PROVE RowsSoon(lhp) <= CounterSoon(lhp)
        BY DEF SeatsAccounted
    <2>1. BoundsType
        BY TypeParts DEF LedgerInv, ShapeInv
    <2>2. failures = 0 /\ crashes = 0
        BY <1>2, <2>1 DEF BoundsType, NoFaults
    <2>3. CancelsTaken(lhp) = {} /\ Cardinality({}) = 0
        BY <1>2, NothingTaken, FS_EmptySet DEF LedgerInv, ShapeInv
    <2>4. Cardinality(CancelsTaken(lhp)) = 0
        BY <2>3
    <2>5. Cardinality(Students) \in Nat
        BY FinitenessAssumption, FS_CardinalityType
    <2>6. RowsSoon(lhp) <= CounterSoon(lhp) + 0 + 0 * Cardinality(Students) + 0
        BY <2>2, <2>4 DEF LedgerInv, LedgerBound
    <2>7. CounterSoon(lhp) \in Int
        <3>1. /\ counter[lhp] \in Int /\ Cardinality(Halves(huy, lhp)) \in Nat
              /\ Cardinality(StatementsOf(batch, {"count"}, lhp)) \in Nat
            BY LedgerNumbers DEF LedgerInv
        <3> QED BY <3>1 DEF CounterSoon, Outstanding, StatementsOf, Halves
    <2> QED BY <2>5, <2>6, <2>7
<1>3. ASSUME NoFaults PROVE LedgerInv /\ [Next]_vars => LedgerInv'
    BY <1>1, <1>3, LedgerStep
<1> SUFFICES ASSUME NoFaults, NoCancellations PROVE Spec => []SeatsAccounted
    OBVIOUS
<1>4. (LedgerInv /\ [Next]_vars => LedgerInv') /\ (LedgerInv => SeatsAccounted)
    BY <1>2, <1>3
<1> QED BY <1>4, LedgerInit, PTL DEF Spec

-----------------------------------------------------------------------------
(***************************************************************************)
(* The rows of the table                                                   *)
(***************************************************************************)

\* A row after an UPDATE of its status.
LEMMA SetFields ==
    ASSUME NEW t \in Table, NEW sv \in Students, NEW lhp \in Sections, NEW st \in TrangThai,
           NEW s \in Students, NEW l \in Sections
    PROVE  LET new == SetTrangThai(t, sv, lhp, st)[s][l]
           IN  /\ ~(s = sv /\ l = lhp) => new = t[s][l]
               /\ s = sv /\ l = lhp =>
                      new.trangThai = st /\ new.monHoc = t[s][l].monHoc /\ new.phu = t[s][l].phu
<1>1. SetTrangThai(t, sv, lhp, st)[s][l] =
          IF s = sv /\ l = lhp THEN [t[s][l] EXCEPT !.trangThai = st] ELSE t[s][l]
    BY SetRow
<1>2. t[s][l] \in Row \union {NoRow}
    BY DEF Table
<1>3. /\ [t[s][l] EXCEPT !.trangThai = st].trangThai = st
      /\ [t[s][l] EXCEPT !.trangThai = st].monHoc = t[s][l].monHoc
      /\ [t[s][l] EXCEPT !.trangThai = st].phu = t[s][l].phu
    BY <1>2 DEF Row, NoRow
<1> QED BY <1>1, <1>3

\* The rows after a statement of a batch.
LEMMA ExecutedFields ==
    ASSUME TablesType, NEW rows \in SUBSET PendingRow, NEW w, WriteOfRows(rows, w),
           WritesInPlace({w}), Executed(w), NEW s \in Students, NEW l \in Sections
    PROVE  LET old == dangKy[s][l]
               new == dangKy'[s][l]
           IN  \/ /\ w.op # "count" /\ s = w.row.sv => l # w.row.lhp /\ l # w.lhp
                  /\ new = old
               \/ /\ w.op = "move" /\ s = w.row.sv /\ l = w.lhp
                  /\ new = [trangThai |-> "DaDangKy", monHoc |-> CourseOf[l], phu |-> NoSection]
               \/ w.op = "move" /\ s = w.row.sv /\ l = w.row.lhp /\ l # w.lhp /\ new = NoRow
               \/ /\ w.op \in {"confirm", "wait"} /\ s = w.row.sv /\ l = w.row.lhp
                  /\ new.trangThai \in {"DaDangKy", "DanhSachCho"}
                  /\ new.monHoc = old.monHoc /\ new.phu = old.phu
<1>1. w.row.sv \in Students /\ w.row.lhp \in Sections /\ w.lhp \in Sections
    BY DEF WriteOfRows, WriteOp, PendingRow
<1>2. dangKy \in Table
    BY DEF TablesType
<1>3. CASE w.op \in {"confirm", "wait"}
    <2>1. PICK st \in {"DaDangKy", "DanhSachCho"} :
              dangKy' = SetTrangThai(dangKy, w.row.sv, w.row.lhp, st)
        BY <1>3 DEF Executed
    <2>2. st \in TrangThai
        BY DEF TrangThai
    <2>3. LET new == dangKy'[s][l]
          IN  /\ ~(s = w.row.sv /\ l = w.row.lhp) => new = dangKy[s][l]
              /\ s = w.row.sv /\ l = w.row.lhp =>
                     /\ new.trangThai = st
                     /\ new.monHoc = dangKy[s][l].monHoc /\ new.phu = dangKy[s][l].phu
        BY <1>1, <1>2, <2>1, <2>2, SetFields
    <2>4. w.lhp = w.row.lhp
        BY <1>3 DEF WritesInPlace
    <2> QED BY <1>3, <2>3, <2>4
<1>4. CASE w.op = "move"
    <2> DEFINE t == DeleteRow(dangKy, w.row.sv, w.row.lhp)
    <2>1. t \in Table /\ t[s][l] = IF s = w.row.sv /\ l = w.row.lhp THEN NoRow ELSE dangKy[s][l]
        BY <1>1, <1>2, DeletedRow
    <2>2. dangKy' = InsertRow(t, w.row.sv, w.lhp, "DaDangKy", NoSection)
        BY <1>4 DEF Executed
    <2> HIDE DEF t
    <2>3. "DaDangKy" \in TrangThai /\ NoSection \in Sections \union {NoSection}
        BY DEF TrangThai
    <2>4. dangKy'[s][l] =
              IF s = w.row.sv /\ l = w.lhp
              THEN [trangThai |-> "DaDangKy", monHoc |-> CourseOf[w.lhp], phu |-> NoSection]
              ELSE t[s][l]
        BY <1>1, <2>1, <2>2, <2>3, InsertedRow
    <2> QED BY <1>4, <2>1, <2>4
<1>5. CASE w.op = "count"
    BY <1>5 DEF Executed
<1> QED BY <1>3, <1>4, <1>5 DEF Executed

\* The rows after a request.
LEMMA RequestFields ==
    ASSUME TypeInv, NEW d \in inbox, DangKyMonHoc(d) \/ HuyXoa(d),
           NEW s \in Students, NEW l \in Sections
    PROVE  LET q == d[1]
               new == dangKy'[s][l]
           IN  \/ ~(s = q.sv /\ l = q.lhp) /\ new = dangKy[s][l]
               \/ s = q.sv /\ l = q.lhp /\ HuyXoa(d) /\ new = NoRow
               \/ /\ s = q.sv /\ l = q.lhp /\ DangKyMonHoc(d)
                  /\ new.trangThai = "ChoXuLy" /\ new.monHoc = CourseOf[l]
                  /\ Wished(sent, s, l) /\ SameCourse(l, new.phu)
<1> DEFINE q == d[1]
<1>1. dangKy \in Table /\ CallsType
    BY TypeParts DEF TablesType
<1>2. /\ q \in sent /\ q.sv \in Students /\ q.lhp \in Sections
      /\ q.phu \in Sections \union {NoSection}
    BY <1>1, DeliveryType
<1>3. CASE DangKyMonHoc(d)
    <2>1. q.kind = "DANG_KY" /\ PhuHopLe(q)
        BY <1>3 DEF DangKyMonHoc
    <2>2. PICK phu \in {q.phu, NoSection} :
              dangKy' = InsertRow(dangKy, q.sv, q.lhp, "ChoXuLy", phu)
        BY <1>3 DEF DangKyMonHoc
    <2>3. "ChoXuLy" \in TrangThai /\ phu \in Sections \union {NoSection}
        BY <1>2 DEF TrangThai
    <2>4. dangKy'[s][l] =
              IF s = q.sv /\ l = q.lhp
              THEN [trangThai |-> "ChoXuLy", monHoc |-> CourseOf[q.lhp], phu |-> phu]
              ELSE dangKy[s][l]
        BY <1>1, <1>2, <2>2, <2>3, InsertedRow
    <2>5. Wished(sent, q.sv, q.lhp) /\ SameCourse(q.lhp, phu)
        BY <1>2, <2>1 DEF Wished, SameCourse, PhuHopLe
    <2> QED BY <1>3, <2>4, <2>5
<1>4. CASE HuyXoa(d)
    <2>1. dangKy' = DeleteRow(dangKy, q.sv, q.lhp)
        BY <1>4 DEF HuyXoa
    <2> HIDE DEF q
    <2>2. dangKy'[s][l] = IF s = q.sv /\ l = q.lhp THEN NoRow ELSE dangKy[s][l]
        BY <1>1, <1>2, <2>1, DeletedRow
    <2> QED BY <1>4, <2>2 DEF q
<1> QED BY <1>3, <1>4

-----------------------------------------------------------------------------
(***************************************************************************)
(* Wishes on file and the rows of batches                                  *)
(***************************************************************************)

\* A pending row was wished for as a primary section, and the alternative of
\* any row is of its course; so it is with the rows a batch remembers.
TableFiled ==
    \A sv \in Students, lhp \in Sections :
        /\ dangKy[sv][lhp].trangThai = "ChoXuLy" => Wished(sent, sv, lhp)
        /\ SameCourse(lhp, dangKy[sv][lhp].phu)

RowsFiled == \A b \in Batches : GoodRows(sent, batch[b].rows)

FiledInv == ShapeInv /\ TableFiled /\ RowsFiled

\* What a step may do to a row with its wish on file.
LEMMA FiledKept ==
    ASSUME TableFiled, sent \subseteq sent',
           \A s \in Students, l \in Sections :
               LET old == dangKy[s][l]
                   new == dangKy'[s][l]
               IN  \/ new = old
                   \/ new.trangThai # "ChoXuLy" /\ new.phu \in {old.phu, NoSection}
                   \/ Wished(sent, s, l) /\ SameCourse(l, new.phu)
    PROVE  TableFiled'
<1>1. SUFFICES ASSUME NEW s \in Students, NEW l \in Sections
               PROVE  /\ dangKy'[s][l].trangThai = "ChoXuLy" => Wished(sent', s, l)
                      /\ SameCourse(l, dangKy'[s][l].phu)
    BY DEF TableFiled
<1>2. Wished(sent, s, l) => Wished(sent', s, l)
    BY DEF Wished
<1> QED BY <1>2 DEF TableFiled, SameCourse

\* A batch that scans nothing new.
LEMMA RowsStay ==
    ASSUME NEW old, NEW new, old \subseteq new, NEW rows, GoodRows(old, rows),
           NEW fewer, fewer \subseteq rows
    PROVE  GoodRows(new, fewer)
BY DEF GoodRows, Wished

\* A batch after its scan.
LEMMA RowsScanned ==
    ASSUME TableFiled
    PROVE  GoodRows(sent, ChoXuLyRows)
<1> DEFINE keys == {k \in Students \X Sections : dangKy[k[1]][k[2]].trangThai = "ChoXuLy"}
           rowOf(k) == [sv |-> k[1], lhp |-> k[2], phu |-> dangKy[k[1]][k[2]].phu]
<1>1. \A r \in ChoXuLyRows : \E k \in keys : r = rowOf(k)
    BY DEF ChoXuLyRows
<1>2. \A r \in ChoXuLyRows : Wished(sent, r.sv, r.lhp) /\ SameCourse(r.lhp, r.phu)
    <2> SUFFICES ASSUME NEW r \in ChoXuLyRows
                 PROVE  Wished(sent, r.sv, r.lhp) /\ SameCourse(r.lhp, r.phu)
        OBVIOUS
    <2>1. PICK k \in keys : r = rowOf(k)
        BY <1>1
    <2> QED BY <2>1 DEF TableFiled
<1>3. \A r1, r2 \in ChoXuLyRows : r1.sv = r2.sv /\ r1.lhp = r2.lhp => r1 = r2
    BY <1>1
<1> QED BY <1>2, <1>3 DEF GoodRows

\* No rows, no batches: nothing to be on file.
LEMMA FiledInit == Init => FiledInv
<1> SUFFICES ASSUME Init PROVE FiledInv
    OBVIOUS
<1>1. TableFiled
    BY DEF Init, TableFiled, SameCourse, NoRow
<1>2. RowsFiled
    BY DEF Init, RowsFiled, GoodRows, Idle
<1> QED BY <1>1, <1>2, ShapeInit DEF FiledInv

\* Every step keeps the wishes on file.
LEMMA FiledStep == FiledInv /\ [Next]_vars => FiledInv'
<1> SUFFICES ASSUME FiledInv, [Next]_vars PROVE FiledInv'
    OBVIOUS
<1>1. ShapeInv' /\ TypeInv /\ TablesType /\ BatchesType
    BY ShapeStep, TypeParts DEF FiledInv, ShapeInv
<1>2. sent \subseteq sent'
    BY SentGrows DEF vars
<1>3. CASE UNCHANGED <<dangKy, batch>>
    <2>1. TableFiled'
        BY <1>2, <1>3, FiledKept DEF FiledInv
    <2>2. RowsFiled'
        BY <1>2, <1>3, RowsStay DEF FiledInv, RowsFiled
    <2> QED BY <1>1, <2>1, <2>2 DEF FiledInv
<1>4. ASSUME NEW d \in inbox, DangKyMonHoc(d) \/ HuyXoa(d)
      PROVE  FiledInv'
    <2>1. UNCHANGED batch
        BY <1>4 DEF DangKyMonHoc, HuyXoa
    <2>2. RowsFiled'
        BY <1>2, <2>1, RowsStay DEF FiledInv, RowsFiled
    <2>3. ASSUME NEW s \in Students, NEW l \in Sections
          PROVE  LET old == dangKy[s][l]
                     new == dangKy'[s][l]
                 IN  \/ new = old
                     \/ new.trangThai # "ChoXuLy" /\ new.phu \in {old.phu, NoSection}
                     \/ Wished(sent, s, l) /\ SameCourse(l, new.phu)
        BY <1>1, <1>4, RequestFields DEF NoRow
    <2>4. TableFiled'
        BY <1>2, <2>3, FiledKept DEF FiledInv
    <2> QED BY <1>1, <2>2, <2>4 DEF FiledInv
<1>5. ASSUME NEW b \in Batches, BatchStep(b)
      PROVE  FiledInv'
    <2> DEFINE loc == batch[b]
    <2>1. PICK new : batch' = [batch EXCEPT ![b] = new] /\ Effect(loc, new)
        BY <1>5, BatchEffect DEF FiledInv
    <2>2. GoodLocals(loc) /\ loc.rows \in SUBSET PendingRow /\ WritesInPlace(loc.writes)
        BY <1>1 DEF BatchesType, GoodLocals, BatchType, FiledInv, ShapeInv, ShapeLocals
    <2>3. \A c \in Batches : batch'[c] = IF c = b THEN new ELSE batch[c]
        BY <1>1, <2>1 DEF BatchesType
    <2>4. GoodRows(sent', new.rows)
        <3>1. CASE new.rows \subseteq loc.rows
            BY <1>2, <3>1, RowsStay DEF FiledInv, RowsFiled
        <3>2. CASE new.rows = ChoXuLyRows
            BY <1>2, <3>2, RowsScanned, RowsStay DEF FiledInv
        <3> QED BY <2>1, <3>1, <3>2 DEF Effect, RowsFrom
    <2>5. \A c \in Batches : GoodRows(sent', batch'[c].rows)
        BY <1>2, <2>3, <2>4, RowsStay DEF FiledInv, RowsFiled
    <2>6. TableFiled'
        <3>1. CASE UNCHANGED dangKy
            BY <1>2, <3>1, FiledKept DEF FiledInv
        <3>2. ASSUME NEW r \in loc.toReject, dangKy' = SetTrangThai(dangKy, r.sv, r.lhp, "TuChoi")
              PROVE  TableFiled'
            <4>1. r.sv \in Students /\ r.lhp \in Sections /\ "TuChoi" \in TrangThai /\ dangKy \in Table
                BY <1>1, <2>2 DEF GoodLocals, PendingRow, TrangThai, TablesType
            <4>2. ASSUME NEW s \in Students, NEW l \in Sections
                  PROVE  \/ dangKy'[s][l] = dangKy[s][l]
                         \/ dangKy'[s][l].trangThai = "TuChoi" /\ dangKy'[s][l].phu = dangKy[s][l].phu
                BY <3>2, <4>1, SetFields
            <4> QED BY <1>2, <4>2, FiledKept DEF FiledInv
        <3>3. ASSUME NEW w \in loc.writes, Executed(w)
              PROVE  TableFiled'
            <4>1. WriteOfRows(loc.rows, w) /\ WritesInPlace({w})
                BY <2>2 DEF GoodLocals, WritesInPlace
            <4>2. ASSUME NEW s \in Students, NEW l \in Sections
                  PROVE  LET old == dangKy[s][l]
                             new2 == dangKy'[s][l]
                         IN  \/ new2 = old
                             \/ new2.trangThai # "ChoXuLy" /\ new2.phu \in {old.phu, NoSection}
                <5> DEFINE old == dangKy[s][l]
                           now == dangKy'[s][l]
                <5>1. \/ now = old
                      \/ /\ w.op = "move" /\ s = w.row.sv /\ l = w.lhp
                         /\ now = [trangThai |-> "DaDangKy", monHoc |-> CourseOf[l], phu |-> NoSection]
                      \/ w.op = "move" /\ s = w.row.sv /\ l = w.row.lhp /\ now = NoRow
                      \/ /\ w.op \in {"confirm", "wait"} /\ s = w.row.sv /\ l = w.row.lhp
                         /\ now.trangThai \in {"DaDangKy", "DanhSachCho"}
                         /\ now.monHoc = old.monHoc /\ now.phu = old.phu
                    BY <1>1, <2>2, <3>3, <4>1, ExecutedFields
                <5> QED BY <5>1 DEF NoRow
            <4> QED BY <1>2, <4>2, FiledKept DEF FiledInv
        <3>4. \/ UNCHANGED dangKy
              \/ \E r \in loc.toReject : dangKy' = SetTrangThai(dangKy, r.sv, r.lhp, "TuChoi")
              \/ \E w \in loc.writes : Executed(w)
            BY <2>1 DEF Effect, Moves, Learns, Queues, Writes, tables
        <3> QED BY <3>1, <3>2, <3>3, <3>4
    <2> QED BY <1>1, <2>5, <2>6 DEF FiledInv, RowsFiled
<1>6. ASSUME NEW r \in Replicas, Crash(r)
      PROVE  FiledInv'
    <2>1. UNCHANGED dangKy /\ \A b \in Batches : batch'[b].rows \subseteq batch[b].rows
        BY <1>6 DEF Crash, tables, Idle
    <2>2. TableFiled'
        BY <1>2, <2>1, FiledKept DEF FiledInv
    <2>3. RowsFiled'
        BY <1>2, <2>1, RowsStay DEF FiledInv, RowsFiled
    <2> QED BY <1>1, <2>2, <2>3 DEF FiledInv
<1>7. \/ UNCHANGED <<dangKy, batch>>
      \/ \E d \in inbox : DangKyMonHoc(d) \/ HuyXoa(d)
      \/ \E b \in Batches : BatchStep(b)
      \/ \E r \in Replicas : Crash(r)
    BY DEF Next, vars, Send, Drop, HuyTru, tables
<1> QED BY <1>3, <1>4, <1>5, <1>6, <1>7

\* A batch gives a student a course once, whatever other batches do, if the
\* wishes allow the optimizer to remember it.
OnceInv == \A b \in Batches : OnceLocals(batch[b])

\* The optimizer remembers enough for the rows of every batch.
BatchesRemembered == \A b \in Batches : RowsRemembered(batch[b].rows)

\* Wishes the optimizer remembers make rows it remembers.
LEMMA WishesRemembered ==
    ASSUME OneCourseRemembered, FiledInv
    PROVE  BatchesRemembered
<1>1. CallsType
    BY TypeParts DEF FiledInv, ShapeInv
<1> QED BY <1>1, RememberedRows DEF FiledInv, RowsFiled, CallsType, BatchesRemembered

\* No batch has given anything.
LEMMA OnceInit == Init => OnceInv
<1> SUFFICES ASSUME Init PROVE OnceInv
    OBVIOUS
<1>1. Idle.pc = "idle" /\ Idle.rows = {} /\ Idle.plan = NoPlan /\ Idle.writes = {}
    BY DEF Idle
<1>2. \A b \in Batches : batch[b] = Idle
    BY DEF Init
<1> QED BY <1>1, <1>2, QuietLocals DEF OnceInv

\* Every step keeps it that a batch gives a course once.
LEMMA OnceStep ==
    BatchesRemembered /\ FiledInv /\ OnceInv /\ [Next]_vars => OnceInv'
<1> SUFFICES ASSUME BatchesRemembered, FiledInv, OnceInv, [Next]_vars PROVE OnceInv'
    OBVIOUS
<1>1. CallsType /\ BatchesType
    BY TypeParts DEF FiledInv, ShapeInv
<1>2. CASE UNCHANGED batch
    BY <1>2 DEF OnceInv
<1>3. ASSUME NEW b \in Batches, BatchStep(b)
      PROVE  OnceInv'
    <2>1. PICK new : batch' = [batch EXCEPT ![b] = new] /\ Effect(batch[b], new)
        BY <1>3, BatchEffect DEF FiledInv
    <2>2. RowsRemembered(batch[b].rows)
        BY DEF BatchesRemembered
    <2>3. OnceLocals(new)
        BY <2>1, <2>2 DEF Effect, OnceInv
    <2>4. \A c \in Batches : batch'[c] = IF c = b THEN new ELSE batch[c]
        BY <1>1, <2>1 DEF BatchesType
    <2> QED BY <2>3, <2>4 DEF OnceInv
<1>4. ASSUME NEW r \in Replicas, Crash(r)
      PROVE  OnceInv'
    <2>1. \A b \in Batches : batch'[b] = Idle \/ batch'[b] = batch[b]
        BY <1>4 DEF Crash
    <2>2. Idle.pc = "idle" /\ Idle.rows = {} /\ Idle.plan = NoPlan /\ Idle.writes = {}
        BY DEF Idle
    <2>3. OnceLocals(Idle)
        BY <2>2, QuietLocals
    <2> QED BY <2>1, <2>3 DEF OnceInv
<1>5. \/ UNCHANGED batch
      \/ \E b \in Batches : BatchStep(b)
      \/ \E r \in Replicas : Crash(r)
    BY DEF Next, vars, Send, Drop, DangKyMonHoc, HuyXoa, HuyTru
<1> QED BY <1>2, <1>3, <1>4, <1>5

\* A statement is about a section of the course of its row.
LEMMA WriteCourse ==
    ASSUME NEW rows, GoodRows(sent, rows), NEW w, WriteOfRows(rows, w)
    PROVE  CourseOf[w.lhp] = CourseOf[w.row.lhp]
BY ConstantsAssumption DEF GoodRows, WriteOfRows, WriteOp, SameCourse

\* The counts of one batch for a section are of different students.
LEMMA OneBatchLoss ==
    ASSUME OneBatch, FiledInv, OnceInv
    PROVE  LossBounded
<1>1. SUFFICES ASSUME NEW lhp \in Sections
               PROVE  Cardinality(StatementsOf(batch, {"count"}, lhp)) <= Cardinality(Students)
    BY DEF LossBounded
<1> DEFINE S == StatementsOf(batch, {"count"}, lhp)
           f == [o \in S |-> o[2].row.sv]
<1>2. BatchesType
    BY TypeParts DEF FiledInv, ShapeInv
<1>3. ASSUME NEW o \in S
      PROVE  \E b \in Batches : \E w \in batch[b].writes :
                 /\ o = <<b, w>> /\ w.op = "count" /\ w.row.sv \in Students
                 /\ CourseOf[w.row.lhp] = CourseOf[lhp]
    <2> PICK b \in Batches : \E w \in batch[b].writes :
                o = <<b, w>> /\ w.op \in {"count"} /\ w.lhp = lhp
        BY StatementIn
    <2>1. PICK w \in batch[b].writes : o = <<b, w>> /\ w.op = "count" /\ w.lhp = lhp
        OBVIOUS
    <2>2. WriteOfRows(batch[b].rows, w) /\ GoodRows(sent, batch[b].rows)
        BY <1>2 DEF BatchesType, GoodLocals, FiledInv, RowsFiled
    <2>3. CourseOf[w.row.lhp] = CourseOf[lhp]
        BY <2>1, <2>2, WriteCourse
    <2>4. w.row.sv \in Students
        BY <2>2 DEF WriteOfRows, WriteOp, PendingRow
    <2> QED BY <2>1, <2>3, <2>4
<1>4. f \in [S -> Students]
    BY <1>3
<1>5. \A x, y \in S : f[x] = f[y] => x = y
    <2> SUFFICES ASSUME NEW x \in S, NEW y \in S, x[2].row.sv = y[2].row.sv
                 PROVE  x = y
        OBVIOUS
    <2> PICK b \in Batches : \E w \in batch[b].writes :
                x = <<b, w>> /\ w.op = "count" /\ CourseOf[w.row.lhp] = CourseOf[lhp]
        BY <1>3
    <2> PICK c \in Batches : \E v \in batch[c].writes :
                y = <<c, v>> /\ v.op = "count" /\ CourseOf[v.row.lhp] = CourseOf[lhp]
        BY <1>3
    <2>1. PICK w \in batch[b].writes :
              x = <<b, w>> /\ w.op = "count" /\ CourseOf[w.row.lhp] = CourseOf[lhp]
        OBVIOUS
    <2>2. PICK v \in batch[c].writes :
              y = <<c, v>> /\ v.op = "count" /\ CourseOf[v.row.lhp] = CourseOf[lhp]
        OBVIOUS
    <2>3. b = c
        BY DEF OneBatch
    <2>4. WritesOnce(batch[b].writes)
        BY DEF OnceInv, OnceLocals
    <2> QED BY <2>1, <2>2, <2>3, <2>4 DEF WritesOnce, SameOwner
<1> HIDE DEF f, S
<1>6. Cardinality(S) <= Cardinality(Students)
    BY <1>4, <1>5, FinitenessAssumption, NotLarger
<1> QED BY <1>6 DEF S

-----------------------------------------------------------------------------
(***************************************************************************)
(* The seats of a section                                                  *)
(***************************************************************************)

\* While no statement has failed, the counted seats of a section, those about
\* to be counted and those a plan disposes of are no more than it has.  A
\* failed read of the counter promises seats that are taken.
Fits(lhp) ==
    failures = 0 =>
        LET counted == counter[lhp] + Cardinality(StatementsOf(batch, {"count"}, lhp))
        IN  /\ counted <= SoLuongToiDa[lhp]
            /\ \A b \in Batches : counted + SeatsOf(batch[b].plan, lhp) <= SoLuongToiDa[lhp]

FitInv == \A lhp \in Sections : Fits(lhp)

\* The seats of a plan are a number.
LEMMA SeatsNumber ==
    ASSUME NEW plan \in Plan, SeatsLeft(plan), NEW lhp \in Sections
    PROVE  /\ SeatsOf(plan, lhp) \in Nat /\ Cardinality(SeatsTaken(plan, lhp)) \in Nat
           /\ Cardinality(SeatsTaken(plan, lhp)) <= SeatsOf(plan, lhp)
<1>1. plan.capLeft[lhp] \in Nat
    BY DEF Plan, SeatsLeft
<1> QED BY <1>1, SeatsTakenFinite DEF SeatsOf

\* A step after which no more is counted, about to be counted or at a plan's
\* disposal.
LEMMA FitKept ==
    ASSUME NEW lhp \in Sections, Fits(lhp), failures' = 0 => failures = 0,
           NEW counted \in Int, NEW countedNow \in Int, countedNow <= counted,
           counted = counter[lhp] + Cardinality(StatementsOf(batch, {"count"}, lhp)),
           countedNow = counter'[lhp] + Cardinality(StatementsOf(batch', {"count"}, lhp)),
           \A b \in Batches : SeatsOf(batch[b].plan, lhp) \in Nat /\ SeatsOf(batch'[b].plan, lhp) \in Nat,
           \A b \in Batches : SeatsOf(batch'[b].plan, lhp) <= SeatsOf(batch[b].plan, lhp)
    PROVE  Fits(lhp)'
<1>1. SoLuongToiDa[lhp] \in Nat
    BY ConstantsAssumption
<1>2. SUFFICES ASSUME failures' = 0
               PROVE  /\ countedNow <= SoLuongToiDa[lhp]
                      /\ \A b \in Batches :
                             countedNow + SeatsOf(batch'[b].plan, lhp) <= SoLuongToiDa[lhp]
    BY DEF Fits
<1>3. /\ counted <= SoLuongToiDa[lhp]
      /\ \A b \in Batches : counted + SeatsOf(batch[b].plan, lhp) <= SoLuongToiDa[lhp]
    BY <1>2 DEF Fits
<1> QED BY <1>1, <1>3

\* The only batch: what it counts and its plan are all there is.
LEMMA FitAlone ==
    ASSUME OneBatch, NEW b \in Batches, NEW lhp \in Sections,
           NEW counted \in Int, NEW seats \in Nat, counted + seats <= SoLuongToiDa[lhp],
           counted = counter'[lhp] + Cardinality(StatementsOf(batch', {"count"}, lhp)),
           seats = SeatsOf(batch'[b].plan, lhp)
    PROVE  Fits(lhp)'
<1>1. \A c \in Batches : c = b
    BY DEF OneBatch
<1>2. counted <= SoLuongToiDa[lhp]
    BY ConstantsAssumption
<1> QED BY <1>1, <1>2 DEF Fits

\* The steps of a batch.
LEMMA BatchFit ==
    ASSUME OneBatch, ShapeInv, ShapeInv', FitInv, NEW b \in Batches, BatchStep(b),
           NEW lhp \in Sections
    PROVE  Fits(lhp)'
<1> DEFINE loc == batch[b]
           N == Cardinality(StatementsOf(batch, {"count"}, lhp))
           newN == Cardinality(StatementsOf(batch', {"count"}, lhp))
           seats == SeatsOf(loc.plan, lhp)
           max == SoLuongToiDa[lhp]
<1>1. /\ TablesType /\ BatchesType /\ GoodLocals(loc) /\ ShapeLocals(loc)
      /\ BoundsType /\ counter[lhp] \in Int
    BY TypeParts DEF ShapeInv, BatchesType, TablesType
<1>2. PICK new : batch' = [batch EXCEPT ![b] = new] /\ Effect(loc, new)
    BY BatchEffect
<1>3. \A c \in Batches : batch'[c] = IF c = b THEN new ELSE batch[c]
    BY <1>1, <1>2 DEF BatchesType
<1>4. /\ \A c \in Batches : IsFiniteSet(batch[c].writes) /\ IsFiniteSet(batch'[c].writes)
    BY DEF ShapeInv, ShapeLocals
<1>5. N \in Nat /\ newN \in Nat
    BY <1>4, StatementsFinite
<1>6. loc.plan \in Plan /\ SeatsLeft(loc.plan) /\ seats \in Nat /\ max \in Nat
    BY <1>1, SeatsNumber, ConstantsAssumption DEF GoodLocals, BatchType
<1>7. failures' = 0 => failures = 0 /\ ~StatementFails
    <2>1. failures \in Nat /\ (UNCHANGED failures \/ failures' = failures + 1)
        BY <1>1, <1>2, ConstantsAssumption
        DEF BoundsType, Effect, Moves, Learns, Queues, Writes, StatementFails
    <2> QED BY <2>1 DEF StatementFails
<1>8. SUFFICES ASSUME failures' = 0
               PROVE  Fits(lhp)'
    BY DEF Fits
<1>9. counter[lhp] + N + seats <= max /\ counter[lhp] + N <= max
    BY <1>7, <1>8 DEF FitInv, Fits
<1>10. new = batch'[b]
    BY <1>3
<1>11. new.writes = loc.writes => newN = N
    <2>1. new.writes = loc.writes => \A c \in Batches : batch'[c].writes = batch[c].writes
        BY <1>3
    <2> QED BY <2>1, StatementsKept
<1>12. CASE Moves(loc, new)
    <2>1. newN = N /\ counter'[lhp] = counter[lhp] /\ SeatsOf(new.plan, lhp) = seats
        BY <1>11, <1>12 DEF Moves
    <2> HIDE DEF N, newN, seats, max
    <2>2. counter[lhp] + N \in Int /\ counter[lhp] + N + seats <= max
        BY <1>1, <1>5, <1>9
    <2> QED BY <1>6, <1>10, <2>1, <2>2, FitAlone DEF newN, max
<1>13. CASE Learns(loc, new)
    <2>1. PICK s \in Sections, n \in Nat :
              /\ SeatsOf(new.plan, lhp) = IF lhp = s THEN n ELSE seats
              /\ n = SlotConLai(s) \/ StatementFails
        BY <1>13 DEF Learns
    <2>2. newN = N /\ counter'[lhp] = counter[lhp]
        BY <1>11, <1>13 DEF Learns, tables
    <2>3. N = 0
        <3>1. \A c \in Batches : batch[c].writes = {}
            BY <1>1, <1>13 DEF Learns, ShapeLocals, OneBatch
        <3>2. StatementsOf(batch, {"count"}, lhp) = {}
            BY <3>1 DEF StatementsOf
        <3>3. Cardinality({}) = 0
            BY FS_EmptySet
        <3> QED BY <3>2, <3>3
    <2>4. lhp = s => n = IF max - counter[lhp] < 0 THEN 0 ELSE max - counter[lhp]
        BY <1>7, <1>8, <2>1 DEF SlotConLai
    <2> DEFINE nowSeats == SeatsOf(new.plan, lhp)
    <2>5. nowSeats \in Nat
        BY <1>6, <2>1
    <2> HIDE DEF N, newN, seats, max, nowSeats
    <2>6. counter[lhp] + N + nowSeats <= max
        <3>1. CASE lhp = s
            <4>1. nowSeats = n
                BY <2>1, <3>1 DEF nowSeats
            <4> QED BY <1>1, <1>6, <1>9, <2>3, <2>4, <3>1, <4>1
        <3>2. CASE lhp # s
            <4>1. nowSeats = seats
                BY <2>1, <3>2 DEF nowSeats
            <4> QED BY <1>9, <4>1
        <3> QED BY <3>1, <3>2
    <2>7. counter[lhp] + N \in Int /\ counter[lhp] + N = counter'[lhp] + newN
        BY <1>1, <1>5, <2>2
    <2> QED BY <1>10, <2>5, <2>6, <2>7, FitAlone DEF newN, max, nowSeats
<1>14. CASE Queues(loc, new)
    <2>1. PICK plan \in Plan :
              /\ SeatsLeft(plan)
              /\ new.writes = WritesOf(loc, plan)
              /\ SeatsOf(plan, lhp) = seats
        BY <1>14 DEF Queues
    <2> DEFINE W == WritesOf(loc, plan)
               taken == Cardinality(SeatsTaken(plan, lhp))
    <2>2. loc.writes = {} /\ new.plan = NoPlan /\ UNCHANGED counter
        BY <1>14 DEF Queues, tables
    <2>3. IsFiniteSet(W)
        BY WritesOfShape
    <2>4. \A c \in Batches : batch'[c].writes = IF c = b THEN W ELSE batch[c].writes
        BY <1>3, <2>1
    <2>5. Cardinality(Selected(W, {"count"}, lhp)) = taken
        BY WritesOfCount
    <2>6. newN = N + Cardinality(Selected(W, {"count"}, lhp))
        <3> HIDE DEF W
        <3> QED BY <1>4, <2>2, <2>3, <2>4, StatementsQueued
    <2>7. taken \in Nat /\ taken <= seats
        BY <2>1, SeatsNumber
    <2>8. SeatsOf(new.plan, lhp) = 0
        BY <2>2, NoPlanSeats
    <2> HIDE DEF N, newN, seats, max, W, taken
    <2>9. counter'[lhp] + newN \in Int /\ counter'[lhp] + newN + 0 <= max
        BY <1>1, <1>5, <1>6, <1>9, <2>2, <2>5, <2>6, <2>7
    <2> QED BY <1>10, <2>8, <2>9, FitAlone DEF newN, max
<1>15. CASE Writes(loc, new)
    <2>1. PICK w \in loc.writes : new.writes = loc.writes \ {w} /\ Executed(w)
        BY <1>7, <1>8, <1>15 DEF Writes
    <2>2. SeatsOf(new.plan, lhp) = 0
        BY <1>15, NoPlanSeats DEF Writes
    <2>3. /\ w.op \in {"count"} /\ w.lhp = lhp => newN = N - 1
          /\ ~(w.op \in {"count"} /\ w.lhp = lhp) => newN = N
        <3>1. w \in batch[b].writes
            OBVIOUS
        <3>2. /\ batch'[b].writes = batch[b].writes \ {w}
              /\ \A c \in Batches \ {b} : batch'[c].writes = batch[c].writes
            BY <1>3, <2>1
        <3> HIDE DEF loc
        <3> QED BY <1>4, <3>1, <3>2, StatementGone
    <2>4. w.lhp \in Sections /\ counter \in [Sections -> Int]
        BY <1>1 DEF GoodLocals, WriteOfRows, WriteOp, TablesType
    <2>5. CASE w.op = "count"
        <3>1. counter' = [counter EXCEPT ![w.lhp] = @ + 1]
            BY <2>1, <2>5 DEF Executed
        <3>2. counter'[lhp] = IF w.lhp = lhp THEN counter[lhp] + 1 ELSE counter[lhp]
            BY <2>4, <3>1
        <3> HIDE DEF N, newN, seats, max
        <3>3. counter'[lhp] + newN \in Int /\ counter'[lhp] + newN + 0 <= max
            BY <1>1, <1>5, <1>6, <1>9, <2>3, <2>5, <3>2
        <3> QED BY <1>10, <2>2, <3>3, FitAlone DEF newN, max
    <2>6. CASE w.op # "count"
        <3>1. counter'[lhp] = counter[lhp] /\ newN = N
            BY <2>1, <2>3, <2>6 DEF Executed
        <3> HIDE DEF N, newN, seats, max
        <3>2. counter'[lhp] + newN \in Int /\ counter'[lhp] + newN + 0 <= max
            BY <1>1, <1>5, <1>6, <1>9, <3>1
        <3> QED BY <1>10, <2>2, <3>2, FitAlone DEF newN, max
    <2> QED BY <2>5, <2>6
<1> QED BY <1>2, <1>12, <1>13, <1>14, <1>15 DEF Effect

\* No seat is counted at the start.
LEMMA FitInit == Init => FitInv
<1> SUFFICES ASSUME Init, NEW lhp \in Sections PROVE Fits(lhp)
    BY DEF FitInv
<1>1. counter[lhp] = 0 /\ \A b \in Batches : batch[b] = Idle
    BY DEF Init
<1>2. Idle.writes = {} /\ Idle.plan = NoPlan
    BY DEF Idle
<1>3. StatementsOf(batch, {"count"}, lhp) = {} /\ Cardinality({}) = 0
    BY <1>1, <1>2, FS_EmptySet DEF StatementsOf
<1>4. Cardinality(StatementsOf(batch, {"count"}, lhp)) = 0
    BY <1>3
<1>5. \A b \in Batches : SeatsOf(batch[b].plan, lhp) = 0
    BY <1>1, <1>2, NoPlanSeats
<1>6. SoLuongToiDa[lhp] \in Nat
    BY ConstantsAssumption
<1> QED BY <1>1, <1>4, <1>5, <1>6 DEF Fits

\* Every step keeps the seats of a section within its number.
LEMMA FitStep ==
    ASSUME OneBatch
    PROVE  ShapeInv /\ FitInv /\ [Next]_vars => FitInv'
<1> SUFFICES ASSUME ShapeInv, FitInv, [Next]_vars, NEW lhp \in Sections PROVE Fits(lhp)'
    BY DEF FitInv
<1>1. ShapeInv' /\ TypeInv /\ TablesType /\ CallsType /\ BatchesType /\ BoundsType
    BY ShapeStep, TypeParts DEF ShapeInv
<1>2. CASE UNCHANGED <<batch, failures>> /\ counter'[lhp] \in Int /\ counter'[lhp] <= counter[lhp]
    <2> DEFINE N == Cardinality(StatementsOf(batch, {"count"}, lhp))
               counted == counter[lhp] + N
               countedNow == counter'[lhp] + N
    <2>1. N \in Nat
        BY StatementsFinite DEF ShapeInv, ShapeLocals
    <2>2. counter[lhp] \in Int
        BY <1>1 DEF TablesType
    <2> HIDE DEF N
    <2>3. counted \in Int /\ countedNow \in Int /\ countedNow <= counted
        BY <1>2, <2>1, <2>2
    <2>4. SoLuongToiDa[lhp] \in Nat
        BY ConstantsAssumption
    <2>5. \A b \in Batches : SeatsOf(batch[b].plan, lhp) \in Nat
        BY <1>1, SeatsNumber DEF BatchesType, GoodLocals, BatchType
    <2>6. failures = 0 =>
              /\ counted <= SoLuongToiDa[lhp]
              /\ \A b \in Batches : counted + SeatsOf(batch[b].plan, lhp) <= SoLuongToiDa[lhp]
        BY DEF FitInv, Fits, N
    <2>7. failures = 0 =>
              /\ countedNow <= SoLuongToiDa[lhp]
              /\ \A b \in Batches : countedNow + SeatsOf(batch[b].plan, lhp) <= SoLuongToiDa[lhp]
        BY <2>3, <2>4, <2>5, <2>6
    <2> QED BY <1>2, <2>7 DEF Fits, N
<1>3. CASE UNCHANGED vars
    BY <1>1, <1>2, <1>3 DEF vars, TablesType
<1>4. ASSUME NEW q \in Requests, Send(q)
      PROVE  Fits(lhp)'
    BY <1>1, <1>2, <1>4 DEF Send, tables, TablesType
<1>5. ASSUME NEW d \in inbox, Drop(d) \/ DangKyMonHoc(d) \/ HuyXoa(d)
      PROVE  Fits(lhp)'
    BY <1>1, <1>2, <1>5 DEF Drop, DangKyMonHoc, HuyXoa, tables, TablesType
<1>6. ASSUME NEW d \in huy, HuyTru(d)
      PROVE  Fits(lhp)'
    <2>1. counter \in [Sections -> Int] /\ d[1].lhp \in Sections /\ failures \in Nat
        BY <1>1, DeliveryType, ConstantsAssumption DEF TablesType, BoundsType
    <2>2. UNCHANGED batch
        BY <1>6 DEF HuyTru
    <2>3. CASE counter' = [counter EXCEPT ![d[1].lhp] = @ - 1] /\ UNCHANGED failures
        BY <1>2, <2>1, <2>2, <2>3
    <2>4. CASE StatementFails
        <3>1. failures' # 0
            BY <2>1, <2>4 DEF StatementFails
        <3> QED BY <3>1 DEF Fits
    <2> QED BY <1>6, <2>3, <2>4 DEF HuyTru
<1>7. ASSUME NEW b \in Batches, BatchStep(b)
      PROVE  Fits(lhp)'
    BY <1>1, <1>7, BatchFit
<1>8. ASSUME NEW r \in Replicas, Crash(r)
      PROVE  Fits(lhp)'
    <2> DEFINE N == Cardinality(StatementsOf(batch, {"count"}, lhp))
               newN == Cardinality(StatementsOf(batch', {"count"}, lhp))
               counted == counter[lhp] + N
               countedNow == counter'[lhp] + newN
    <2>1. UNCHANGED <<counter, failures>> /\ counter[lhp] \in Int
        BY <1>1, <1>8 DEF Crash, tables, TablesType
    <2>2. \A b \in Batches : batch'[b] = Idle \/ batch'[b] = batch[b]
        BY <1>8 DEF Crash
    <2>3. Idle.writes = {} /\ Idle.plan = NoPlan
        BY DEF Idle
    <2>4. \A b \in Batches : IsFiniteSet(batch[b].writes) /\ batch'[b].writes \subseteq batch[b].writes
        BY <2>2, <2>3 DEF ShapeInv, ShapeLocals
    <2>5. N \in Nat /\ newN \in Nat /\ newN <= N
        BY <2>4, StatementsFinite, StatementsFewer
    <2>6. \A b \in Batches : SeatsOf(batch[b].plan, lhp) \in Nat
        BY <1>1, SeatsNumber DEF BatchesType, GoodLocals, BatchType
    <2>7. SeatsOf(NoPlan, lhp) = 0
        BY NoPlanSeats
    <2>8. \A b \in Batches : /\ SeatsOf(batch'[b].plan, lhp) \in Nat
                             /\ SeatsOf(batch'[b].plan, lhp) <= SeatsOf(batch[b].plan, lhp)
        BY <2>2, <2>3, <2>6, <2>7
    <2> HIDE DEF N, newN
    <2>9. counted \in Int /\ countedNow \in Int /\ countedNow <= counted
        BY <2>1, <2>5
    <2>10. Fits(lhp)
        BY DEF FitInv
    <2> HIDE DEF counted, countedNow
    <2> QED BY <2>1, <2>6, <2>8, <2>9, <2>10, FitKept DEF N, newN, counted, countedNow
<1> QED BY <1>3, <1>4, <1>5, <1>6, <1>7, <1>8 DEF Next

\* Without a fault or a cancellation so far, no section is oversold.
LEMMA FitsNoOversell ==
    ASSUME LedgerInv, FitInv, NEW lhp \in Sections, failures = 0,
           crashes * Cardinality(Students) = 0, CancelsTaken(lhp) = {}
    PROVE  Cardinality(Confirmed(lhp)) <= SoLuongToiDa[lhp]
<1> DEFINE H == Cardinality(Holders(dangKy, lhp))
           M == Cardinality(StatementsOf(batch, {"confirm", "move"}, lhp))
           N == Cardinality(StatementsOf(batch, {"count"}, lhp))
           h == Cardinality(Halves(huy, lhp))
           Y == Cardinality(Taken(sent, inbox, lhp))
           C == crashes * Cardinality(Students)
<1>1. /\ H \in Nat /\ M \in Nat /\ N \in Nat /\ h \in Nat /\ counter[lhp] \in Int
    BY LedgerNumbers DEF LedgerInv
<1>2. H + M <= counter[lhp] + N - h + failures + C + Y
    BY LedgerSets DEF LedgerInv
<1>3. Y = 0
    <2>1. Taken(sent, inbox, lhp) = {} /\ Cardinality({}) = 0
        BY FS_EmptySet DEF CancelsTaken, Taken
    <2> QED BY <2>1
<1>4. counter[lhp] + N <= SoLuongToiDa[lhp] /\ SoLuongToiDa[lhp] \in Nat
    BY ConstantsAssumption DEF FitInv, Fits
<1>5. H = Cardinality(Confirmed(lhp))
    BY DEF Holders, Holds, Confirmed
<1>6. C = 0
    OBVIOUS
<1> HIDE DEF H, M, N, h, Y, C
<1> QED BY <1>1, <1>2, <1>3, <1>4, <1>5, <1>6

\* With one pod and one batch at a time, and without failures, stops and
\* cancellations, a section never has more confirmed students than seats,
\* however many wish for it.
THEOREM SeatsSuffice == OneBatch /\ NoFaults /\ NoCancellations => (Spec => []NoOversell)
<1> SUFFICES ASSUME OneBatch, NoFaults, NoCancellations PROVE Spec => []NoOversell
    OBVIOUS
<1> DEFINE Inv == LedgerInv /\ FitInv
<1>1. Init => Inv
    BY LedgerInit, FitInit
<1>2. Inv /\ [Next]_vars => Inv'
    <2> SUFFICES ASSUME Inv, [Next]_vars PROVE Inv'
        OBVIOUS
    <2>1. LossBounded
        <3>1. crashes \in Nat
            BY TypeParts, ConstantsAssumption DEF LedgerInv, ShapeInv, BoundsType
        <3> QED BY <3>1 DEF LossBounded, NoFaults
    <2> QED BY <2>1, LedgerStep, FitStep DEF LedgerInv
<1>3. Inv => NoOversell
    <2> SUFFICES ASSUME Inv, NEW lhp \in Sections
                 PROVE  Cardinality(Confirmed(lhp)) <= SoLuongToiDa[lhp]
        BY DEF NoOversell
    <2>1. TypeInv /\ BoundsType
        BY TypeParts DEF LedgerInv, ShapeInv
    <2>2. failures = 0 /\ crashes = 0
        BY <2>1 DEF BoundsType, NoFaults
    <2>3. CancelsTaken(lhp) = {}
        BY <2>1, NothingTaken
    <2>4. crashes * Cardinality(Students) = 0
        BY <2>2, FinitenessAssumption, FS_CardinalityType
    <2> QED BY <2>2, <2>3, <2>4, FitsNoOversell
<1> HIDE DEF Inv
<1> QED BY <1>1, <1>2, <1>3, PTL DEF Spec

-----------------------------------------------------------------------------
(***************************************************************************)
(* Many batches at a time                                                  *)
(***************************************************************************)

\* The seats of a section that each batch may still count: those its plan
\* disposes of and those its statements count.
Claims(batches, lhp) ==
    [b \in Batches |-> SeatsOf(batches[b].plan, lhp)
                         + Cardinality(Selected(batches[b].writes, {"count"}, lhp))]

\* Claims as a set of pairs, to count those of all batches together.
Claimed(f, lhp) == {c \in Batches \X (1..SoLuongToiDa[lhp]) : c[2] <= f[c[1]]}

ClaimsOfOthers(f, lhp, b) == {c \in Claimed(f, lhp) : c[1] # b}

\* Nobody cancels, and no batch claims more seats than the section has.
CrowdBound(lhp) ==
    /\ counter[lhp] \in Nat
    /\ Claims(batch, lhp) \in [Batches -> 0..SoLuongToiDa[lhp]]
    /\ counter[lhp] + Cardinality(Claimed(Claims(batch, lhp), lhp))
         <= Cardinality(Batches) * SoLuongToiDa[lhp]

CrowdInv == huy = {} /\ \A lhp \in Sections : CrowdBound(lhp)

\* The claims of all batches are those of one of them and of the others, and
\* the others have at most all seats of the section each.
LEMMA ClaimedApart ==
    ASSUME NEW lhp \in Sections, NEW f \in [Batches -> 0..SoLuongToiDa[lhp]], NEW b \in Batches
    PROVE  LET N == Cardinality(Claimed(f, lhp))
               R == Cardinality(ClaimsOfOthers(f, lhp, b))
               K == Cardinality(Batches)
           IN  /\ N \in Nat /\ R \in Nat /\ K \in Nat /\ K * SoLuongToiDa[lhp] \in Nat
               /\ N = R + f[b]
               /\ R + SoLuongToiDa[lhp] <= K * SoLuongToiDa[lhp]
<1> DEFINE S == SoLuongToiDa[lhp]
           K == Cardinality(Batches)
           all == Claimed(f, lhp)
           rest == ClaimsOfOthers(f, lhp, b)
           own == {b} \X (1..f[b])
           others == Batches \ {b}
<1>1. S \in Nat /\ f[b] \in 0..S /\ f[b] \in Nat
    BY ConstantsAssumption
<1>2. /\ IsFiniteSet(1..S) /\ Cardinality(1..S) = S
      /\ IsFiniteSet(1..f[b]) /\ Cardinality(1..f[b]) = f[b]
    <2>1. 0 \in Int /\ 1 \in Int /\ S \in Int /\ f[b] \in Int
        BY <1>1
    <2>2. /\ IsFiniteSet(1..S) /\ Cardinality(1..S) = IF 1 > S THEN 0 ELSE S - 1 + 1
          /\ IsFiniteSet(1..f[b]) /\ Cardinality(1..f[b]) = IF 1 > f[b] THEN 0 ELSE f[b] - 1 + 1
        BY <2>1, FS_Interval
    <2> HIDE DEF S
    <2> QED BY <1>1, <2>2
<1>3. /\ IsFiniteSet(Batches) /\ K \in Nat
      /\ IsFiniteSet(others) /\ Cardinality(others) = K - 1
    <2>1. IsFiniteSet(Batches) /\ K \in Nat
        BY BatchesFinite, FS_CardinalityType
    <2> QED BY <2>1, FS_RemoveElement
<1>4. K - 1 \in Nat /\ K * S \in Nat /\ (K - 1) * S = K * S - S
    <2>1. K - 1 \in Nat
        BY <1>3, FS_CardinalityType
    <2> HIDE DEF K, S
    <2> QED BY <1>1, <1>3, <2>1
<1>5. IsFiniteSet(own) /\ Cardinality(own) = f[b]
    <2>1. IsFiniteSet({b}) /\ Cardinality({b}) = 1
        BY FS_Singleton
    <2>2. IsFiniteSet(own) /\ Cardinality(own) = 1 * f[b]
        <3> DEFINE mine == 1..f[b]
        <3>1. IsFiniteSet(mine) /\ Cardinality(mine) = f[b]
            BY <1>2
        <3> HIDE DEF mine
        <3>2. IsFiniteSet({b} \X mine) /\ Cardinality({b} \X mine) = Cardinality({b}) * Cardinality(mine)
            BY <2>1, <3>1, FS_Product
        <3> QED BY <2>1, <3>1, <3>2 DEF mine
    <2> QED BY <1>1, <2>2
<1>6. IsFiniteSet(rest) /\ Cardinality(rest) \in Nat /\ Cardinality(rest) <= (K - 1) * S
    <2>1. IsFiniteSet(others \X (1..S)) /\ Cardinality(others \X (1..S)) = (K - 1) * S
        <3> DEFINE seats == 1..S
        <3>1. IsFiniteSet(seats) /\ Cardinality(seats) = S
            BY <1>2
        <3> HIDE DEF seats, others, K, S
        <3>2. /\ IsFiniteSet(others \X seats)
              /\ Cardinality(others \X seats) = Cardinality(others) * Cardinality(seats)
            BY <1>3, <3>1, FS_Product
        <3> QED BY <1>3, <3>1, <3>2 DEF seats
    <2>2. rest \in SUBSET (others \X (1..S))
        BY DEF ClaimsOfOthers, Claimed
    <2> HIDE DEF K, S, others, rest
    <2> QED BY <2>1, <2>2, FS_Subset, FS_CardinalityType
<1>7. all = rest \union own
    <2>1. ASSUME NEW c \in own PROVE c \in all
        BY <1>1, <2>1 DEF Claimed
    <2>2. ASSUME NEW c \in all PROVE c \in rest \union own
        BY <1>1, <2>2 DEF Claimed, ClaimsOfOthers
    <2> QED BY <2>1, <2>2 DEF ClaimsOfOthers
<1>8. rest \intersect own = {}
    BY DEF ClaimsOfOthers
<1> HIDE DEF S, K, all, rest, own, others
<1>9. Cardinality(all) = Cardinality(rest) + f[b]
    <2>1. Cardinality(rest \intersect own) = 0
        BY <1>8, FS_EmptySet
    <2>2. Cardinality(rest \union own)
              = Cardinality(rest) + Cardinality(own) - Cardinality(rest \intersect own)
        BY <1>5, <1>6, FS_Union
    <2> QED BY <1>1, <1>5, <1>6, <1>7, <2>1, <2>2
<1>10. Cardinality(rest) + S <= K * S /\ Cardinality(all) \in Nat
    BY <1>1, <1>4, <1>6, <1>9
<1> QED BY <1>3, <1>4, <1>6, <1>9, <1>10 DEF S, K, all, rest

\* A step that changes the claim of one batch only, and the counter by no
\* more than what it gives up or what is still free.
LEMMA ClaimChanged ==
    ASSUME NEW lhp \in Sections, CrowdBound(lhp), NEW b \in Batches,
           NEW claim \in 0..SoLuongToiDa[lhp],
           Claims(batch', lhp) = [Claims(batch, lhp) EXCEPT ![b] = claim],
           counter'[lhp] \in Nat,
           \/ counter'[lhp] + claim <= counter[lhp] + Claims(batch, lhp)[b]
           \/ counter'[lhp] + claim <= SoLuongToiDa[lhp]
    PROVE  CrowdBound(lhp)'
<1> DEFINE S == SoLuongToiDa[lhp]
           f == Claims(batch, lhp)
           g == Claims(batch', lhp)
           K == Cardinality(Batches)
           N == Cardinality(Claimed(f, lhp))
           newN == Cardinality(Claimed(g, lhp))
           R == Cardinality(ClaimsOfOthers(f, lhp, b))
<1>1. S \in Nat /\ counter[lhp] \in Nat /\ f \in [Batches -> 0..S] /\ counter[lhp] + N <= K * S
    BY ConstantsAssumption DEF CrowdBound
<1>2. g = [f EXCEPT ![b] = claim]
    OBVIOUS
<1> HIDE DEF f, g
<1>3. g \in [Batches -> 0..S] /\ g[b] = claim /\ f[b] \in Nat
    BY <1>1, <1>2
<1>4. ClaimsOfOthers(g, lhp, b) = ClaimsOfOthers(f, lhp, b)
    BY <1>1, <1>2 DEF ClaimsOfOthers, Claimed
<1>5. /\ N \in Nat /\ R \in Nat /\ K * S \in Nat /\ N = R + f[b] /\ R + S <= K * S
      /\ newN = R + claim
    BY <1>1, <1>3, <1>4, ClaimedApart
<1>6. counter'[lhp] + newN <= K * S
    <2> HIDE DEF S, K, N, newN, R
    <2>1. CASE counter'[lhp] + claim <= counter[lhp] + f[b]
        BY <1>1, <1>3, <1>5, <2>1
    <2>2. CASE counter'[lhp] + claim <= S
        BY <1>1, <1>3, <1>5, <2>2
    <2> QED BY <2>1, <2>2 DEF f, S
<1> QED BY <1>3, <1>6 DEF CrowdBound, g, S, K, newN

\* A step that leaves the counter and what the batches claim.
LEMMA ClaimsKept ==
    ASSUME NEW lhp \in Sections, CrowdBound(lhp), UNCHANGED <<batch, counter>>
    PROVE  CrowdBound(lhp)'
BY DEF CrowdBound, Claims, Claimed

\* The steps of a batch.
LEMMA BatchCrowd ==
    ASSUME MaxFailures = 0, ShapeInv, ShapeInv', CrowdInv, NEW b \in Batches, BatchStep(b),
           NEW lhp \in Sections
    PROVE  CrowdBound(lhp)'
<1> DEFINE loc == batch[b]
           S == SoLuongToiDa[lhp]
           f == Claims(batch, lhp)
           seats == SeatsOf(loc.plan, lhp)
           counts(locals) == Selected(locals.writes, {"count"}, lhp)
<1>1. /\ BatchesType /\ GoodLocals(loc) /\ ShapeLocals(loc) /\ BoundsType /\ TablesType
      /\ CrowdBound(lhp) /\ counter[lhp] \in Nat /\ f \in [Batches -> 0..S]
    BY TypeParts DEF ShapeInv, BatchesType, CrowdInv, CrowdBound
<1>2. PICK new : batch' = [batch EXCEPT ![b] = new] /\ Effect(loc, new)
    BY BatchEffect
<1>3. ~StatementFails
    BY <1>1 DEF StatementFails, BoundsType
<1>4. S \in Nat
    BY ConstantsAssumption
<1>5. seats \in Nat /\ f[b] \in 0..S /\ f[b] = seats + Cardinality(counts(loc))
    <2>1. seats \in Nat
        BY <1>1, SeatsNumber DEF GoodLocals, BatchType
    <2>2. f[b] = seats + Cardinality(counts(loc))
        BY DEF Claims
    <2> QED BY <1>1, <2>1, <2>2
<1>6. IsFiniteSet(counts(loc)) /\ Cardinality(counts(loc)) \in Nat
    <2>1. IsFiniteSet(loc.writes) /\ counts(loc) \in SUBSET loc.writes
        BY <1>1 DEF ShapeLocals, Selected
    <2> QED BY <2>1, FS_Subset, FS_CardinalityType
<1> DEFINE claim == SeatsOf(new.plan, lhp) + Cardinality(counts(new))
<1>7. Claims(batch', lhp) = [f EXCEPT ![b] = claim]
    <2>1. \A c \in Batches : batch'[c] = IF c = b THEN new ELSE batch[c]
        BY <1>1, <1>2 DEF BatchesType
    <2>2. ASSUME NEW c \in Batches
          PROVE  Claims(batch', lhp)[c] = [f EXCEPT ![b] = claim][c]
        BY <2>1 DEF Claims
    <2>3. /\ Claims(batch', lhp) = [c \in Batches |-> Claims(batch', lhp)[c]]
          /\ [f EXCEPT ![b] = claim] = [c \in Batches |-> [f EXCEPT ![b] = claim][c]]
        BY DEF Claims
    <2> HIDE DEF f, claim
    <2> QED BY <2>2, <2>3
<1>8. CASE Moves(loc, new)
    <2>1. claim = f[b] /\ counter'[lhp] = counter[lhp]
        BY <1>5, <1>8 DEF Moves
    <2> HIDE DEF claim, f, S
    <2> QED BY <1>1, <1>4, <1>5, <1>7, <2>1, ClaimChanged DEF f, S
<1>9. CASE Learns(loc, new)
    <2>1. PICK s \in Sections, n \in Nat :
              /\ SeatsOf(new.plan, lhp) = IF lhp = s THEN n ELSE seats
              /\ n = SlotConLai(s)
        BY <1>3, <1>9 DEF Learns
    <2>2. counter'[lhp] = counter[lhp] /\ loc.writes = {} /\ new.writes = {}
        BY <1>1, <1>9 DEF Learns, ShapeLocals, tables
    <2>3. Cardinality(counts(loc)) = 0 /\ Cardinality(counts(new)) = 0
        <3>1. counts(loc) = {} /\ counts(new) = {}
            BY <2>2 DEF Selected
        <3> QED BY <3>1, FS_EmptySet
    <2>4. CASE lhp # s
        <3>1. claim = f[b]
            BY <1>5, <2>1, <2>3, <2>4
        <3>2. counter'[lhp] = counter[lhp]
            BY <2>2
        <3> HIDE DEF claim, f, S, seats, counts, loc
        <3>3. claim \in 0..S /\ counter'[lhp] + claim <= counter[lhp] + f[b]
            BY <1>1, <1>4, <1>5, <3>1, <3>2
        <3> QED BY <1>1, <1>7, <3>2, <3>3, ClaimChanged DEF f, S
    <2>5. CASE lhp = s
        <3>1. claim = IF S - counter[lhp] < 0 THEN 0 ELSE S - counter[lhp]
            BY <2>1, <2>3, <2>5 DEF SlotConLai
        <3> HIDE DEF claim, f, S
        <3>2. claim \in 0..S
            BY <1>1, <1>4, <3>1
        <3>3. \/ counter'[lhp] + claim <= counter[lhp] + f[b]
              \/ counter'[lhp] + claim <= S
            BY <1>1, <1>4, <1>5, <2>2, <3>1
        <3>4. CrowdBound(lhp) /\ counter'[lhp] \in Nat
            BY <1>1, <2>2
        <3>5. CASE counter'[lhp] + claim <= counter[lhp] + f[b]
            BY <1>7, <3>2, <3>4, <3>5, ClaimChanged DEF f, S
        <3>6. CASE counter'[lhp] + claim <= S
            BY <1>7, <3>2, <3>4, <3>6, ClaimChanged DEF f, S
        <3> QED BY <3>3, <3>5, <3>6
    <2> QED BY <2>4, <2>5
<1>10. CASE Queues(loc, new)
    <2>1. PICK plan \in Plan :
              /\ SeatsLeft(plan)
              /\ new.writes = WritesOf(loc, plan)
              /\ SeatsOf(plan, lhp) = seats
        BY <1>10 DEF Queues
    <2>2. new.plan = NoPlan /\ counter'[lhp] = counter[lhp]
        BY <1>10 DEF Queues, tables
    <2>3. Cardinality(counts(new)) = Cardinality(SeatsTaken(plan, lhp))
        BY <2>1, WritesOfCount
    <2>4. Cardinality(counts(new)) \in Nat /\ Cardinality(counts(new)) <= seats
        BY <2>1, <2>3, SeatsNumber
    <2>5. claim = Cardinality(counts(new))
        BY <2>2, <2>4, NoPlanSeats
    <2> HIDE DEF claim, f, S, seats, counts
    <2>6. claim \in 0..S /\ claim <= f[b]
        BY <1>4, <1>5, <1>6, <2>4, <2>5
    <2>7. counter'[lhp] \in Nat /\ counter'[lhp] + claim <= counter[lhp] + f[b]
        BY <1>1, <1>4, <1>5, <2>2, <2>6
    <2> QED BY <1>1, <1>7, <2>6, <2>7, ClaimChanged DEF f, S
<1>11. CASE Writes(loc, new)
    <2>1. PICK w \in loc.writes : new.writes = loc.writes \ {w} /\ Executed(w)
        BY <1>3, <1>11 DEF Writes
    <2>2. /\ SeatsOf(new.plan, lhp) = 0 /\ seats = 0
        BY <1>1, <1>11, NoPlanSeats DEF Writes, ShapeLocals
    <2>3. w.lhp \in Sections /\ counter \in [Sections -> Int]
        BY <1>1 DEF GoodLocals, WriteOfRows, WriteOp, TablesType
    <2>4. CASE w.op = "count" /\ w.lhp = lhp
        <3>1. counts(new) = counts(loc) \ {w} /\ w \in counts(loc)
            BY <2>1, <2>4 DEF Selected
        <3>2. counter'[lhp] = counter[lhp] + 1
            BY <2>1, <2>3, <2>4 DEF Executed
        <3> HIDE DEF counts
        <3>3. Cardinality(counts(new)) = Cardinality(counts(loc)) - 1
            BY <1>6, <3>1, OneLess
        <3>4. Cardinality(counts(loc)) # 0
            BY <1>6, <3>1, FS_EmptySet
        <3> HIDE DEF seats, S, f
        <3>5. claim = f[b] - 1 /\ claim \in 0..S
            BY <1>4, <1>5, <1>6, <2>2, <3>3, <3>4
        <3> HIDE DEF claim
        <3>6. counter'[lhp] \in Nat /\ counter'[lhp] + claim <= counter[lhp] + f[b]
            BY <1>1, <1>4, <1>5, <3>2, <3>5
        <3> QED BY <1>1, <1>7, <3>5, <3>6, ClaimChanged DEF f, S
    <2>5. CASE ~(w.op = "count" /\ w.lhp = lhp)
        <3>1. counts(new) = counts(loc)
            BY <2>1, <2>5 DEF Selected
        <3>2. counter'[lhp] = counter[lhp]
            BY <2>1, <2>3, <2>5 DEF Executed
        <3>3. claim = f[b]
            BY <1>5, <2>2, <3>1
        <3> HIDE DEF claim, f, S
        <3> QED BY <1>1, <1>4, <1>5, <1>7, <3>2, <3>3, ClaimChanged DEF f, S
    <2> QED BY <2>4, <2>5
<1> QED BY <1>2, <1>8, <1>9, <1>10, <1>11 DEF Effect

\* Nothing is claimed at the start.
LEMMA CrowdInit == Init => CrowdInv
<1> SUFFICES ASSUME Init, NEW lhp \in Sections PROVE CrowdBound(lhp)
    BY DEF CrowdInv, Init
<1> DEFINE f == Claims(batch, lhp)
<1>1. counter[lhp] = 0 /\ \A b \in Batches : batch[b] = Idle
    BY DEF Init
<1>2. Idle.writes = {} /\ Idle.plan = NoPlan
    BY DEF Idle
<1>3. SoLuongToiDa[lhp] \in Nat
    BY ConstantsAssumption
<1>4. \A b \in Batches : f[b] = 0
    <2>1. Selected({}, {"count"}, lhp) = {} /\ Cardinality({}) = 0 /\ SeatsOf(NoPlan, lhp) = 0
        BY NoPlanSeats, FS_EmptySet DEF Selected
    <2> QED BY <1>1, <1>2, <2>1 DEF Claims
<1>5. f \in [Batches -> 0..SoLuongToiDa[lhp]]
    <2>1. f = [b \in Batches |-> f[b]]
        BY DEF Claims
    <2> HIDE DEF f
    <2> QED BY <1>3, <1>4, <2>1
<1>6. Cardinality(Claimed(f, lhp)) = 0
    <2> HIDE DEF f
    <2>1. Claimed(f, lhp) = {}
        BY <1>3, <1>4 DEF Claimed
    <2> QED BY <2>1, FS_EmptySet
<1>7. Cardinality(Batches) * SoLuongToiDa[lhp] \in Nat
    BY <1>3, BatchesFinite, FS_CardinalityType
<1> QED BY <1>1, <1>5, <1>6, <1>7 DEF CrowdBound

\* Every step keeps the claims within their bound.
LEMMA CrowdStep ==
    ASSUME NoFaults, NoCancellations
    PROVE  ShapeInv /\ CrowdInv /\ [Next]_vars => CrowdInv'
<1> SUFFICES ASSUME ShapeInv, CrowdInv, [Next]_vars PROVE CrowdInv'
    OBVIOUS
<1>1. ShapeInv' /\ CallsType /\ BoundsType
    BY ShapeStep, TypeParts DEF ShapeInv
<1>2. CASE UNCHANGED <<batch, counter, huy>>
    BY <1>2, ClaimsKept DEF CrowdInv
<1>3. CASE UNCHANGED vars
    BY <1>2, <1>3 DEF vars
<1>4. ASSUME NEW q \in Requests, Send(q)
      PROVE  CrowdInv'
    BY <1>2, <1>4 DEF Send, tables
<1>5. ASSUME NEW d \in inbox, Drop(d) \/ DangKyMonHoc(d)
      PROVE  CrowdInv'
    BY <1>2, <1>5 DEF Drop, DangKyMonHoc, tables
<1>6. ASSUME NEW d \in inbox, HuyXoa(d)
      PROVE  FALSE
    BY <1>1, <1>6 DEF CallsType, HuyXoa, NoCancellations
<1>7. ASSUME NEW d \in huy
      PROVE  FALSE
    BY <1>7 DEF CrowdInv
<1>8. ASSUME NEW b \in Batches, BatchStep(b)
      PROVE  CrowdInv'
    <2>1. \A lhp \in Sections : CrowdBound(lhp)'
        BY <1>1, <1>8, BatchCrowd DEF NoFaults
    <2>2. huy' = {}
        BY <1>8, BatchEffect DEF CrowdInv
    <2> QED BY <2>1, <2>2 DEF CrowdInv
<1>9. ASSUME NEW r \in Replicas, Crash(r)
      PROVE  FALSE
    BY <1>1, <1>9 DEF Crash, BoundsType, NoFaults
<1> QED BY <1>3, <1>4, <1>5, <1>6, <1>7, <1>8, <1>9 DEF Next

\* The counts on their way are claimed.
LEMMA CountsClaimed ==
    ASSUME ShapeInv, NEW lhp \in Sections, CrowdBound(lhp)
    PROVE  Cardinality(StatementsOf(batch, {"count"}, lhp))
             <= Cardinality(Claimed(Claims(batch, lhp), lhp))
<1> DEFINE counts(b) == Selected(batch[b].writes, {"count"}, lhp)
           n(b) == Cardinality(counts(b))
           f == Claims(batch, lhp)
           T == Claimed(f, lhp)
           D == {c \in T : c[2] <= n(c[1])}
           pick(b) == CHOOSE g \in [1..n(b) -> counts(b)] : \A w \in counts(b) : \E i \in 1..n(b) : g[i] = w
<1>1. ASSUME NEW b \in Batches
      PROVE  /\ n(b) \in Nat /\ n(b) <= f[b] /\ n(b) <= SoLuongToiDa[lhp]
             /\ pick(b) \in [1..n(b) -> counts(b)]
             /\ \A w \in counts(b) : \E i \in 1..n(b) : pick(b)[i] = w
    <2>1. IsFiniteSet(batch[b].writes) /\ counts(b) \in SUBSET batch[b].writes
        BY DEF ShapeInv, ShapeLocals, Selected
    <2>2. n(b) \in Nat /\ ExistsBijection(1..n(b), counts(b))
        BY <2>1, FS_Subset, FS_CardinalityType
    <2>3. \E g \in [1..n(b) -> counts(b)] : \A w \in counts(b) : \E i \in 1..n(b) : g[i] = w
        <3> HIDE DEF n, counts
        <3> QED BY <2>2 DEF ExistsBijection, Bijection, Surjection
    <2>4. /\ pick(b) \in [1..n(b) -> counts(b)]
          /\ \A w \in counts(b) : \E i \in 1..n(b) : pick(b)[i] = w
        <3> HIDE DEF n, counts
        <3> QED BY <2>3
    <2>5. SeatsOf(batch[b].plan, lhp) \in Nat
        BY TypeParts, SeatsNumber DEF ShapeInv, BatchesType, GoodLocals, BatchType
    <2>6. f[b] = SeatsOf(batch[b].plan, lhp) + n(b) /\ f[b] \in 0..SoLuongToiDa[lhp]
        BY DEF Claims, CrowdBound
    <2>7. SoLuongToiDa[lhp] \in Nat
        BY ConstantsAssumption
    <2> HIDE DEF pick, n, counts, f
    <2> QED BY <2>2, <2>4, <2>5, <2>6, <2>7
<1>2. IsFiniteSet(T)
    <2>1. SoLuongToiDa[lhp] \in Int /\ 1 \in Int
        BY ConstantsAssumption
    <2>2. IsFiniteSet(Batches \X (1..SoLuongToiDa[lhp]))
        BY <2>1, BatchesFinite, FS_Interval, FS_Product
    <2>3. T \in SUBSET (Batches \X (1..SoLuongToiDa[lhp]))
        BY DEF Claimed
    <2> HIDE DEF T
    <2> QED BY <2>2, <2>3, FS_Subset
<1>3. D \in SUBSET T
    OBVIOUS
<1>4. IsFiniteSet(D) /\ Cardinality(D) <= Cardinality(T)
    <2> HIDE DEF D, T
    <2> QED BY <1>2, <1>3, FS_Subset
<1> DEFINE O == StatementsOf(batch, {"count"}, lhp)
           h == [c \in D |-> <<c[1], pick(c[1])[c[2]]>>]
<1>5. h \in Surjection(D, O)
    <2>1. ASSUME NEW c \in D PROVE h[c] \in O
        <3>1. c[1] \in Batches /\ c[2] \in 1..SoLuongToiDa[lhp] /\ c[2] <= n(c[1])
            BY DEF Claimed
        <3>2. c[2] \in 1..n(c[1])
            BY <1>1, <3>1
        <3>3. pick(c[1])[c[2]] \in counts(c[1])
            <4> HIDE DEF pick, n, counts
            <4> QED BY <1>1, <3>1, <3>2
        <3>4. h[c] = <<c[1], pick(c[1])[c[2]]>>
            OBVIOUS
        <3> HIDE DEF pick, n, h, D
        <3> QED BY <3>1, <3>3, <3>4, StatementIn DEF Selected
    <2>2. ASSUME NEW o \in O PROVE \E c \in D : h[c] = o
        <3>1. PICK b \in Batches : \E w \in counts(b) : o = <<b, w>>
            BY StatementIn DEF Selected
        <3>2. PICK w \in counts(b) : o = <<b, w>>
            BY <3>1
        <3>3. PICK i \in 1..n(b) : pick(b)[i] = w
            <4> HIDE DEF pick, n, counts
            <4> QED BY <1>1, <3>2
        <3>4. i \in 1..SoLuongToiDa[lhp] /\ i <= f[b] /\ i <= n(b)
            <4>1. n(b) \in Nat /\ n(b) <= f[b] /\ n(b) <= SoLuongToiDa[lhp] /\ f[b] \in 0..SoLuongToiDa[lhp]
                BY <1>1 DEF CrowdBound
            <4>2. SoLuongToiDa[lhp] \in Nat
                BY ConstantsAssumption
            <4> HIDE DEF n, f
            <4> QED BY <4>1, <4>2
        <3>5. <<b, i>> \in D
            <4> HIDE DEF n, f
            <4> QED BY <3>4 DEF Claimed
        <3> HIDE DEF pick, n, D
        <3>6. h[<<b, i>>] = o
            BY <3>2, <3>3, <3>5
        <3> QED BY <3>5, <3>6
    <2>3. h \in [D -> O]
        <3>1. h = [c \in D |-> h[c]]
            <4> HIDE DEF pick, n, D
            <4> QED OBVIOUS
        <3> HIDE DEF h, D, O
        <3> QED BY <2>1, <3>1
    <2> HIDE DEF h, D, O
    <2> QED BY <2>2, <2>3 DEF Surjection
<1>6. Cardinality(O) <= Cardinality(D)
    <2> HIDE DEF h, D, O
    <2> QED BY <1>4, <1>5, FS_Surjection
<1>7. Cardinality(O) \in Nat /\ Cardinality(D) \in Nat /\ Cardinality(T) \in Nat
    <2>1. Cardinality(O) \in Nat
        BY StatementsFinite DEF ShapeInv, ShapeLocals
    <2> HIDE DEF D, T, O
    <2> QED BY <1>2, <1>4, <2>1, FS_CardinalityType
<1> HIDE DEF O, D, T
<1> QED BY <1>4, <1>6, <1>7 DEF O, T, f

\* However many pods and batches run at the same time: if no statement fails,
\* no pod stops and nobody cancels, each batch hands out a section at most
\* once, also over all the batches that ever run, so that a section has at
\* most its seats for every batch that can run at a time.
THEOREM OversellIsLimited == NoFaults /\ NoCancellations => (Spec => []OversellLimited)
<1> SUFFICES ASSUME NoFaults, NoCancellations PROVE Spec => []OversellLimited
    OBVIOUS
<1> DEFINE Inv == LedgerInv /\ CrowdInv
<1>1. Init => Inv
    BY LedgerInit, CrowdInit
<1>2. Inv /\ [Next]_vars => Inv'
    <2> SUFFICES ASSUME Inv, [Next]_vars PROVE Inv'
        OBVIOUS
    <2>1. LossBounded
        <3>1. crashes \in Nat
            BY TypeParts, ConstantsAssumption DEF LedgerInv, ShapeInv, BoundsType
        <3> QED BY <3>1 DEF LossBounded, NoFaults
    <2> QED BY <2>1, LedgerStep, CrowdStep DEF LedgerInv
<1>3. Inv => OversellLimited
    <2> SUFFICES ASSUME Inv, NEW lhp \in Sections
                 PROVE  Cardinality(Confirmed(lhp)) <= Cardinality(Batches) * SoLuongToiDa[lhp]
        BY DEF OversellLimited
    <2> DEFINE H == Cardinality(Holders(dangKy, lhp))
               M == Cardinality(StatementsOf(batch, {"confirm", "move"}, lhp))
               N == Cardinality(StatementsOf(batch, {"count"}, lhp))
               Z == Cardinality(Halves(huy, lhp))
               Y == Cardinality(Taken(sent, inbox, lhp))
               C == crashes * Cardinality(Students)
               Q == Cardinality(Claimed(Claims(batch, lhp), lhp))
               most == Cardinality(Batches) * SoLuongToiDa[lhp]
    <2>1. TypeInv /\ BoundsType /\ CrowdBound(lhp)
        BY TypeParts DEF LedgerInv, ShapeInv, CrowdInv
    <2>2. failures = 0 /\ crashes = 0
        BY <2>1 DEF BoundsType, NoFaults
    <2>3. H \in Nat /\ M \in Nat /\ N \in Nat /\ Z \in Nat
        BY LedgerNumbers DEF LedgerInv
    <2>4. H + M <= counter[lhp] + N - Z + failures + C + Y
        BY LedgerSets DEF LedgerInv
    <2>5. Y = 0
        <3>1. CancelsTaken(lhp) = {}
            BY <2>1, NothingTaken
        <3>2. Taken(sent, inbox, lhp) = {} /\ Cardinality({}) = 0
            BY <3>1, FS_EmptySet DEF CancelsTaken, Taken
        <3> QED BY <3>2
    <2>6. C = 0
        BY <2>2, FinitenessAssumption, FS_CardinalityType
    <2>7. N <= Q
        BY CountsClaimed DEF LedgerInv, CrowdInv
    <2>8. counter[lhp] \in Nat /\ counter[lhp] + Q <= most
        BY <2>1 DEF CrowdBound
    <2>9. Q \in Nat /\ most \in Nat
        <3>1. SoLuongToiDa[lhp] \in Int /\ SoLuongToiDa[lhp] \in Nat /\ 1 \in Int
            BY ConstantsAssumption
        <3>2. IsFiniteSet(Batches \X (1..SoLuongToiDa[lhp]))
            BY <3>1, BatchesFinite, FS_Interval, FS_Product
        <3>3. Claimed(Claims(batch, lhp), lhp) \in SUBSET (Batches \X (1..SoLuongToiDa[lhp]))
            BY DEF Claimed
        <3>4. IsFiniteSet(Claimed(Claims(batch, lhp), lhp)) /\ Cardinality(Batches) \in Nat
            BY <3>2, <3>3, BatchesFinite, FS_Subset, FS_CardinalityType
        <3>5. Q \in Nat
            BY <3>4, FS_CardinalityType
        <3> QED BY <3>1, <3>4, <3>5
    <2>10. H = Cardinality(Confirmed(lhp))
        BY DEF Holders, Holds, Confirmed
    <2> HIDE DEF H, M, N, Z, Y, C, Q, most
    <2>11. H <= most
        BY <2>2, <2>3, <2>4, <2>5, <2>6, <2>7, <2>8, <2>9
    <2> QED BY <2>10, <2>11 DEF most
<1> HIDE DEF Inv
<1> QED BY <1>1, <1>2, <1>3, PTL DEF Spec

-----------------------------------------------------------------------------
(***************************************************************************)
(* The work of a batch                                                     *)
(***************************************************************************)

\* The rows a batch may still write: those it scanned, later those its
\* statements are about.
RowsAtWork(loc) ==
    IF loc.pc = "write" THEN {w.row : w \in {v \in loc.writes : v.op # "count"}}
    ELSE loc.rows

\* The students and courses for which a batch may give a seat, those whose
\* row passed the check.  The row that gets the seat, the primary one, may be
\* another row of the course.
OwnersOf(rows) == {<<r.sv, CourseOf[r.lhp]>> : r \in rows}

Seating(writes) == {w \in writes : w.op \in {"confirm", "move"}}

Cleared(loc) ==
    IF loc.pc = "check" THEN OwnersOf(Eligible(loc) \ loc.todo)
    ELSE IF loc.pc = "write" THEN OwnersOf({w.row : w \in Seating(loc.writes)})
    ELSE OwnersOf(Eligible(loc))

\* A step that writes no row: rows come from the table, and owners are
\* cleared by a check that found no confirmed row, or failed.
LeavesRows(loc, new) ==
    /\ UNCHANGED dangKy
    /\ RowsAtWork(new) \subseteq RowsAtWork(loc) \union ChoXuLyRows
    /\ \A k \in Cleared(new) :
           k \in Cleared(loc) \/ (failures' = 0 => ~DaDangKyMonHoc(k[1], k[2]))

\* A step that refuses a row.
Refuses(loc, new) ==
    /\ \E r \in RowsAtWork(loc) \intersect loc.toReject :
           dangKy' = SetTrangThai(dangKy, r.sv, r.lhp, "TuChoi")
    /\ RowsAtWork(new) \subseteq RowsAtWork(loc)
    /\ Cleared(new) \subseteq Cleared(loc)

\* A step that executes a statement.
Executes(loc, new) ==
    /\ loc.pc = "write"
    /\ \E w \in loc.writes :
           /\ Executed(w)
           /\ \A r \in RowsAtWork(new) : \E v \in loc.writes \ {w} : v.op # "count" /\ r = v.row
           /\ \A k \in Cleared(new) :
                  \E v \in Seating(loc.writes) \ {w} : k = <<v.row.sv, CourseOf[v.row.lhp]>>

\* A batch that does not run.
LEMMA IdleWork ==
    /\ Idle.pc = "idle" /\ Idle.rows = {} /\ Idle.plan = NoPlan /\ Idle.writes = {}
    /\ RowsAtWork(Idle) = {} /\ Cleared(Idle) = {}
<1>1. Idle.pc = "idle" /\ Idle.rows = {} /\ Idle.plan = NoPlan /\ Idle.writes = {}
    BY DEF Idle
<1> QED BY <1>1 DEF RowsAtWork, Cleared, OwnersOf, Eligible

\* Owners of fewer rows.
LEMMA FewerOwners ==
    ASSUME NEW rows, NEW fewer, fewer \subseteq rows
    PROVE  OwnersOf(fewer) \subseteq OwnersOf(rows)
BY DEF OwnersOf

\* The rows of the status statements of a plan belong to owners of requests
\* that Solve has considered.
LEMMA SeatedOwners ==
    ASSUME NEW loc, NEW plan \in Plan, PlanOfRows(loc.rows, plan), NEW done, FromDone(done, plan),
           NEW w \in Seating(WritesOf(loc, plan))
    PROVE  <<w.row.sv, CourseOf[w.row.lhp]>> \in OwnersOf(done)
<1>1. w \in WritesOf(loc, plan) /\ w.op \in {"confirm", "move"}
    BY DEF Seating
<1>2. PICK i \in 1..Len(plan.confirmed) : w = StatusWrite(loc, plan, i)
    BY <1>1, WritesCases, WriteFields
<1>3. w.row = RowOf(loc, plan.confirmed[i])
    BY <1>2, WriteFields
<1>4. w.row.sv = plan.confirmed[i].student /\ CourseOf[w.row.lhp] = plan.confirmed[i].course
    BY <1>3 DEF PlanOfRows, EdgeOfRows, RowOf
<1>5. PICK r \in done : Answers(plan.confirmed[i], r)
    BY DEF FromDone
<1> QED BY <1>4, <1>5 DEF Answers, OwnersOf

\* What a step of a batch does to rows.
LEMMA BatchWork ==
    ASSUME BatchesRemembered, FiledInv, OnceInv, NEW b \in Batches, BatchStep(b)
    PROVE  \E new :
               /\ batch' = [batch EXCEPT ![b] = new]
               /\ \/ LeavesRows(batch[b], new)
                  \/ Refuses(batch[b], new)
                  \/ Executes(batch[b], new)
<1> DEFINE loc == batch[b]
<1>1. /\ GoodLocals(loc) /\ ShapeLocals(loc) /\ OnceLocals(loc) /\ loc \in BatchType
      /\ BoundsType /\ RowsRemembered(loc.rows)
    <2>1. CallsType /\ BatchesType /\ BoundsType
        BY TypeParts DEF FiledInv, ShapeInv
    <2>2. RowsRemembered(loc.rows)
        BY DEF BatchesRemembered
    <2> QED BY <2>1, <2>2 DEF FiledInv, ShapeInv, OnceInv, BatchesType, GoodLocals
<1>2. failures \in Nat /\ loc.toReject \subseteq loc.rows
    BY <1>1, ConstantsAssumption DEF BoundsType, GoodLocals
<1>3. CASE Scan(b)
    <2> DEFINE new == [Idle EXCEPT !.pc = "check", !.rows = ChoXuLyRows, !.todo = ChoXuLyRows]
    <2>1. batch' = [batch EXCEPT ![b] = new] /\ UNCHANGED dangKy
        BY <1>3 DEF Scan, tables
    <2>2. new.pc = "check" /\ new.rows = ChoXuLyRows /\ new.todo = ChoXuLyRows
        BY DEF Idle
    <2> HIDE DEF new
    <2>3. RowsAtWork(new) = ChoXuLyRows /\ Cleared(new) = {}
        BY <2>2 DEF RowsAtWork, Cleared, OwnersOf, Eligible
    <2>4. LeavesRows(loc, new)
        BY <2>1, <2>3 DEF LeavesRows
    <2> QED BY <2>1, <2>4
<1>4. CASE CheckRow(b)
    <2>1. PICK r \in loc.todo, refuse \in BOOLEAN :
              /\ refuse = DaDangKyMonHoc(r.sv, CourseOf[r.lhp]) \/ StatementFails
              /\ LET add == IF refuse THEN {r} ELSE {}
                     now == [loc EXCEPT !.todo = @ \ {r}, !.rejected = @ \union add,
                                        !.toReject = @ \union add]
                 IN  batch' = [batch EXCEPT ![b] = IF now.todo = {} THEN AfterChecks(now) ELSE now]
        BY <1>4 DEF CheckRow
    <2> DEFINE add == IF refuse THEN {r} ELSE {}
               now == CheckedLocals(loc, r, add)
               new == IF now.todo = {} THEN AfterChecks(now) ELSE now
    <2>2. batch' = [batch EXCEPT ![b] = new] /\ UNCHANGED dangKy
        BY <1>4, <2>1 DEF CheckedLocals, CheckRow, tables
    <2>3. loc.pc = "check" /\ loc.plan = NoPlan /\ loc.writes = {}
        BY <1>1, <1>4 DEF CheckRow, ShapeLocals
    <2>4. now \in BatchType
        <3>1. add \in SUBSET {r}
            OBVIOUS
        <3> QED BY <1>1, <3>1, CheckedGood DEF GoodLocals, CheckedLocals
    <2>5. /\ now.pc = "check" /\ now.rows = loc.rows /\ now.plan = NoPlan /\ now.writes = {}
          /\ now.todo = loc.todo \ {r} /\ now.rejected = loc.rejected \union add
        BY <1>1, <2>3, CheckedFields
    <2>6. Eligible(now) \ now.todo \subseteq (Eligible(loc) \ loc.todo) \union ({r} \ add)
        BY <2>5 DEF Eligible
    <2>7. \/ new = Idle
          \/ /\ new.pc \in {"check", "reject", "slots"} /\ new.rows = loc.rows
             /\ Cleared(new) = OwnersOf(Eligible(now) \ now.todo)
        <3> HIDE DEF now
        <3>1. CASE now.todo = {}
            <4>1. \/ new = Idle
                  \/ /\ new.pc \in {"reject", "slots"}
                     /\ new.rows = now.rows /\ new.rejected = now.rejected
                BY <2>4, <2>5, <3>1, AfterChecksLocals
            <4> HIDE DEF new
            <4>2. CASE new.pc \in {"reject", "slots"} /\ new.rows = now.rows /\ new.rejected = now.rejected
                <5>1. Eligible(new) = Eligible(now) \ now.todo
                    BY <3>1, <4>2 DEF Eligible
                <5> QED BY <2>5, <4>2, <5>1 DEF Cleared
            <4> QED BY <4>1, <4>2
        <3>2. CASE now.todo # {}
            BY <2>5, <3>2 DEF Cleared
        <3> QED BY <3>1, <3>2
    <2> HIDE DEF now, new
    <2>8. RowsAtWork(new) \subseteq RowsAtWork(loc)
        BY <2>3, <2>7, IdleWork DEF RowsAtWork
    <2>9. ASSUME NEW k \in Cleared(new)
          PROVE  k \in Cleared(loc) \/ (failures' = 0 => ~DaDangKyMonHoc(k[1], k[2]))
        <3>1. k \in OwnersOf(Eligible(now) \ now.todo)
            BY <2>7, IdleWork
        <3>2. PICK x \in Eligible(now) \ now.todo : k = <<x.sv, CourseOf[x.lhp]>>
            BY <3>1 DEF OwnersOf
        <3>3. CASE x \in Eligible(loc) \ loc.todo
            BY <2>3, <3>2, <3>3 DEF Cleared, OwnersOf
        <3>4. CASE x = r /\ ~refuse
            <4>1. failures' = 0 => ~StatementFails
                BY <1>2 DEF StatementFails
            <4> QED BY <2>1, <3>2, <3>4, <4>1
        <3> QED BY <2>6, <3>3, <3>4
    <2>10. LeavesRows(loc, new)
        BY <2>2, <2>8, <2>9 DEF LeavesRows
    <2> QED BY <2>2, <2>10
<1>5. CASE Reject(b)
    <2>1. PICK r \in loc.toReject :
              /\ \/ dangKy' = SetTrangThai(dangKy, r.sv, r.lhp, "TuChoi")
                 \/ UNCHANGED dangKy
              /\ batch' = [batch EXCEPT ![b] = AfterChecks([loc EXCEPT !.toReject = @ \ {r}])]
        BY <1>5 DEF Reject
    <2> DEFINE now == [loc EXCEPT !.toReject = @ \ {r}]
               new == AfterChecks(now)
    <2>2. loc.pc = "reject" /\ loc.plan = NoPlan /\ loc.writes = {}
        BY <1>1, <1>5 DEF Reject, ShapeLocals
    <2>3. /\ now \in BatchType /\ now.plan = NoPlan /\ now.writes = {} /\ now.rows = loc.rows
          /\ now.rejected = loc.rejected
        BY <1>1, <2>2, RefusedGood DEF GoodLocals, BatchType
    <2>4. batch' = [batch EXCEPT ![b] = new]
        BY <2>1
    <2> HIDE DEF now
    <2>5. \/ new = Idle
          \/ new.pc \in {"reject", "slots"} /\ new.rows = loc.rows /\ new.rejected = loc.rejected
        BY <2>3, AfterChecksLocals
    <2> HIDE DEF new
    <2>6. RowsAtWork(new) \subseteq RowsAtWork(loc)
        BY <2>2, <2>5, IdleWork DEF RowsAtWork
    <2>7. Cleared(new) \subseteq Cleared(loc)
        <3>1. CASE new.pc \in {"reject", "slots"} /\ new.rows = loc.rows /\ new.rejected = loc.rejected
            BY <2>2, <3>1 DEF Cleared, Eligible
        <3> QED BY <2>5, <3>1, IdleWork
    <2>8. r \in RowsAtWork(loc)
        BY <1>2, <2>2 DEF RowsAtWork
    <2>9. LeavesRows(loc, new) \/ Refuses(loc, new)
        BY <2>1, <2>6, <2>7, <2>8 DEF LeavesRows, Refuses
    <2> QED BY <2>4, <2>9
<1>6. CASE ReadSlot(b)
    <2> PICK s \in Wanted(loc) \ loc.read :
            \E n : batch' = [batch EXCEPT ![b] = SlotRead(loc, s, n)]
        BY <1>6 DEF ReadSlot
    <2>1. PICK n : batch' = [batch EXCEPT ![b] = SlotRead(loc, s, n)]
        OBVIOUS
    <2> DEFINE new == SlotRead(loc, s, n)
    <2>2. new.pc = loc.pc /\ new.rows = loc.rows /\ new.rejected = loc.rejected
        <3>1. loc \in BatchType
            BY <1>1
        <3> HIDE DEF loc
        <3> QED BY <3>1 DEF SlotRead, BatchType
    <2>3. loc.pc = "slots" /\ UNCHANGED dangKy
        BY <1>6 DEF ReadSlot, tables
    <2> HIDE DEF new
    <2>4. RowsAtWork(new) = RowsAtWork(loc) /\ Cleared(new) = Cleared(loc)
        BY <2>2, <2>3 DEF RowsAtWork, Cleared, Eligible
    <2>5. LeavesRows(loc, new)
        BY <2>3, <2>4 DEF LeavesRows
    <2> QED BY <2>1, <2>5 DEF new
<1>7. CASE Allocate(b)
    <2>1. PICK r \in loc.todo :
              LET plan == ConsiderRequest(loc, r)
              IN  batch' = [batch EXCEPT ![b] =
                      IF loc.todo = {r}
                      THEN [loc EXCEPT !.pc = "write", !.todo = {}, !.plan = NoPlan,
                                       !.writes = WritesOf(loc, plan)]
                      ELSE [loc EXCEPT !.todo = @ \ {r}, !.plan = plan]]
        BY <1>7 DEF Allocate
    <2>2. loc.pc = "slots" /\ UNCHANGED dangKy
        BY <1>7 DEF Allocate, tables
    <2> DEFINE last == LastTurn(loc, r)
               next == NextTurn(loc, r)
               plan == ConsiderRequest(loc, r)
    <2>3. batch' = [batch EXCEPT ![b] = last] \/ batch' = [batch EXCEPT ![b] = next]
        BY <2>1 DEF LastTurn, NextTurn
    <2>4. LeavesRows(loc, next)
        <3>1. next.pc = loc.pc /\ next.rows = loc.rows /\ next.rejected = loc.rejected
            BY <1>1, TurnFields
        <3> HIDE DEF next
        <3>2. RowsAtWork(next) = RowsAtWork(loc) /\ Cleared(next) = Cleared(loc)
            BY <2>2, <3>1 DEF RowsAtWork, Cleared, Eligible
        <3> QED BY <2>2, <3>2 DEF LeavesRows
    <2>5. LeavesRows(loc, last)
        <3>1. last.writes = WritesOf(loc, plan) /\ last.pc = "write"
            BY <1>1, TurnFields
        <3>2. plan \in Plan /\ PlanOfRows(loc.rows, plan)
            BY <1>1, ConsiderRequestGood
        <3>3. loc.todo \subseteq Eligible(loc)
            BY <1>1, <2>2 DEF ShapeLocals
        <3>4. FromDone(Eligible(loc) \ (loc.todo \ {r}), plan)
            BY <1>1, <3>3, ConsiderRequestOnce DEF OnceLocals, GoodPlan
        <3>5. FromDone(Eligible(loc), plan)
            BY <3>4 DEF FromDone
        <3> HIDE DEF last, plan
        <3>6. RowsAtWork(last) \subseteq RowsAtWork(loc)
            <4>1. \A w \in WritesOf(loc, plan) : WriteOfRows(loc.rows, w)
                BY <1>1, <3>2, WritesGood
            <4> QED BY <2>2, <3>1, <4>1 DEF RowsAtWork, WriteOfRows
        <3>7. Cleared(last) \subseteq Cleared(loc)
            <4>1. ASSUME NEW k \in Cleared(last)
                  PROVE  k \in OwnersOf(Eligible(loc))
                <5>1. PICK w \in Seating(WritesOf(loc, plan)) : k = <<w.row.sv, CourseOf[w.row.lhp]>>
                    BY <3>1 DEF Cleared, OwnersOf
                <5> QED BY <3>2, <3>5, <5>1, SeatedOwners
            <4> QED BY <2>2, <4>1 DEF Cleared
        <3> QED BY <2>2, <3>6, <3>7 DEF LeavesRows
    <2> QED BY <2>3, <2>4, <2>5
<1>8. CASE Write(b)
    <2>1. PICK w \in loc.writes :
              /\ Executed(w) \/ UNCHANGED dangKy
              /\ batch' = [batch EXCEPT ![b] = IF loc.writes = {w} THEN Idle
                                               ELSE [loc EXCEPT !.writes = @ \ {w}]]
        BY <1>8 DEF Write, tables
    <2> DEFINE next == WrittenLocals(loc, w)
               new == IF loc.writes = {w} THEN Idle ELSE next
    <2>2. batch' = [batch EXCEPT ![b] = new]
        BY <2>1 DEF WrittenLocals
    <2>3. loc.pc = "write"
        BY <1>8 DEF Write
    <2>4. next.writes = loc.writes \ {w} /\ next.pc = "write"
        BY <1>1, <2>3, WrittenFields
    <2> HIDE DEF next
    <2>5. new = Idle \/ new = next
        OBVIOUS
    <2> HIDE DEF new
    <2>6. ASSUME NEW r \in RowsAtWork(new)
          PROVE  \E v \in loc.writes \ {w} : v.op # "count" /\ r = v.row
        BY <2>4, <2>5, IdleWork DEF RowsAtWork
    <2>7. ASSUME NEW k \in Cleared(new)
          PROVE  \E v \in Seating(loc.writes) \ {w} : k = <<v.row.sv, CourseOf[v.row.lhp]>>
        <3>1. new = next
            BY <2>5, IdleWork
        <3> QED BY <2>4, <3>1 DEF Cleared, OwnersOf, Seating
    <2>8. CASE Executed(w)
        <3>1. Executes(loc, new)
            BY <2>3, <2>6, <2>7, <2>8 DEF Executes
        <3> QED BY <2>2, <3>1
    <2>9. CASE UNCHANGED dangKy
        <3>1. RowsAtWork(new) \subseteq RowsAtWork(loc)
            BY <2>3, <2>6 DEF RowsAtWork
        <3>2. Cleared(new) \subseteq Cleared(loc)
            BY <2>3, <2>7 DEF Cleared, OwnersOf
        <3>3. LeavesRows(loc, new)
            BY <2>9, <3>1, <3>2 DEF LeavesRows
        <3> QED BY <2>2, <3>3
    <2> QED BY <2>1, <2>8, <2>9
<1> QED BY <1>3, <1>4, <1>5, <1>6, <1>7, <1>8 DEF BatchStep

-----------------------------------------------------------------------------
(***************************************************************************)
(* Outcomes                                                                *)
(***************************************************************************)

\* A batch writes to no confirmed row.
Unseated == \A b \in Batches : \A r \in RowsAtWork(batch[b]) : ~Holds(dangKy, r.sv, r.lhp)

\* Rows have their course, which is what a check looks for.  A statement about
\* a row that a cancellation has deleted brings it back without one.
CourseOnFile(sv, lhp) == Cancelled(lhp) = {} => dangKy[sv][lhp].monHoc = CourseOf[lhp]

CourseKnown ==
    /\ \A sv \in Students, lhp \in Sections :
           dangKy[sv][lhp].trangThai # "khong" => CourseOnFile(sv, lhp)
    /\ \A b \in Batches : \A r \in RowsAtWork(batch[b]) : CourseOnFile(r.sv, r.lhp)

\* The student has no seat of the course, cancelled sections aside.
Free(sv, mon) ==
    \A lhp \in Sections :
        CourseOf[lhp] = mon /\ Cancelled(lhp) = {} => ~Holds(dangKy, sv, lhp)

\* While no check has failed, the students a batch may give a seat have none.
ClearedFree ==
    failures = 0 => \A b \in Batches : \A k \in Cleared(batch[b]) : Free(k[1], k[2])

\* A student has one seat of a course, cancelled sections aside.
Single ==
    failures = 0 =>
        \A sv \in Students, l1, l2 \in Sections :
            /\ Holds(dangKy, sv, l1) /\ Holds(dangKy, sv, l2)
            /\ CourseOf[l1] = CourseOf[l2]
            /\ Cancelled(l1) \union Cancelled(l2) = {}
            => l1 = l2

Outcomes == Unseated /\ CourseKnown /\ ClearedFree /\ Single

OutcomeInv == FiledInv /\ OnceInv /\ Outcomes

\* Once cancelled, a section stays so.
LEMMA CancelledGrows ==
    ASSUME sent \subseteq sent', NEW lhp
    PROVE  Cancelled(lhp)' = {} => Cancelled(lhp) = {}
BY DEF Cancelled

\* The rows and students of a batch have their types.
LEMMA WorkType ==
    ASSUME NEW loc, GoodLocals(loc)
    PROVE  RowsAtWork(loc) \subseteq PendingRow /\ \A k \in Cleared(loc) : k[1] \in Students
<1>1. /\ loc.rows \subseteq PendingRow
      /\ \A w \in loc.writes : w.row \in PendingRow
    BY DEF GoodLocals, BatchType, WriteOfRows
<1>2. RowsAtWork(loc) \subseteq PendingRow
    BY <1>1 DEF RowsAtWork
<1>3. ASSUME NEW rows \in SUBSET PendingRow, NEW k \in OwnersOf(rows)
      PROVE  k[1] \in Students
    BY <1>3 DEF OwnersOf, PendingRow
<1>4. ASSUME NEW k \in Cleared(loc)
      PROVE  k[1] \in Students
    <2>1. PICK rows \in SUBSET PendingRow : k \in OwnersOf(rows)
        BY <1>1, <1>4 DEF Cleared, Eligible, Seating
    <2> QED BY <1>3, <2>1
<1> QED BY <1>2, <1>4

\* A step that gives no seat, and after which batches work on no other rows.
LEMMA SeatsFewer ==
    ASSUME Outcomes, sent \subseteq sent', failures' = 0 => failures = 0,
           \A s \in Students, l \in Sections : Holds(dangKy', s, l) => Holds(dangKy, s, l),
           \A b \in Batches : RowsAtWork(batch'[b]) \subseteq RowsAtWork(batch[b]),
           \A b \in Batches : Cleared(batch'[b]) \subseteq Cleared(batch[b]),
           TypeInv'
    PROVE  Unseated' /\ ClearedFree' /\ Single'
<1>1. \A b \in Batches :
          /\ RowsAtWork(batch'[b]) \subseteq PendingRow
          /\ \A k \in Cleared(batch'[b]) : k[1] \in Students
    <2>1. BatchesType'
        BY TypePartsNext
    <2> QED BY <2>1, WorkType DEF BatchesType
<1>2. Unseated'
    BY <1>1 DEF Unseated, Outcomes, PendingRow
<1>3. ClearedFree'
    <2> SUFFICES ASSUME failures' = 0, NEW b \in Batches, NEW k \in Cleared(batch'[b]),
                        NEW lhp \in Sections, CourseOf[lhp] = k[2], Cancelled(lhp)' = {}
                 PROVE  ~Holds(dangKy', k[1], lhp)
        BY DEF ClearedFree, Free
    <2>1. Free(k[1], k[2])
        BY DEF ClearedFree, Outcomes
    <2>2. ~Holds(dangKy, k[1], lhp)
        BY <2>1, CancelledGrows DEF Free
    <2> QED BY <1>1, <2>2
<1>4. Single'
    <2> SUFFICES ASSUME failures' = 0, NEW s \in Students, NEW l1 \in Sections, NEW l2 \in Sections,
                        Holds(dangKy', s, l1), Holds(dangKy', s, l2),
                        CourseOf[l1] = CourseOf[l2], Cancelled(l1)' \union Cancelled(l2)' = {}
                 PROVE  l1 = l2
        BY DEF Single
    <2>1. Cancelled(l1) = {} /\ Cancelled(l2) = {}
        BY CancelledGrows
    <2> QED BY <2>1 DEF Single, Outcomes
<1> QED BY <1>2, <1>3, <1>4

\* A step that writes no row.
LEMMA UnwrittenOutcomes ==
    ASSUME Outcomes, TypeInv', UNCHANGED dangKy, sent \subseteq sent', failures' = 0 => failures = 0,
           \A b \in Batches : RowsAtWork(batch'[b]) \subseteq RowsAtWork(batch[b]) \union ChoXuLyRows,
           \A b \in Batches : \A k \in Cleared(batch'[b]) :
               k \in Cleared(batch[b]) \/ (failures' = 0 => ~DaDangKyMonHoc(k[1], k[2]))
    PROVE  Outcomes'
<1>1. \A r \in ChoXuLyRows :
          r.sv \in Students /\ r.lhp \in Sections /\ dangKy[r.sv][r.lhp].trangThai = "ChoXuLy"
    BY DEF ChoXuLyRows
<1>2. \A b \in Batches : \A k \in Cleared(batch'[b]) : k[1] \in Students
    <2>1. BatchesType'
        BY TypePartsNext
    <2> QED BY <2>1, WorkType DEF BatchesType
<1>3. Unseated'
    BY <1>1 DEF Unseated, Outcomes, Holds
<1>4. CourseKnown'
    <2>1. ASSUME NEW s, NEW l, CourseOnFile(s, l)
          PROVE  CourseOnFile(s, l)'
        BY <2>1, CancelledGrows DEF CourseOnFile
    <2>2. \A b \in Batches : \A r \in RowsAtWork(batch'[b]) : CourseOnFile(r.sv, r.lhp)
        BY <1>1 DEF CourseKnown, Outcomes
    <2> QED BY <2>1, <2>2 DEF CourseKnown, Outcomes
<1>5. ClearedFree'
    <2> SUFFICES ASSUME failures' = 0, NEW b \in Batches, NEW k \in Cleared(batch'[b]),
                        NEW lhp \in Sections, CourseOf[lhp] = k[2], Cancelled(lhp)' = {}
                 PROVE  ~Holds(dangKy', k[1], lhp)
        BY DEF ClearedFree, Free
    <2>1. Cancelled(lhp) = {} /\ k[1] \in Students
        BY <1>2, CancelledGrows
    <2>2. CASE k \in Cleared(batch[b])
        <3>1. Free(k[1], k[2])
            BY <2>2 DEF ClearedFree, Outcomes
        <3> QED BY <2>1, <3>1 DEF Free
    <2>3. CASE ~DaDangKyMonHoc(k[1], k[2])
        <3>1. dangKy[k[1]][lhp].trangThai = "DaDangKy" => dangKy[k[1]][lhp].monHoc = k[2]
            BY <2>1 DEF Outcomes, CourseKnown, CourseOnFile
        <3>2. dangKy[k[1]][lhp].trangThai # "DaDangKy"
            BY <2>3, <3>1 DEF DaDangKyMonHoc
        <3> QED BY <3>2 DEF Holds
    <2> QED BY <2>2, <2>3
<1>6. Single'
    <2> SUFFICES ASSUME failures' = 0, NEW s \in Students, NEW l1 \in Sections, NEW l2 \in Sections,
                        Holds(dangKy, s, l1), Holds(dangKy, s, l2),
                        CourseOf[l1] = CourseOf[l2], Cancelled(l1)' \union Cancelled(l2)' = {}
                 PROVE  l1 = l2
        BY DEF Single
    <2>1. Cancelled(l1) = {} /\ Cancelled(l2) = {}
        BY CancelledGrows
    <2> QED BY <2>1 DEF Single, Outcomes
<1> QED BY <1>3, <1>4, <1>5, <1>6 DEF Outcomes

\* A request.
LEMMA RequestOutcomes ==
    ASSUME OutcomeInv, TypeInv', NEW d \in inbox, DangKyMonHoc(d) \/ HuyXoa(d)
    PROVE  Outcomes'
<1> DEFINE q == d[1]
<1>1. TypeInv /\ CallsType /\ q \in sent
    <2>1. TypeInv /\ CallsType
        BY TypeParts DEF OutcomeInv, FiledInv, ShapeInv
    <2> QED BY <2>1, DeliveryType
<1>2. UNCHANGED <<sent, batch, failures>>
    BY DEF DangKyMonHoc, HuyXoa
<1>3. \A s \in Students, l \in Sections : Holds(dangKy', s, l) => Holds(dangKy, s, l)
    BY <1>1, RequestHolds
<1>4. Unseated' /\ ClearedFree' /\ Single'
    BY <1>2, <1>3, SeatsFewer DEF OutcomeInv
<1>5. ASSUME NEW s \in Students, NEW l \in Sections
      PROVE  /\ dangKy'[s][l].trangThai # "khong" => CourseOnFile(s, l)'
             /\ CourseOnFile(s, l) => CourseOnFile(s, l)'
    <2> DEFINE new == dangKy'[s][l]
    <2>1. \/ new = dangKy[s][l]
          \/ l = q.lhp /\ HuyXoa(d) /\ new = NoRow
          \/ new.monHoc = CourseOf[l]
        BY <1>1, RequestFields
    <2>2. CASE new = dangKy[s][l]
        BY <1>2, <2>2 DEF OutcomeInv, Outcomes, CourseKnown, CourseOnFile, Cancelled
    <2>3. CASE l = q.lhp /\ HuyXoa(d) /\ new = NoRow
        <3>1. q \in Cancelled(l)
            BY <1>1, <2>3 DEF HuyXoa, Cancelled
        <3> QED BY <1>2, <2>3, <3>1 DEF NoRow, CourseOnFile, Cancelled
    <2>4. CASE new.monHoc = CourseOf[l]
        BY <2>4 DEF CourseOnFile
    <2> QED BY <2>1, <2>2, <2>3, <2>4
<1>6. CourseKnown'
    <2>1. \A b \in Batches : RowsAtWork(batch[b]) \subseteq PendingRow
        BY <1>1, TypeParts, WorkType DEF BatchesType
    <2>2. \A b \in Batches : \A r \in RowsAtWork(batch'[b]) : CourseOnFile(r.sv, r.lhp)'
        BY <1>2, <1>5, <2>1 DEF OutcomeInv, Outcomes, CourseKnown, PendingRow
    <2> QED BY <1>5, <2>2 DEF CourseKnown
<1> QED BY <1>4, <1>6 DEF Outcomes

\* A batch refuses a row.
LEMMA RefusedOutcomes ==
    ASSUME OneBatch, OutcomeInv, TypeInv', UNCHANGED sent, failures' = 0 => failures = 0,
           NEW b \in Batches, NEW new, batch' = [batch EXCEPT ![b] = new],
           Refuses(batch[b], new)
    PROVE  Outcomes'
<1>1. TablesType /\ BatchesType
    BY TypeParts DEF OutcomeInv, FiledInv, ShapeInv
<1>2. \A c \in Batches : c = b /\ batch'[c] = new
    BY <1>1 DEF OneBatch, BatchesType
<1>3. RowsAtWork(batch[b]) \subseteq PendingRow
    BY <1>1, WorkType DEF BatchesType
<1>4. PICK r \in RowsAtWork(batch[b]) \intersect batch[b].toReject :
          dangKy' = SetTrangThai(dangKy, r.sv, r.lhp, "TuChoi")
    BY DEF Refuses
<1>5. \A s \in Students, l \in Sections : Holds(dangKy', s, l) => Holds(dangKy, s, l)
    BY <1>1, <1>3, <1>4, RefusedHolds
<1>6. Unseated' /\ ClearedFree' /\ Single'
    BY <1>2, <1>5, SeatsFewer DEF OutcomeInv, Refuses
<1>7. ASSUME NEW s \in Students, NEW l \in Sections
      PROVE  /\ dangKy'[s][l].trangThai # "khong" => CourseOnFile(s, l)'
             /\ CourseOnFile(s, l) => CourseOnFile(s, l)'
    <2>1. r.sv \in Students /\ r.lhp \in Sections /\ "TuChoi" \in TrangThai /\ dangKy \in Table
        BY <1>1, <1>3 DEF PendingRow, TrangThai, TablesType
    <2>2. /\ ~(s = r.sv /\ l = r.lhp) => dangKy'[s][l] = dangKy[s][l]
          /\ s = r.sv /\ l = r.lhp => dangKy'[s][l].monHoc = dangKy[s][l].monHoc
        BY <1>4, <2>1, SetFields
    <2>3. CourseOnFile(r.sv, r.lhp)
        BY DEF OutcomeInv, Outcomes, CourseKnown
    <2> QED BY <2>2, <2>3 DEF OutcomeInv, Outcomes, CourseKnown, CourseOnFile, Cancelled
<1>8. CourseKnown'
    <2>1. \A c \in Batches : \A x \in RowsAtWork(batch'[c]) : CourseOnFile(x.sv, x.lhp)'
        BY <1>2, <1>3, <1>7 DEF OutcomeInv, Outcomes, CourseKnown, PendingRow, Refuses
    <2> QED BY <1>7, <2>1 DEF CourseKnown
<1> QED BY <1>6, <1>8 DEF Outcomes

\* A batch executes a statement.  Its other statements are about other
\* students or courses.
LEMMA ExecutedOutcomes ==
    ASSUME OneBatch, OutcomeInv, TypeInv', UNCHANGED sent, failures' = 0 => failures = 0,
           NEW b \in Batches, NEW new, batch' = [batch EXCEPT ![b] = new],
           Executes(batch[b], new)
    PROVE  Outcomes'
<1> DEFINE loc == batch[b]
<1>1. TablesType /\ BatchesType /\ GoodLocals(loc)
    BY TypeParts DEF OutcomeInv, FiledInv, ShapeInv, BatchesType
<1>2. \A c \in Batches : c = b /\ batch'[c] = new
    BY <1>1 DEF OneBatch, BatchesType
<1>3. /\ loc.rows \in SUBSET PendingRow /\ GoodRows(sent, loc.rows)
      /\ WritesInPlace(loc.writes) /\ WritesOnce(loc.writes) /\ loc.pc = "write"
    BY <1>1 DEF GoodLocals, BatchType, OutcomeInv, FiledInv, RowsFiled, ShapeInv, ShapeLocals,
                OnceInv, OnceLocals, Executes
<1>4. PICK w \in loc.writes :
          /\ Executed(w)
          /\ \A r \in RowsAtWork(new) : \E v \in loc.writes \ {w} : v.op # "count" /\ r = v.row
          /\ \A k \in Cleared(new) :
                 \E v \in Seating(loc.writes) \ {w} : k = <<v.row.sv, CourseOf[v.row.lhp]>>
    BY DEF Executes
<1>5. \A v \in loc.writes :
          /\ WriteOfRows(loc.rows, v)
          /\ v.row.sv \in Students /\ v.row.lhp \in Sections /\ v.lhp \in Sections
          /\ CourseOf[v.lhp] = CourseOf[v.row.lhp]
    <2>1. \A v \in loc.writes : WriteOfRows(loc.rows, v)
        BY <1>1 DEF GoodLocals
    <2>2. \A v \in loc.writes :
              v.row.sv \in Students /\ v.row.lhp \in Sections /\ v.lhp \in Sections
        BY <2>1 DEF WriteOfRows, WriteOp, PendingRow
    <2> QED BY <1>3, <2>1, <2>2, WriteCourse
<1>6. WritesInPlace({w})
    BY <1>3 DEF WritesInPlace
<1>7. \A v \in loc.writes \ {w} : v.op # "count" /\ SameOwner(w, v) => w.op = "count"
    BY <1>3 DEF WritesOnce
<1>8. \A v \in loc.writes : v.op # "count" =>
          ~Holds(dangKy, v.row.sv, v.row.lhp) /\ CourseOnFile(v.row.sv, v.row.lhp)
    BY <1>3 DEF OutcomeInv, Outcomes, Unseated, CourseKnown, RowsAtWork
<1>9. \A s \in Students, l \in Sections :
          Holds(dangKy', s, l) =>
              \/ Holds(dangKy, s, l)
              \/ w.op \in {"confirm", "move"} /\ s = w.row.sv /\ l = w.lhp
    BY <1>1, <1>3, <1>4, <1>5, <1>6, ExecutedHolds
<1>10. Unseated'
    <2> SUFFICES ASSUME NEW r \in RowsAtWork(new), Holds(dangKy', r.sv, r.lhp)
                 PROVE  FALSE
        BY <1>2 DEF Unseated
    <2>1. PICK v \in loc.writes \ {w} : v.op # "count" /\ r = v.row
        BY <1>4
    <2>2. r.sv \in Students /\ r.lhp \in Sections /\ ~Holds(dangKy, r.sv, r.lhp)
        BY <1>5, <1>8, <2>1
    <2>3. w.op \in {"confirm", "move"} /\ r.sv = w.row.sv /\ r.lhp = w.lhp
        BY <1>9, <2>2
    <2>4. SameOwner(w, v)
        BY <1>5, <2>1, <2>3 DEF SameOwner
    <2> QED BY <1>7, <2>1, <2>3, <2>4
<1>11. ASSUME NEW s \in Students, NEW l \in Sections
       PROVE  /\ dangKy'[s][l].trangThai # "khong" => CourseOnFile(s, l)'
              /\ CourseOnFile(s, l) =>
                     \/ CourseOnFile(s, l)'
                     \/ w.op = "move" /\ s = w.row.sv /\ l = w.row.lhp
    <2> DEFINE old == dangKy[s][l]
               now == dangKy'[s][l]
    <2>1. TablesType /\ loc.rows \in SUBSET PendingRow /\ WriteOfRows(loc.rows, w) /\ Executed(w)
        BY <1>1, <1>3, <1>4, <1>5
    <2>2. \/ now = old
          \/ /\ w.op = "move" /\ s = w.row.sv /\ l = w.lhp
             /\ now = [trangThai |-> "DaDangKy", monHoc |-> CourseOf[l], phu |-> NoSection]
          \/ w.op = "move" /\ s = w.row.sv /\ l = w.row.lhp /\ now = NoRow
          \/ /\ w.op \in {"confirm", "wait"} /\ s = w.row.sv /\ l = w.row.lhp
             /\ now.trangThai \in {"DaDangKy", "DanhSachCho"}
             /\ now.monHoc = old.monHoc /\ now.phu = old.phu
        BY <1>6, <2>1, ExecutedFields
    <2>3. CASE now = old
        BY <2>3 DEF OutcomeInv, Outcomes, CourseKnown, CourseOnFile, Cancelled
    <2>4. CASE now = [trangThai |-> "DaDangKy", monHoc |-> CourseOf[l], phu |-> NoSection]
        BY <2>4 DEF CourseOnFile
    <2>5. CASE w.op = "move" /\ s = w.row.sv /\ l = w.row.lhp /\ now = NoRow
        BY <2>5 DEF NoRow
    <2>6. CASE w.op \in {"confirm", "wait"} /\ s = w.row.sv /\ l = w.row.lhp /\ now.monHoc = old.monHoc
        <3>1. CourseOnFile(s, l)
            BY <1>8, <2>6
        <3> QED BY <2>6, <3>1 DEF CourseOnFile, Cancelled
    <2> QED BY <2>2, <2>3, <2>4, <2>5, <2>6
<1>12. CourseKnown'
    <2>1. ASSUME NEW r \in RowsAtWork(new)
          PROVE  CourseOnFile(r.sv, r.lhp)'
        <3>1. PICK v \in loc.writes \ {w} : v.op # "count" /\ r = v.row
            BY <1>4
        <3>2. r.sv \in Students /\ r.lhp \in Sections /\ CourseOnFile(r.sv, r.lhp)
            BY <1>5, <1>8, <3>1
        <3>3. ~(w.op = "move" /\ r.sv = w.row.sv /\ r.lhp = w.row.lhp)
            BY <1>7, <3>1 DEF SameOwner
        <3> QED BY <1>11, <3>2, <3>3
    <2> QED BY <1>2, <1>11, <2>1 DEF CourseKnown
<1>13. ASSUME NEW v \in Seating(loc.writes), failures = 0
       PROVE  Free(v.row.sv, CourseOf[v.row.lhp])
    <2> DEFINE k == <<v.row.sv, CourseOf[v.row.lhp]>>
    <2>1. k \in Cleared(loc)
        BY <1>3 DEF Cleared, OwnersOf
    <2>2. Free(k[1], k[2])
        BY <1>13, <2>1 DEF OutcomeInv, Outcomes, ClearedFree
    <2> QED BY <2>2
<1>14. ClearedFree'
    <2> SUFFICES ASSUME failures' = 0, NEW k \in Cleared(new),
                        NEW lhp \in Sections, CourseOf[lhp] = k[2], Cancelled(lhp)' = {},
                        Holds(dangKy', k[1], lhp)
                 PROVE  FALSE
        BY <1>2 DEF ClearedFree, Free
    <2>1. PICK v \in Seating(loc.writes) \ {w} : k = <<v.row.sv, CourseOf[v.row.lhp]>>
        BY <1>4
    <2>2. v \in loc.writes /\ v.op # "count"
        BY <2>1 DEF Seating
    <2>3. ~Holds(dangKy, v.row.sv, lhp)
        BY <1>13, <2>1 DEF Free, Cancelled
    <2>4. w.op \in {"confirm", "move"} /\ v.row.sv = w.row.sv /\ lhp = w.lhp
        BY <1>5, <1>9, <2>1, <2>2, <2>3
    <2>5. SameOwner(w, v)
        BY <1>5, <2>1, <2>4 DEF SameOwner
    <2> QED BY <1>7, <2>1, <2>2, <2>4, <2>5
<1>15. Single'
    <2> SUFFICES ASSUME failures' = 0, NEW s \in Students, NEW l1 \in Sections, NEW l2 \in Sections,
                        Holds(dangKy', s, l1), Holds(dangKy', s, l2),
                        CourseOf[l1] = CourseOf[l2], Cancelled(l1)' \union Cancelled(l2)' = {}
                 PROVE  l1 = l2
        BY DEF Single
    <2>1. Cancelled(l1) = {} /\ Cancelled(l2) = {}
        BY DEF Cancelled
    <2>2. CASE Holds(dangKy, s, l1) /\ Holds(dangKy, s, l2)
        BY <2>1, <2>2 DEF OutcomeInv, Outcomes, Single
    <2>3. ASSUME w.op \in {"confirm", "move"}, s = w.row.sv,
                 NEW l \in Sections, Cancelled(l) = {}, CourseOf[l] = CourseOf[w.lhp]
          PROVE  ~Holds(dangKy, s, l)
        <3>1. w \in Seating(loc.writes)
            BY <2>3 DEF Seating
        <3>2. Free(w.row.sv, CourseOf[w.row.lhp])
            BY <1>13, <3>1
        <3> QED BY <1>5, <2>3, <3>2 DEF Free
    <2> QED BY <1>9, <2>1, <2>2, <2>3
<1> QED BY <1>10, <1>12, <1>14, <1>15 DEF Outcomes

\* Failed statements are not forgotten.
LEMMA FailuresStay ==
    ASSUME TypeInv, Next
    PROVE  failures' = 0 => failures = 0
<1>1. failures \in Nat
    BY TypeParts, ConstantsAssumption DEF BoundsType
<1>2. UNCHANGED failures \/ StatementFails
    <2>1. ASSUME NEW q \in Requests, Send(q) PROVE UNCHANGED failures
        BY <2>1 DEF Send
    <2>2. ASSUME NEW d \in inbox, Drop(d) \/ DangKyMonHoc(d) \/ HuyXoa(d) PROVE UNCHANGED failures
        BY <2>2 DEF Drop, DangKyMonHoc, HuyXoa
    <2>3. ASSUME NEW d \in huy, HuyTru(d) PROVE UNCHANGED failures \/ StatementFails
        BY <2>3 DEF HuyTru
    <2>4. ASSUME NEW b \in Batches, BatchStep(b) PROVE UNCHANGED failures \/ StatementFails
        <3>1. CASE Scan(b) \/ Allocate(b)
            BY <3>1 DEF Scan, Allocate
        <3>2. CASE CheckRow(b)
            BY <3>2 DEF CheckRow
        <3>3. CASE Reject(b)
            BY <3>3 DEF Reject
        <3>4. CASE ReadSlot(b)
            BY <3>4 DEF ReadSlot
        <3>5. CASE Write(b)
            BY <3>5 DEF Write
        <3> QED BY <2>4, <3>1, <3>2, <3>3, <3>4, <3>5 DEF BatchStep
    <2>5. ASSUME NEW p \in Replicas, Crash(p) PROVE UNCHANGED failures
        BY <2>5 DEF Crash
    <2> QED BY <2>1, <2>2, <2>3, <2>4, <2>5 DEF Next
<1> QED BY <1>1, <1>2 DEF StatementFails

\* Outcomes at the start and after every step.
LEMMA OutcomeInit == Init => OutcomeInv
<1> SUFFICES ASSUME Init PROVE OutcomeInv
    OBVIOUS
<1>1. \A b \in Batches : RowsAtWork(batch[b]) = {} /\ Cleared(batch[b]) = {}
    BY IdleWork DEF Init
<1>2. \A s \in Students, l \in Sections : dangKy[s][l].trangThai = "khong"
    BY DEF Init, NoRow
<1>3. Outcomes
    BY <1>1, <1>2 DEF Outcomes, Unseated, CourseKnown, ClearedFree, Single, Holds
<1> QED BY <1>3, FiledInit, OnceInit DEF OutcomeInv

\* Every step keeps outcomes, for one batch at a time.
LEMMA OutcomeStep ==
    ASSUME OneBatch
    PROVE  BatchesRemembered /\ OutcomeInv /\ [Next]_vars => OutcomeInv'
<1> SUFFICES ASSUME BatchesRemembered, OutcomeInv, [Next]_vars PROVE OutcomeInv'
    OBVIOUS
<1>1. FiledInv' /\ OnceInv' /\ TypeInv /\ TypeInv' /\ BatchesType
    <2>1. FiledInv' /\ OnceInv'
        BY FiledStep, OnceStep DEF OutcomeInv
    <2>2. TypeInv /\ TypeInv'
        BY <2>1 DEF OutcomeInv, FiledInv, ShapeInv
    <2> QED BY <2>1, <2>2, TypeParts
<1>2. sent \subseteq sent' /\ (failures' = 0 => failures = 0)
    BY <1>1, SentGrows, FailuresStay DEF vars
<1>3. CASE UNCHANGED <<dangKy, batch>>
    BY <1>1, <1>2, <1>3, UnwrittenOutcomes DEF OutcomeInv
<1>4. ASSUME NEW d \in inbox, DangKyMonHoc(d) \/ HuyXoa(d)
      PROVE  Outcomes'
    BY <1>1, <1>4, RequestOutcomes
<1>5. ASSUME NEW b \in Batches, BatchStep(b)
      PROVE  Outcomes'
    <2>1. PICK new :
              /\ batch' = [batch EXCEPT ![b] = new]
              /\ LeavesRows(batch[b], new) \/ Refuses(batch[b], new) \/ Executes(batch[b], new)
        BY <1>5, BatchWork DEF OutcomeInv
    <2>2. UNCHANGED sent
        BY <1>5, BatchEffect DEF OutcomeInv, FiledInv
    <2>3. CASE LeavesRows(batch[b], new)
        <3>1. \A c \in Batches : batch'[c] = IF c = b THEN new ELSE batch[c]
            BY <1>1, <2>1 DEF BatchesType
        <3> QED BY <1>1, <1>2, <2>3, <3>1, UnwrittenOutcomes DEF OutcomeInv, LeavesRows
    <2>4. CASE Refuses(batch[b], new)
        BY <1>1, <1>2, <2>1, <2>2, <2>4, RefusedOutcomes
    <2>5. CASE Executes(batch[b], new)
        BY <1>1, <1>2, <2>1, <2>2, <2>5, ExecutedOutcomes
    <2> QED BY <2>1, <2>3, <2>4, <2>5
<1>6. ASSUME NEW r \in Replicas, Crash(r)
      PROVE  Outcomes'
    <2>1. UNCHANGED dangKy /\ \A b \in Batches : batch'[b] = Idle \/ batch'[b] = batch[b]
        BY <1>6 DEF Crash, tables
    <2>2. \A b \in Batches :
              /\ RowsAtWork(batch'[b]) \subseteq RowsAtWork(batch[b])
              /\ Cleared(batch'[b]) \subseteq Cleared(batch[b])
        BY <2>1, IdleWork
    <2> QED BY <1>1, <1>2, <2>1, <2>2, UnwrittenOutcomes DEF OutcomeInv
<1>7. \/ UNCHANGED <<dangKy, batch>>
      \/ \E d \in inbox : DangKyMonHoc(d) \/ HuyXoa(d)
      \/ \E b \in Batches : BatchStep(b)
      \/ \E r \in Replicas : Crash(r)
    BY DEF Next, vars, Send, Drop, HuyTru, tables
<1> QED BY <1>1, <1>3, <1>4, <1>5, <1>6, <1>7 DEF OutcomeInv

\* While one batch runs at a time, and the optimizer remembers enough, a
\* confirmed row stays confirmed until a delivered request of the student
\* overwrites or deletes it: no check, no refusal and no statement of a batch
\* takes a seat back, whatever fails or stops.
THEOREM OutcomesLast == OneBatch /\ OneCourseRemembered => (Spec => OutcomeKept)
<1> SUFFICES ASSUME OneBatch, OneCourseRemembered PROVE Spec => OutcomeKept
    OBVIOUS
<1> DEFINE Kept == \A sv \in Students, lhp \in Sections :
                       sv \in Confirmed(lhp) =>
                           \/ sv \in Confirmed(lhp)'
                           \/ \E d \in inbox \ inbox' : d[1].sv = sv /\ d[1].lhp = lhp
<1>1. Init => OutcomeInv
    BY OutcomeInit
<1>2. OutcomeInv /\ [Next]_vars => OutcomeInv'
    BY WishesRemembered, OutcomeStep DEF OutcomeInv
<1>3. OutcomeInv /\ [Next]_vars => [Kept]_vars
    <2> SUFFICES ASSUME OutcomeInv, Next, NEW sv \in Students, NEW lhp \in Sections,
                        Holds(dangKy, sv, lhp)
                 PROVE  \/ Holds(dangKy', sv, lhp)
                        \/ \E d \in inbox \ inbox' : d[1].sv = sv /\ d[1].lhp = lhp
        BY DEF Confirmed, Holds
    <2>1. TypeInv /\ TablesType /\ BatchesType
        BY TypeParts DEF OutcomeInv, FiledInv, ShapeInv
    <2>2. CASE UNCHANGED dangKy
        BY <2>2
    <2>3. ASSUME NEW d \in inbox, DangKyMonHoc(d) \/ HuyXoa(d)
          PROVE  \/ Holds(dangKy', sv, lhp)
                 \/ \E x \in inbox \ inbox' : x[1].sv = sv /\ x[1].lhp = lhp
        <3>1. Holds(dangKy', sv, lhp) \/ (sv = d[1].sv /\ lhp = d[1].lhp)
            BY <2>1, <2>3, RequestHolds
        <3>2. d \in inbox \ inbox'
            BY <2>3 DEF DangKyMonHoc, HuyXoa
        <3> QED BY <3>1, <3>2
    <2>4. ASSUME NEW b \in Batches, BatchStep(b)
          PROVE  Holds(dangKy', sv, lhp)
        <3> DEFINE loc == batch[b]
        <3>1. \E new : LeavesRows(loc, new) \/ Refuses(loc, new) \/ Executes(loc, new)
            BY <2>4, WishesRemembered, BatchWork DEF OutcomeInv
        <3>2. PICK new : LeavesRows(loc, new) \/ Refuses(loc, new) \/ Executes(loc, new)
            BY <3>1
        <3>3. \A r \in RowsAtWork(loc) : ~(sv = r.sv /\ lhp = r.lhp)
            BY DEF OutcomeInv, Outcomes, Unseated
        <3>4. GoodLocals(loc) /\ WritesInPlace(loc.writes)
            BY <2>1 DEF BatchesType, OutcomeInv, FiledInv, ShapeInv, ShapeLocals
        <3>5. CASE LeavesRows(loc, new)
            BY <3>5 DEF LeavesRows
        <3>6. CASE Refuses(loc, new)
            <4>1. PICK r \in RowsAtWork(loc) \intersect loc.toReject :
                      dangKy' = SetTrangThai(dangKy, r.sv, r.lhp, "TuChoi")
                BY <3>6 DEF Refuses
            <4>2. r \in PendingRow
                BY <3>4, WorkType
            <4> QED BY <2>1, <3>3, <4>1, <4>2, RefusedHolds
        <3>7. CASE Executes(loc, new)
            <4>1. PICK w \in loc.writes : Executed(w)
                BY <3>7 DEF Executes
            <4>2. loc.rows \in SUBSET PendingRow /\ WriteOfRows(loc.rows, w) /\ WritesInPlace({w})
                BY <3>4 DEF GoodLocals, BatchType, WritesInPlace
            <4>3. w.op # "count" => w.row \in RowsAtWork(loc)
                BY <3>7 DEF Executes, RowsAtWork
            <4>4. Holds(dangKy', sv, lhp) <=>
                      \/ w.op \in {"confirm", "move"} /\ sv = w.row.sv /\ lhp = w.lhp
                      \/ /\ Holds(dangKy, sv, lhp)
                         /\ ~(w.op \in {"move", "wait"} /\ sv = w.row.sv /\ lhp = w.row.lhp)
                BY <2>1, <4>1, <4>2, ExecutedHolds
            <4> QED BY <3>3, <4>3, <4>4
        <3> QED BY <3>2, <3>5, <3>6, <3>7
    <2>5. \/ UNCHANGED dangKy
          \/ \E d \in inbox : DangKyMonHoc(d) \/ HuyXoa(d)
          \/ \E b \in Batches : BatchStep(b)
        BY DEF Next, Send, Drop, HuyTru, Crash, tables
    <2> QED BY <2>2, <2>3, <2>4, <2>5
<1>4. OutcomeKept <=> [][Kept]_vars
    BY DEF OutcomeKept
<1> HIDE DEF Kept
<1> QED BY <1>1, <1>2, <1>3, <1>4, PTL DEF Spec

\* Whoever stops, if no statement fails and nobody cancels, a student gets one
\* section of a course, also one who wishes for several: the check finds the
\* seat that an earlier batch gave, and the optimizer the one it has given in
\* this batch.
THEOREM OneSection ==
    OneBatch /\ OneCourseRemembered /\ NoCancellations /\ MaxFailures = 0
        => (Spec => []OneSectionPerCourse)
<1> SUFFICES ASSUME OneBatch, OneCourseRemembered, NoCancellations, MaxFailures = 0
             PROVE  Spec => []OneSectionPerCourse
    OBVIOUS
<1>1. Init => OutcomeInv
    BY OutcomeInit
<1>2. OutcomeInv /\ [Next]_vars => OutcomeInv'
    BY WishesRemembered, OutcomeStep DEF OutcomeInv
<1>3. OutcomeInv => OneSectionPerCourse
    <2> SUFFICES ASSUME OutcomeInv PROVE OneSectionPerCourse
        OBVIOUS
    <2>1. CallsType /\ failures = 0
        BY TypeParts DEF OutcomeInv, FiledInv, ShapeInv, BoundsType
    <2>2. \A lhp : Cancelled(lhp) = {}
        BY <2>1 DEF CallsType, NoCancellations, Cancelled
    <2> QED BY <2>1, <2>2 DEF OutcomeInv, Outcomes, Single, OneSectionPerCourse, Confirmed, Holds
<1> QED BY <1>1, <1>2, <1>3, PTL DEF Spec

\* One pod takes each cancellation once.
LEMMA CancelsOnce ==
    ASSUME OneBatch, IsFiniteSet(sent), NEW lhp
    PROVE  /\ IsFiniteSet(CancelsTaken(lhp)) /\ IsFiniteSet(Cancelled(lhp))
           /\ Cardinality(CancelsTaken(lhp)) \in Nat /\ Cardinality(Cancelled(lhp)) \in Nat
           /\ Cardinality(CancelsTaken(lhp)) <= Cardinality(Cancelled(lhp))
<1> DEFINE S == CancelsTaken(lhp)
           f == [d \in S |-> d[1]]
<1>1. IsFiniteSet(Cancelled(lhp))
    BY FS_Subset DEF Cancelled
<1>2. \A r1, r2 \in Replicas : r1 = r2
    <2> SUFFICES ASSUME NEW r1 \in Replicas, NEW r2 \in Replicas PROVE r1 = r2
        OBVIOUS
    <2>1. <<r1, 1>> \in Batches /\ <<r2, 1>> \in Batches
        BY ConstantsAssumption DEF Batches
    <2> QED BY <2>1 DEF OneBatch
<1>3. f \in [S -> Cancelled(lhp)]
    BY DEF CancelsTaken, Cancelled
<1>4. \A x, y \in S : f[x] = f[y] => x = y
    <2> SUFFICES ASSUME NEW x \in S, NEW y \in S, x[1] = y[1] PROVE x = y
        OBVIOUS
    <2>1. x \in sent \X Replicas /\ y \in sent \X Replicas
        BY DEF CancelsTaken
    <2>2. x[2] = y[2]
        BY <1>2, <2>1
    <2> QED BY <2>1, <2>2
<1> HIDE DEF f, S
<1>5. IsFiniteSet(S) /\ Cardinality(S) <= Cardinality(Cancelled(lhp))
    BY <1>1, <1>3, <1>4, NotLarger
<1> QED BY <1>1, <1>5, FS_CardinalityType DEF S

\* Every departure has its cause while one batch runs at a time, and does its
\* own damage only: a count that is missing was lost by a failed statement, by
\* a pod that stopped or by a cancellation; before the first of them no
\* section is oversold; and two sections of a course take a failed check or a
\* cancellation.
THEOREM FaultsExplained == OneBatch /\ OneCourseRemembered => (Spec => []FaultsExplain)
<1> SUFFICES ASSUME OneBatch, OneCourseRemembered PROVE Spec => []FaultsExplain
    OBVIOUS
<1> DEFINE Inv == OutcomeInv /\ LedgerInv /\ FitInv
<1>1. Init => Inv
    BY OutcomeInit, LedgerInit, FitInit
<1>2. Inv /\ [Next]_vars => Inv'
    <2> SUFFICES ASSUME Inv, [Next]_vars PROVE Inv'
        OBVIOUS
    <2>1. LossBounded /\ BatchesRemembered
        BY OneBatchLoss, WishesRemembered DEF OutcomeInv
    <2> QED BY <2>1, OutcomeStep, LedgerStep, FitStep DEF LedgerInv
<1>3. Inv => FaultsExplain
    <2> SUFFICES ASSUME Inv, NEW lhp \in Sections
                 PROVE  LET lost == failures + crashes * Cardinality(Students)
                                      + Cardinality(Cancelled(lhp))
                        IN  /\ RowsSoon(lhp) - CounterSoon(lhp) <= lost
                            /\ Cardinality(Confirmed(lhp)) > SoLuongToiDa[lhp] => lost > 0
                            /\ \A other \in Sections \ {lhp} :
                                   CourseOf[other] = CourseOf[lhp] =>
                                       \/ Confirmed(lhp) \intersect Confirmed(other) = {}
                                       \/ failures > 0 \/ Cancelled(lhp) \union Cancelled(other) # {}
        BY DEF FaultsExplain
    <2> DEFINE C == crashes * Cardinality(Students)
               K == Cardinality(Cancelled(lhp))
               T == Cardinality(CancelsTaken(lhp))
               R == RowsSoon(lhp)
               D == CounterSoon(lhp)
               H == Cardinality(Confirmed(lhp))
    <2>1. /\ IsFiniteSet(CancelsTaken(lhp)) /\ IsFiniteSet(Cancelled(lhp))
          /\ T \in Nat /\ K \in Nat /\ T <= K
        BY CancelsOnce DEF LedgerInv
    <2>2. failures \in Nat /\ C \in Nat
        BY LedgerNumbers DEF LedgerInv
    <2>3. R \in Int /\ D \in Int /\ H \in Nat
        <3>1. /\ Confirmed(lhp) = Holders(dangKy, lhp)
              /\ \A ops : Outstanding(ops, lhp) = StatementsOf(batch, ops, lhp)
              /\ {d \in huy : d[1].lhp = lhp} = Halves(huy, lhp)
            BY DEF Confirmed, Holders, Holds, Outstanding, StatementsOf, Halves
        <3>2. /\ Cardinality(Confirmed(lhp)) \in Nat
              /\ Cardinality(Outstanding({"confirm", "move"}, lhp)) \in Nat
              /\ Cardinality(Outstanding({"count"}, lhp)) \in Nat
              /\ Cardinality({d \in huy : d[1].lhp = lhp}) \in Nat
              /\ counter[lhp] \in Int
            BY <3>1, LedgerNumbers DEF LedgerInv
        <3> QED BY <3>2 DEF RowsSoon, CounterSoon
    <2>4. R <= D + failures + C + T
        BY DEF LedgerInv, LedgerBound
    <2>5. H <= SoLuongToiDa[lhp] \/ failures # 0 \/ C # 0 \/ K # 0
        <3>1. SUFFICES ASSUME failures = 0, C = 0, K = 0 PROVE H <= SoLuongToiDa[lhp]
            OBVIOUS
        <3>2. T = 0
            BY <2>1, <3>1
        <3>3. CancelsTaken(lhp) = {}
            BY <2>1, <3>2, FS_EmptySet
        <3> QED BY <3>1, <3>3, FitsNoOversell
    <2>6. ASSUME NEW other \in Sections \ {lhp}, CourseOf[other] = CourseOf[lhp]
          PROVE  \/ Confirmed(lhp) \intersect Confirmed(other) = {}
                 \/ failures > 0 \/ Cancelled(lhp) \union Cancelled(other) # {}
        <3>1. SUFFICES ASSUME failures = 0, Cancelled(lhp) \union Cancelled(other) = {},
                              NEW sv \in Confirmed(lhp) \intersect Confirmed(other)
                       PROVE  FALSE
            BY <2>2
        <3>2. sv \in Students /\ Holds(dangKy, sv, lhp) /\ Holds(dangKy, sv, other)
            BY DEF Confirmed, Holds
        <3> QED BY <2>6, <3>1, <3>2 DEF OutcomeInv, Outcomes, Single
    <2>7. SoLuongToiDa[lhp] \in Nat
        BY ConstantsAssumption
    <2> HIDE DEF C, K, T, R, D, H
    <2>8. R - D <= failures + C + K
        BY <2>1, <2>2, <2>3, <2>4
    <2>9. H > SoLuongToiDa[lhp] => failures + C + K > 0
        BY <2>1, <2>2, <2>3, <2>5, <2>7
    <2> QED BY <2>6, <2>8, <2>9 DEF C, K, R, D, H
<1> HIDE DEF Inv
<1> QED BY <1>1, <1>2, <1>3, PTL DEF Spec

-----------------------------------------------------------------------------
(***************************************************************************)
(* Careful clients                                                         *)
(***************************************************************************)

\* The row of a student for a section exists.
OnFile(sv, lhp) == dangKy[sv][lhp].trangThai # "khong"

\* A student has one request open, in one place.
OneOpen ==
    /\ inbox \intersect huy = {}
    /\ \A d, e \in inbox \union huy : d[1].sv = e[1].sv => d = e

\* What a client saw when it asked is still so when its delivery is taken: no
\* row of the course, or a confirmed row to cancel.
InTurn ==
    \A d \in inbox :
        /\ d[1].kind = "DANG_KY" =>
               \A lhp \in Sections : CourseOf[lhp] = CourseOf[d[1].lhp] => ~OnFile(d[1].sv, lhp)
        /\ d[1].kind = "HUY" => Holds(dangKy, d[1].sv, d[1].lhp)

\* A student has one row of a course, and it names the course.
OneRow ==
    \A sv \in Students, l1, l2 \in Sections :
        OnFile(sv, l1) /\ OnFile(sv, l2) /\ CourseOf[l1] = CourseOf[l2] => l1 = l2

RowsNamed ==
    \A sv \in Students, lhp \in Sections :
        OnFile(sv, lhp) => dangKy[sv][lhp].monHoc = CourseOf[lhp]

\* The rows a batch works on are pending still.
Waiting ==
    \A b \in Batches : \A r \in RowsAtWork(batch[b]) : dangKy[r.sv][r.lhp].trangThai = "ChoXuLy"

\* A batch has scanned one row of a student and course, and refuses none.
RowsSingle ==
    \A b \in Batches : \A r1, r2 \in batch[b].rows :
        r1.sv = r2.sv /\ CourseOf[r1.lhp] = CourseOf[r2.lhp] => r1 = r2

NoRefusals == \A b \in Batches : batch[b].toReject = {}

Careful == OneOpen /\ InTurn /\ OneRow /\ RowsNamed /\ Waiting /\ RowsSingle /\ NoRefusals

CarefulInv == FiledInv /\ OnceInv /\ Careful

\* The optimizer need not remember more than the last course.
LEMMA CarefulRemembered == RowsSingle => BatchesRemembered
BY DEF RowsSingle, BatchesRemembered, RowsRemembered

\* A batch whose checks find nobody registered refuses nobody.
LEMMA NeverRefuses ==
    ASSUME FiledInv, MaxFailures = 0, NEW b \in Batches, BatchStep(b), batch[b].toReject = {},
           batch[b].pc = "check" =>
               \A r \in batch[b].todo : ~DaDangKyMonHoc(r.sv, CourseOf[r.lhp])
    PROVE  batch'[b].toReject = {}
<1> DEFINE loc == batch[b]
<1>1. BatchesType /\ BoundsType /\ loc \in BatchType /\ GoodLocals(loc) /\ ShapeLocals(loc)
    <2>1. BatchesType /\ BoundsType
        BY TypeParts DEF FiledInv, ShapeInv
    <2> QED BY <2>1 DEF FiledInv, ShapeInv, BatchesType
<1>2. ~StatementFails
    BY <1>1 DEF BoundsType, StatementFails
<1>3. Idle.toReject = {}
    BY DEF Idle
<1>4. ASSUME NEW new, batch' = [batch EXCEPT ![b] = new]
      PROVE  batch'[b] = new
    BY <1>1, <1>4 DEF BatchesType
<1>5. CASE Scan(b)
    <2> DEFINE new == [Idle EXCEPT !.pc = "check", !.rows = ChoXuLyRows, !.todo = ChoXuLyRows]
    <2>1. batch' = [batch EXCEPT ![b] = new]
        BY <1>5 DEF Scan
    <2>2. new.toReject = {}
        BY DEF Idle
    <2> HIDE DEF new
    <2> QED BY <1>4, <2>1, <2>2
<1>6. CASE CheckRow(b)
    <2>1. PICK r \in loc.todo, refuse \in BOOLEAN :
              /\ refuse = DaDangKyMonHoc(r.sv, CourseOf[r.lhp]) \/ StatementFails
              /\ LET add == IF refuse THEN {r} ELSE {}
                     now == [loc EXCEPT !.todo = @ \ {r}, !.rejected = @ \union add,
                                        !.toReject = @ \union add]
                 IN  batch' = [batch EXCEPT ![b] = IF now.todo = {} THEN AfterChecks(now) ELSE now]
        BY <1>6 DEF CheckRow
    <2> DEFINE now == CheckedLocals(loc, r, {})
               new == IF now.todo = {} THEN AfterChecks(now) ELSE now
    <2>2. loc.pc = "check"
        BY <1>6 DEF CheckRow
    <2>3. ~refuse
        BY <1>2, <2>1, <2>2
    <2>4. batch' = [batch EXCEPT ![b] = new]
        BY <2>1, <2>3 DEF CheckedLocals
    <2>5. /\ now.pc = "check" /\ now.plan = loc.plan /\ now.writes = loc.writes
          /\ now.toReject = {}
        BY <1>1, <2>2, CheckedFields
    <2>6. now \in BatchType
        <3>1. {} \in SUBSET {r}
            OBVIOUS
        <3> QED BY <1>1, <3>1, CheckedGood DEF GoodLocals, CheckedLocals
    <2>7. now.plan = NoPlan /\ now.writes = {}
        BY <1>1, <2>2, <2>5 DEF ShapeLocals
    <2> HIDE DEF now
    <2>8. new = Idle \/ new.toReject = {}
        BY <2>5, <2>6, <2>7, AfterChecksLocals
    <2> HIDE DEF new
    <2> QED BY <1>3, <1>4, <2>4, <2>8
<1>7. CASE Reject(b)
    BY <1>7 DEF Reject
<1>8. CASE ReadSlot(b)
    <2> PICK s \in Wanted(loc) \ loc.read :
            \E n : batch' = [batch EXCEPT ![b] = SlotRead(loc, s, n)]
        BY <1>8 DEF ReadSlot
    <2>1. PICK n : batch' = [batch EXCEPT ![b] = SlotRead(loc, s, n)]
        OBVIOUS
    <2>2. SlotRead(loc, s, n).toReject = loc.toReject
        <3>1. loc \in BatchType
            BY <1>1
        <3> HIDE DEF loc
        <3> QED BY <3>1 DEF SlotRead, BatchType
    <2> QED BY <1>4, <2>1, <2>2
<1>9. CASE Allocate(b)
    <2>1. PICK r \in loc.todo :
              \/ batch' = [batch EXCEPT ![b] = LastTurn(loc, r)]
              \/ batch' = [batch EXCEPT ![b] = NextTurn(loc, r)]
        BY <1>9 DEF Allocate, LastTurn, NextTurn
    <2>2. LastTurn(loc, r).toReject = loc.toReject /\ NextTurn(loc, r).toReject = loc.toReject
        <3>1. loc \in BatchType
            BY <1>1
        <3> HIDE DEF loc
        <3> QED BY <3>1 DEF LastTurn, NextTurn, BatchType
    <2> QED BY <1>4, <2>1, <2>2
<1>10. CASE Write(b)
    <2>1. PICK w \in loc.writes :
              \/ batch' = [batch EXCEPT ![b] = Idle]
              \/ batch' = [batch EXCEPT ![b] = WrittenLocals(loc, w)]
        BY <1>10 DEF Write, WrittenLocals
    <2>2. WrittenLocals(loc, w).toReject = loc.toReject
        <3>1. loc \in BatchType
            BY <1>1
        <3> HIDE DEF loc
        <3> QED BY <3>1 DEF WrittenLocals, BatchType
    <2> QED BY <1>3, <1>4, <2>1, <2>2
<1> QED BY <1>5, <1>6, <1>7, <1>8, <1>9, <1>10 DEF BatchStep

\* The row of a statement is the only one of its student and course.
LEMMA OnlyRow ==
    ASSUME CarefulInv, NEW b \in Batches, batch[b].pc = "write",
           NEW w \in batch[b].writes, w.op # "count"
    PROVE  /\ WriteOfRows(batch[b].rows, w) /\ batch[b].rows \in SUBSET PendingRow
           /\ WritesInPlace({w})
           /\ w.row.sv \in Students /\ w.row.lhp \in Sections /\ w.lhp \in Sections
           /\ CourseOf[w.lhp] = CourseOf[w.row.lhp]
           /\ dangKy[w.row.sv][w.row.lhp].trangThai = "ChoXuLy"
           /\ \A lhp \in Sections :
                  CourseOf[lhp] = CourseOf[w.row.lhp] /\ OnFile(w.row.sv, lhp) => lhp = w.row.lhp
<1> DEFINE loc == batch[b]
<1>1. GoodLocals(loc) /\ GoodRows(sent, loc.rows) /\ WritesInPlace(loc.writes)
    BY TypeParts DEF CarefulInv, FiledInv, RowsFiled, ShapeInv, BatchesType, ShapeLocals
<1>2. WriteOfRows(loc.rows, w) /\ loc.rows \in SUBSET PendingRow /\ WritesInPlace({w})
    BY <1>1 DEF GoodLocals, BatchType, WritesInPlace
<1>3. w.row.sv \in Students /\ w.row.lhp \in Sections /\ w.lhp \in Sections
    BY <1>2 DEF WriteOfRows, WriteOp, PendingRow
<1>4. CourseOf[w.lhp] = CourseOf[w.row.lhp]
    BY <1>1, <1>2, WriteCourse
<1>5. dangKy[w.row.sv][w.row.lhp].trangThai = "ChoXuLy"
    BY DEF CarefulInv, Careful, Waiting, RowsAtWork
<1>6. OnFile(w.row.sv, w.row.lhp)
    BY <1>5 DEF OnFile
<1> QED BY <1>2, <1>3, <1>4, <1>5, <1>6 DEF CarefulInv, Careful, OneRow

\* A step of a batch with careful clients and without failures: nothing is
\* refused or lost, and no row changes but by a statement that is executed.
LEMMA CarefulBatch ==
    ASSUME CarefulInv, MaxFailures = 0, NEW b \in Batches, BatchStep(b)
    PROVE  /\ batch' = [batch EXCEPT ![b] = batch'[b]]
           /\ Effect(batch[b], batch'[b])
           /\ batch'[b].toReject = {}
           /\ UNCHANGED <<sent, inbox, huy, failures>>
           /\ \/ LeavesRows(batch[b], batch'[b])
              \/ Executes(batch[b], batch'[b])
<1> DEFINE loc == batch[b]
<1>1. BatchesType /\ BoundsType /\ GoodLocals(loc)
    BY TypeParts DEF CarefulInv, FiledInv, ShapeInv, BatchesType
<1>2. ~StatementFails
    BY <1>1 DEF BoundsType, StatementFails
<1>3. PICK new : batch' = [batch EXCEPT ![b] = new] /\ Effect(loc, new)
    BY BatchEffect DEF CarefulInv, FiledInv
<1>4. PICK now :
          /\ batch' = [batch EXCEPT ![b] = now]
          /\ LeavesRows(loc, now) \/ Refuses(loc, now) \/ Executes(loc, now)
    BY BatchWork, CarefulRemembered DEF CarefulInv, Careful
<1>5. batch'[b] = new /\ batch'[b] = now
    BY <1>1, <1>3, <1>4 DEF BatchesType
<1>6. ~Refuses(loc, now)
    BY DEF Refuses, CarefulInv, Careful, NoRefusals
<1>7. UNCHANGED <<sent, inbox, huy>>
    BY BatchEffect DEF CarefulInv, FiledInv
<1>8. UNCHANGED failures
    BY <1>2, <1>3 DEF Effect, Moves, Learns, Queues, Writes
<1>9. batch'[b].toReject = {}
    <2>1. ASSUME loc.pc = "check", NEW r \in loc.todo
          PROVE  ~DaDangKyMonHoc(r.sv, CourseOf[r.lhp])
        <3>1. r \in RowsAtWork(loc) /\ r.sv \in Students /\ r.lhp \in Sections
            BY <1>1, <2>1 DEF RowsAtWork, GoodLocals, BatchType, PendingRow
        <3>2. dangKy[r.sv][r.lhp].trangThai = "ChoXuLy"
            BY <3>1 DEF CarefulInv, Careful, Waiting
        <3>3. ASSUME NEW lhp \in Sections, dangKy[r.sv][lhp].monHoc = CourseOf[r.lhp],
                     dangKy[r.sv][lhp].trangThai = "DaDangKy"
              PROVE  FALSE
            <4>1. OnFile(r.sv, lhp) /\ OnFile(r.sv, r.lhp)
                BY <3>2, <3>3 DEF OnFile
            <4>2. CourseOf[lhp] = CourseOf[r.lhp]
                BY <3>1, <3>3, <4>1 DEF CarefulInv, Careful, RowsNamed
            <4>3. lhp = r.lhp
                BY <3>1, <4>1, <4>2 DEF CarefulInv, Careful, OneRow
            <4> QED BY <3>2, <3>3, <4>3
        <3> QED BY <3>3 DEF DaDangKyMonHoc
    <2> QED BY <2>1, NeverRefuses DEF CarefulInv, Careful, NoRefusals
<1> QED BY <1>3, <1>4, <1>5, <1>6, <1>7, <1>8, <1>9

\* A step that changes no row and no batch, and opens no request.
LEMMA CarefulFewer ==
    ASSUME Careful, UNCHANGED <<dangKy, batch>>, inbox' \subseteq inbox, huy' \subseteq huy
    PROVE  Careful'
<1>1. OneOpen' /\ InTurn'
    BY DEF Careful, OneOpen, InTurn, OnFile
<1>2. OneRow' /\ RowsNamed' /\ Waiting' /\ RowsSingle' /\ NoRefusals'
    BY DEF Careful, OneRow, RowsNamed, Waiting, RowsSingle, NoRefusals, OnFile, RowsAtWork
<1> QED BY <1>1, <1>2 DEF Careful

\* One batch takes one pod.
LEMMA OnePod ==
    ASSUME OneBatch
    PROVE  \A r1, r2 \in Replicas : r1 = r2
<1> SUFFICES ASSUME NEW r1 \in Replicas, NEW r2 \in Replicas PROVE r1 = r2
    OBVIOUS
<1>1. <<r1, 1>> \in Batches /\ <<r2, 1>> \in Batches
    BY ConstantsAssumption DEF Batches
<1> QED BY <1>1 DEF OneBatch

\* A client that looks before it asks.
LEMMA CarefulSend ==
    ASSUME OneBatch, CarefulClient, CarefulInv, NEW q \in Requests, Send(q)
    PROVE  Careful'
<1> DEFINE new == {<<q, r>> : r \in Replicas}
<1>1. Sensible(q) /\ inbox' = inbox \union new /\ UNCHANGED <<dangKy, huy, batch>>
    BY DEF Send, tables
<1>2. \A d \in inbox \union huy : d[1].sv # q.sv
    BY <1>1 DEF Sensible, Open
<1>3. \A d \in new : d[1] = q /\ d[1].sv = q.sv
    OBVIOUS
<1>4. \A d, e \in new : d = e
    BY OnePod
<1> HIDE DEF new
<1>5. OneOpen'
    <2>1. inbox' \intersect huy' = {}
        BY <1>1, <1>2, <1>3 DEF CarefulInv, Careful, OneOpen
    <2>2. ASSUME NEW d \in inbox' \union huy', NEW e \in inbox' \union huy', d[1].sv = e[1].sv
          PROVE  d = e
        <3>1. CASE d \in new /\ e \in new
            BY <1>4, <3>1
        <3>2. CASE d \in inbox \union huy /\ e \in inbox \union huy
            BY <2>2, <3>2 DEF CarefulInv, Careful, OneOpen
        <3> QED BY <1>1, <1>2, <1>3, <2>2, <3>1, <3>2
    <2> QED BY <2>1, <2>2 DEF OneOpen
<1>6. InTurn'
    <2>1. ASSUME NEW d \in new
          PROVE  /\ d[1].kind = "DANG_KY" =>
                        \A lhp \in Sections :
                            CourseOf[lhp] = CourseOf[d[1].lhp] => ~OnFile(d[1].sv, lhp)
                 /\ d[1].kind = "HUY" => Holds(dangKy, d[1].sv, d[1].lhp)
        BY <1>1, <1>3 DEF Sensible, OnFile, Holds, NoRow
    <2> QED BY <1>1, <2>1 DEF CarefulInv, Careful, InTurn, OnFile
<1>7. OneRow' /\ RowsNamed' /\ Waiting' /\ RowsSingle' /\ NoRefusals'
    BY <1>1 DEF CarefulInv, Careful, OneRow, RowsNamed, Waiting, RowsSingle, NoRefusals, OnFile, RowsAtWork
<1> QED BY <1>5, <1>6, <1>7 DEF Careful

\* A delivery that is taken: the student had no row of the course, or loses a
\* confirmed one.
LEMMA CarefulRequest ==
    ASSUME CarefulInv, NEW d \in inbox, DangKyMonHoc(d) \/ HuyXoa(d)
    PROVE  Careful'
<1> DEFINE q == d[1]
<1>1. TypeInv /\ q.sv \in Students /\ q.lhp \in Sections /\ BatchesType
    <2>1. TypeInv /\ CallsType /\ BatchesType
        BY TypeParts DEF CarefulInv, FiledInv, ShapeInv
    <2> QED BY <2>1, DeliveryType
<1>2. /\ inbox' = inbox \ {d} /\ huy' \subseteq huy \union {d} /\ UNCHANGED batch
      /\ DangKyMonHoc(d) => q.kind = "DANG_KY"
      /\ HuyXoa(d) => q.kind = "HUY"
    BY DEF DangKyMonHoc, HuyXoa
<1>3. ASSUME NEW s \in Students, NEW l \in Sections
      PROVE  \/ ~(s = q.sv /\ l = q.lhp) /\ dangKy'[s][l] = dangKy[s][l]
             \/ s = q.sv /\ l = q.lhp /\ HuyXoa(d) /\ dangKy'[s][l] = NoRow
             \/ /\ s = q.sv /\ l = q.lhp /\ DangKyMonHoc(d)
                /\ dangKy'[s][l].trangThai = "ChoXuLy" /\ dangKy'[s][l].monHoc = CourseOf[l]
    BY <1>1, RequestFields
<1>4. DangKyMonHoc(d) => \A l \in Sections : CourseOf[l] = CourseOf[q.lhp] => ~OnFile(q.sv, l)
    BY <1>2 DEF CarefulInv, Careful, InTurn
<1>5. HuyXoa(d) => Holds(dangKy, q.sv, q.lhp)
    BY <1>2 DEF CarefulInv, Careful, InTurn
<1>6. OneOpen'
    BY <1>2 DEF CarefulInv, Careful, OneOpen
<1>7. InTurn'
    <2> SUFFICES ASSUME NEW e \in inbox'
                 PROVE  /\ e[1].kind = "DANG_KY" =>
                               \A l \in Sections :
                                   CourseOf[l] = CourseOf[e[1].lhp] => ~OnFile(e[1].sv, l)'
                        /\ e[1].kind = "HUY" => Holds(dangKy', e[1].sv, e[1].lhp)
        BY DEF InTurn
    <2>1. e \in inbox /\ e # d /\ e[1].sv # q.sv
        BY <1>2 DEF CarefulInv, Careful, OneOpen
    <2>2. e[1].sv \in Students /\ e[1].lhp \in Sections
        BY <1>1, <2>1, TypeParts, DeliveryType
    <2>3. \A l \in Sections : dangKy'[e[1].sv][l] = dangKy[e[1].sv][l]
        BY <1>3, <2>1, <2>2
    <2> QED BY <2>1, <2>2, <2>3 DEF CarefulInv, Careful, InTurn, OnFile, Holds
<1>8. OneRow'
    <2>1. ASSUME NEW s \in Students, NEW l \in Sections, OnFile(s, l)'
          PROVE  OnFile(s, l) \/ (s = q.sv /\ l = q.lhp /\ DangKyMonHoc(d))
        BY <1>3, <2>1 DEF OnFile, NoRow
    <2> QED BY <1>4, <2>1 DEF CarefulInv, Careful, OneRow
<1>9. RowsNamed'
    BY <1>3 DEF CarefulInv, Careful, RowsNamed, OnFile, NoRow
<1>10. Waiting'
    <2> SUFFICES ASSUME NEW b \in Batches, NEW r \in RowsAtWork(batch[b])
                 PROVE  dangKy'[r.sv][r.lhp].trangThai = "ChoXuLy"
        BY <1>2 DEF Waiting
    <2>1. dangKy[r.sv][r.lhp].trangThai = "ChoXuLy"
        BY DEF CarefulInv, Careful, Waiting
    <2>2. r.sv \in Students /\ r.lhp \in Sections
        BY <1>1, WorkType DEF BatchesType, PendingRow
    <2> QED BY <1>3, <1>5, <2>1, <2>2 DEF Holds
<1>11. RowsSingle' /\ NoRefusals'
    BY <1>2 DEF CarefulInv, Careful, RowsSingle, NoRefusals
<1> QED BY <1>6, <1>7, <1>8, <1>9, <1>10, <1>11 DEF Careful

\* The table after a statement: the row of a student and course gets its
\* outcome, in the section of the statement.
LEMMA ExecutedRow ==
    ASSUME CarefulInv, NEW b \in Batches, batch[b].pc = "write",
           NEW w \in batch[b].writes, w.op # "count", Executed(w),
           NEW s \in Students, NEW l \in Sections
    PROVE  \/ ~(s = w.row.sv /\ l \in {w.row.lhp, w.lhp}) /\ dangKy'[s][l] = dangKy[s][l]
           \/ /\ s = w.row.sv /\ l = w.lhp
              /\ dangKy'[s][l].trangThai \in {"DaDangKy", "DanhSachCho"}
              /\ dangKy'[s][l].monHoc = CourseOf[l]
           \/ s = w.row.sv /\ l = w.row.lhp /\ l # w.lhp /\ dangKy'[s][l] = NoRow
<1> DEFINE old == dangKy[s][l]
           new == dangKy'[s][l]
<1>1. /\ WriteOfRows(batch[b].rows, w) /\ batch[b].rows \in SUBSET PendingRow /\ WritesInPlace({w})
      /\ w.row.sv \in Students /\ w.row.lhp \in Sections
      /\ dangKy[w.row.sv][w.row.lhp].trangThai = "ChoXuLy"
    BY OnlyRow
<1>2. TablesType
    BY TypeParts DEF CarefulInv, FiledInv, ShapeInv
<1>3. dangKy[w.row.sv][w.row.lhp].monHoc = CourseOf[w.row.lhp]
    BY <1>1 DEF CarefulInv, Careful, RowsNamed, OnFile
<1>4. w.op \in {"confirm", "wait"} => w.lhp = w.row.lhp
    BY <1>1 DEF WritesInPlace
<1>5. \/ /\ w.op # "count" /\ s = w.row.sv => l # w.row.lhp /\ l # w.lhp
         /\ new = old
      \/ /\ w.op = "move" /\ s = w.row.sv /\ l = w.lhp
         /\ new = [trangThai |-> "DaDangKy", monHoc |-> CourseOf[l], phu |-> NoSection]
      \/ w.op = "move" /\ s = w.row.sv /\ l = w.row.lhp /\ l # w.lhp /\ new = NoRow
      \/ /\ w.op \in {"confirm", "wait"} /\ s = w.row.sv /\ l = w.row.lhp
         /\ new.trangThai \in {"DaDangKy", "DanhSachCho"}
         /\ new.monHoc = old.monHoc /\ new.phu = old.phu
    BY <1>1, <1>2, ExecutedFields
<1> QED BY <1>3, <1>4, <1>5

\* A statement that is executed: the row of a student and course gets its
\* outcome, and no other open request or statement is about it.
LEMMA CarefulExecuted ==
    ASSUME OneBatch, CarefulInv, NEW b \in Batches, NEW new,
           batch' = [batch EXCEPT ![b] = new], UNCHANGED <<inbox, huy>>,
           Executes(batch[b], new)
    PROVE  InTurn' /\ OneRow' /\ RowsNamed' /\ Waiting'
<1> DEFINE loc == batch[b]
<1>1. CallsType /\ BatchesType /\ WritesOnce(loc.writes) /\ loc.pc = "write"
    BY TypeParts DEF CarefulInv, FiledInv, ShapeInv, OnceInv, OnceLocals, Executes
<1>2. \A c \in Batches : batch'[c] = new
    BY <1>1 DEF OneBatch, BatchesType
<1>3. PICK w \in loc.writes :
          /\ Executed(w)
          /\ \A r \in RowsAtWork(new) : \E v \in loc.writes \ {w} : v.op # "count" /\ r = v.row
    BY DEF Executes
<1>4. ASSUME NEW r \in RowsAtWork(new)
      PROVE  /\ r.sv \in Students /\ r.lhp \in Sections
             /\ dangKy[r.sv][r.lhp].trangThai = "ChoXuLy"
             /\ w.op # "count" => ~(r.sv = w.row.sv /\ CourseOf[r.lhp] = CourseOf[w.row.lhp])
    <2>1. PICK v \in loc.writes \ {w} : v.op # "count" /\ r = v.row
        BY <1>3
    <2>2. v.row.sv \in Students /\ v.row.lhp \in Sections /\ dangKy[v.row.sv][v.row.lhp].trangThai = "ChoXuLy"
        BY <1>1, <2>1, OnlyRow
    <2>3. w.op # "count" => ~SameOwner(w, v)
        BY <1>1, <2>1 DEF WritesOnce
    <2> QED BY <2>1, <2>2, <2>3 DEF SameOwner
<1>5. CASE w.op = "count"
    <2>1. UNCHANGED dangKy
        BY <1>3, <1>5 DEF Executed
    <2> QED BY <1>2, <1>4, <2>1 DEF CarefulInv, Careful, InTurn, OneRow, RowsNamed, Waiting, OnFile
<1>6. CASE w.op # "count"
    <2> DEFINE sv == w.row.sv
               mon == CourseOf[w.row.lhp]
    <2>1. /\ sv \in Students /\ w.row.lhp \in Sections /\ w.lhp \in Sections /\ CourseOf[w.lhp] = mon
          /\ dangKy[sv][w.row.lhp].trangThai = "ChoXuLy"
          /\ \A l \in Sections : CourseOf[l] = mon /\ OnFile(sv, l) => l = w.row.lhp
        BY <1>1, <1>6, OnlyRow
    <2>2. ASSUME NEW s \in Students, NEW l \in Sections
          PROVE  \/ ~(s = sv /\ l \in {w.row.lhp, w.lhp}) /\ dangKy'[s][l] = dangKy[s][l]
                 \/ /\ s = sv /\ l = w.lhp
                    /\ dangKy'[s][l].trangThai \in {"DaDangKy", "DanhSachCho"}
                    /\ dangKy'[s][l].monHoc = CourseOf[l]
                 \/ s = sv /\ l = w.row.lhp /\ l # w.lhp /\ dangKy'[s][l] = NoRow
        BY <1>1, <1>3, <1>6, ExecutedRow
    <2>3. ASSUME NEW s \in Students, NEW l \in Sections, OnFile(s, l)'
          PROVE  \/ s = sv /\ l = w.lhp
                 \/ OnFile(s, l) /\ ~(s = sv /\ CourseOf[l] = mon)
        <3>1. \/ s = sv /\ l = w.lhp
              \/ OnFile(s, l) /\ ~(s = sv /\ l \in {w.row.lhp, w.lhp})
            BY <2>2, <2>3 DEF OnFile, NoRow
        <3> QED BY <2>1, <3>1
    <2>4. OneRow'
        BY <2>1, <2>3 DEF CarefulInv, Careful, OneRow
    <2>5. RowsNamed'
        BY <2>2 DEF CarefulInv, Careful, RowsNamed, OnFile, NoRow
    <2>6. Waiting'
        <3>1. ASSUME NEW r \in RowsAtWork(new)
              PROVE  dangKy'[r.sv][r.lhp].trangThai = "ChoXuLy"
            <4>1. r.sv \in Students /\ r.lhp \in Sections /\ ~(r.sv = sv /\ r.lhp \in {w.row.lhp, w.lhp})
                BY <1>4, <1>6, <2>1
            <4> QED BY <1>4, <2>2, <4>1
        <3> QED BY <1>2, <3>1 DEF Waiting
    <2>7. InTurn'
        <3> SUFFICES ASSUME NEW d \in inbox
                     PROVE  /\ d[1].kind = "DANG_KY" =>
                                   \A l \in Sections :
                                       CourseOf[l] = CourseOf[d[1].lhp] => ~OnFile(d[1].sv, l)'
                            /\ d[1].kind = "HUY" => Holds(dangKy', d[1].sv, d[1].lhp)
            BY DEF InTurn
        <3>1. d[1].sv \in Students /\ d[1].lhp \in Sections
            BY <1>1, DeliveryType
        <3>2. ASSUME d[1].kind = "DANG_KY", NEW l \in Sections, CourseOf[l] = CourseOf[d[1].lhp],
                     OnFile(d[1].sv, l)'
              PROVE  FALSE
            <4>1. \A k \in Sections : CourseOf[k] = CourseOf[d[1].lhp] => ~OnFile(d[1].sv, k)
                BY <3>2 DEF CarefulInv, Careful, InTurn
            <4>2. d[1].sv = sv /\ l = w.lhp
                BY <2>3, <3>1, <3>2, <4>1
            <4>3. ~OnFile(sv, w.row.lhp)
                BY <2>1, <3>2, <4>1, <4>2
            <4> QED BY <2>1, <4>3 DEF OnFile
        <3>3. ASSUME d[1].kind = "HUY"
              PROVE  Holds(dangKy', d[1].sv, d[1].lhp)
            <4>1. Holds(dangKy, d[1].sv, d[1].lhp)
                BY <3>3 DEF CarefulInv, Careful, InTurn
            <4>2. OnFile(d[1].sv, d[1].lhp)
                BY <4>1 DEF Holds, OnFile
            <4>3. ~(d[1].sv = sv /\ d[1].lhp \in {w.row.lhp, w.lhp})
                BY <2>1, <3>1, <4>1, <4>2 DEF Holds
            <4> QED BY <2>2, <3>1, <4>1, <4>3 DEF Holds
        <3> QED BY <3>2, <3>3
    <2> QED BY <2>4, <2>5, <2>6, <2>7
<1> QED BY <1>5, <1>6

\* A step of the batch.
LEMMA CarefulBatchStep ==
    ASSUME OneBatch, CarefulInv, MaxFailures = 0, NEW b \in Batches, BatchStep(b)
    PROVE  Careful'
<1> DEFINE loc == batch[b]
           new == batch'[b]
<1>1. /\ batch' = [batch EXCEPT ![b] = new]
      /\ Effect(loc, new) /\ new.toReject = {} /\ UNCHANGED <<inbox, huy>>
      /\ LeavesRows(loc, new) \/ Executes(loc, new)
    BY CarefulBatch
<1>2. BatchesType
    BY TypeParts DEF CarefulInv, FiledInv, ShapeInv
<1>3. \A c \in Batches : batch'[c] = new
    BY DEF OneBatch
<1>4. \A r \in ChoXuLyRows :
          /\ r.sv \in Students /\ r.lhp \in Sections /\ OnFile(r.sv, r.lhp)
          /\ dangKy[r.sv][r.lhp].trangThai = "ChoXuLy"
    BY DEF ChoXuLyRows, OnFile
<1> HIDE DEF new
<1>5. OneOpen' /\ NoRefusals'
    BY <1>1, <1>3 DEF CarefulInv, Careful, OneOpen, NoRefusals
<1>6. RowsSingle'
    <2>1. CASE new.rows \subseteq loc.rows
        BY <1>3, <2>1 DEF CarefulInv, Careful, RowsSingle
    <2>2. CASE new.rows = ChoXuLyRows
        <3>1. \A r1, r2 \in ChoXuLyRows : r1.sv = r2.sv /\ r1.lhp = r2.lhp => r1 = r2
            BY RowsScanned DEF GoodRows, CarefulInv, FiledInv
        <3>2. \A r1, r2 \in ChoXuLyRows :
                  r1.sv = r2.sv /\ CourseOf[r1.lhp] = CourseOf[r2.lhp] => r1.lhp = r2.lhp
            BY <1>4 DEF CarefulInv, Careful, OneRow
        <3> QED BY <1>3, <2>2, <3>1, <3>2 DEF RowsSingle
    <2> QED BY <1>1, <2>1, <2>2 DEF Effect, RowsFrom
<1>7. CASE LeavesRows(loc, new)
    <2>1. UNCHANGED dangKy /\ RowsAtWork(new) \subseteq RowsAtWork(loc) \union ChoXuLyRows
        BY <1>7 DEF LeavesRows
    <2>2. Waiting'
        BY <1>3, <1>4, <2>1 DEF CarefulInv, Careful, Waiting
    <2>3. InTurn' /\ OneRow' /\ RowsNamed'
        BY <1>1, <2>1 DEF CarefulInv, Careful, InTurn, OneRow, RowsNamed, OnFile
    <2> QED BY <1>5, <1>6, <2>2, <2>3 DEF Careful
<1>8. CASE Executes(loc, new)
    <2>1. InTurn' /\ OneRow' /\ RowsNamed' /\ Waiting'
        BY <1>1, <1>8, CarefulExecuted
    <2> QED BY <1>5, <1>6, <2>1 DEF Careful
<1> QED BY <1>1, <1>7, <1>8

\* Careful clients at the start and after every step.
LEMMA CarefulInit == Init => CarefulInv
<1> SUFFICES ASSUME Init PROVE CarefulInv
    OBVIOUS
<1>1. inbox = {} /\ huy = {} /\ \A b \in Batches : batch[b] = Idle
    BY DEF Init
<1>2. \A sv \in Students, lhp \in Sections : ~OnFile(sv, lhp)
    BY DEF Init, NoRow, OnFile
<1>3. Idle.toReject = {}
    BY DEF Idle
<1>4. OneOpen /\ InTurn
    BY <1>1 DEF OneOpen, InTurn
<1>5. OneRow /\ RowsNamed
    BY <1>2 DEF OneRow, RowsNamed
<1>6. Waiting /\ RowsSingle /\ NoRefusals
    BY <1>1, <1>3, IdleWork DEF Waiting, RowsSingle, NoRefusals
<1> QED BY <1>4, <1>5, <1>6, FiledInit, OnceInit DEF CarefulInv, Careful

\* Every step, for one batch at a time and without faults.
LEMMA CarefulStep ==
    ASSUME OneBatch, NoFaults, CarefulClient
    PROVE  CarefulInv /\ [Next]_vars => CarefulInv'
<1> SUFFICES ASSUME CarefulInv, [Next]_vars PROVE CarefulInv'
    OBVIOUS
<1>1. FiledInv' /\ OnceInv'
    BY FiledStep, OnceStep, CarefulRemembered DEF CarefulInv, Careful
<1>2. MaxFailures = 0 /\ crashes = 0 /\ MaxCrashes = 0
    BY TypeParts DEF NoFaults, CarefulInv, FiledInv, ShapeInv, BoundsType
<1>3. ASSUME UNCHANGED vars
      PROVE  Careful'
    BY <1>3, CarefulFewer DEF vars, CarefulInv
<1>4. ASSUME NEW q \in Requests, Send(q)
      PROVE  Careful'
    BY <1>4, CarefulSend
<1>5. ASSUME NEW d \in inbox, Drop(d)
      PROVE  Careful'
    BY <1>5, CarefulFewer DEF Drop, tables, CarefulInv
<1>6. ASSUME NEW d \in huy, HuyTru(d)
      PROVE  Careful'
    BY <1>6, CarefulFewer DEF HuyTru, CarefulInv
<1>7. \A r \in Replicas : ~Crash(r)
    BY <1>2 DEF Crash
<1>8. Careful'
    BY <1>2, <1>3, <1>4, <1>5, <1>6, <1>7, CarefulRequest, CarefulBatchStep DEF Next
<1> QED BY <1>1, <1>8 DEF CarefulInv

-----------------------------------------------------------------------------
(***************************************************************************)
(* The ledger of careful clients                                           *)
(***************************************************************************)

\* Rows and counter agree.
Balanced(lhp) == RowsSoon(lhp) = CounterSoon(lhp)

BalanceInv == CarefulInv /\ IsFiniteSet(sent) /\ \A lhp \in Sections : Balanced(lhp)

\* The sets that are counted.
LEMMA BalanceSets ==
    ASSUME NEW lhp \in Sections
    PROVE  /\ Balanced(lhp) <=>
                  Cardinality(Holders(dangKy, lhp))
                    + Cardinality(StatementsOf(batch, {"confirm", "move"}, lhp))
                  = counter[lhp] + Cardinality(StatementsOf(batch, {"count"}, lhp))
                       - Cardinality(Halves(huy, lhp))
           /\ Balanced(lhp)' <=>
                  Cardinality(Holders(dangKy', lhp))
                    + Cardinality(StatementsOf(batch', {"confirm", "move"}, lhp))
                  = counter'[lhp] + Cardinality(StatementsOf(batch', {"count"}, lhp))
                       - Cardinality(Halves(huy', lhp))
    BY DEF Balanced, RowsSoon, CounterSoon, Confirmed, Holders, Holds, Outstanding, StatementsOf, Halves

\* One more student.
LEMMA HoldersAdded ==
    ASSUME NEW before, NEW after, NEW lhp, NEW one \in Students, ~Holds(before, one, lhp),
           \A sv \in Students : Holds(after, sv, lhp) <=> Holds(before, sv, lhp) \/ sv = one
    PROVE  Cardinality(Holders(after, lhp)) = Cardinality(Holders(before, lhp)) + 1
<1>1. Holders(after, lhp) = Holders(before, lhp) \union {one} /\ one \notin Holders(before, lhp)
    BY DEF Holders
<1> QED BY <1>1, HoldersFinite, FS_AddElement

\* The same students.
LEMMA HoldersSame ==
    ASSUME NEW before, NEW after, NEW lhp,
           \A sv \in Students : Holds(after, sv, lhp) <=> Holds(before, sv, lhp)
    PROVE  Holders(after, lhp) = Holders(before, lhp)
BY DEF Holders

\* Who holds a seat after a statement: a student who had none of the course
\* gets the seat, and nobody loses one.
LEMMA SeatGiven ==
    ASSUME CarefulInv, NEW b \in Batches, batch[b].pc = "write",
           NEW w \in batch[b].writes, Executed(w)
    PROVE  /\ \A s \in Students, l \in Sections :
                  Holds(dangKy', s, l) <=>
                      \/ Holds(dangKy, s, l)
                      \/ w.op \in {"confirm", "move"} /\ s = w.row.sv /\ l = w.lhp
           /\ w.op \in {"confirm", "move"} =>
                  /\ w.row.sv \in Students /\ w.lhp \in Sections
                  /\ \A l \in Sections :
                         CourseOf[l] = CourseOf[w.lhp] => ~Holds(dangKy, w.row.sv, l)
<1>1. CASE w.op = "count"
    BY <1>1 DEF Executed
<1>2. CASE w.op # "count"
    <2>1. /\ WriteOfRows(batch[b].rows, w) /\ batch[b].rows \in SUBSET PendingRow
          /\ WritesInPlace({w})
          /\ w.row.sv \in Students /\ w.row.lhp \in Sections /\ w.lhp \in Sections
          /\ CourseOf[w.lhp] = CourseOf[w.row.lhp]
          /\ dangKy[w.row.sv][w.row.lhp].trangThai = "ChoXuLy"
          /\ \A l \in Sections :
                 CourseOf[l] = CourseOf[w.row.lhp] /\ OnFile(w.row.sv, l) => l = w.row.lhp
        BY <1>2, OnlyRow
    <2>2. TablesType
        BY TypeParts DEF CarefulInv, FiledInv, ShapeInv
    <2>3. \A l \in Sections : CourseOf[l] = CourseOf[w.lhp] => ~Holds(dangKy, w.row.sv, l)
        BY <2>1 DEF Holds, OnFile
    <2>4. \A s \in Students, l \in Sections :
              Holds(dangKy', s, l) <=>
                  \/ w.op \in {"confirm", "move"} /\ s = w.row.sv /\ l = w.lhp
                  \/ /\ Holds(dangKy, s, l)
                     /\ ~(w.op \in {"move", "wait"} /\ s = w.row.sv /\ l = w.row.lhp)
        BY <2>1, <2>2, ExecutedHolds
    <2> QED BY <2>1, <2>3, <2>4
<1> QED BY <1>1, <1>2

\* Requests: a cancellation gives back the seat its student holds.
LEMMA RequestBalance ==
    ASSUME BalanceInv, MaxFailures = 0,
           \/ \E q \in Requests : Send(q)
           \/ \E d \in inbox : Drop(d) \/ DangKyMonHoc(d) \/ HuyXoa(d)
           \/ \E d \in huy : HuyTru(d),
           NEW lhp \in Sections
    PROVE  Balanced(lhp)'
<1> DEFINE H == Cardinality(Holders(dangKy, lhp))
           M == Cardinality(StatementsOf(batch, {"confirm", "move"}, lhp))
           N == Cardinality(StatementsOf(batch, {"count"}, lhp))
           h == Cardinality(Halves(huy, lhp))
           newH == Cardinality(Holders(dangKy', lhp))
           newh == Cardinality(Halves(huy', lhp))
<1>1. ShapeInv /\ TypeInv /\ TablesType /\ CallsType /\ BoundsType
    BY TypeParts DEF BalanceInv, CarefulInv, FiledInv, ShapeInv
<1>2. /\ H \in Nat /\ M \in Nat /\ N \in Nat /\ h \in Nat /\ counter[lhp] \in Int
      /\ IsFiniteSet(Halves(huy, lhp))
    BY <1>1, LedgerNumbers DEF BalanceInv
<1>3. H + M = counter[lhp] + N - h
    BY BalanceSets DEF BalanceInv
<1>4. UNCHANGED batch
    BY DEF Send, Drop, DangKyMonHoc, HuyXoa, HuyTru
<1>5. Balanced(lhp)' <=> newH + M = counter'[lhp] + N - newh
    BY <1>4, BalanceSets
<1>6. ASSUME NEW q \in Requests, Send(q)
      PROVE  Balanced(lhp)'
    <2>1. newH = H /\ newh = h /\ counter' = counter
        BY <1>6 DEF Send, tables
    <2> HIDE DEF H, M, N, h, newH, newh
    <2> QED BY <1>3, <1>5, <2>1
<1>7. ASSUME NEW d \in inbox, Drop(d)
      PROVE  Balanced(lhp)'
    <2>1. newH = H /\ newh = h /\ counter' = counter
        BY <1>7 DEF Drop, tables
    <2> HIDE DEF H, M, N, h, newH, newh
    <2> QED BY <1>3, <1>5, <2>1
<1>8. ASSUME NEW d \in inbox, DangKyMonHoc(d)
      PROVE  Balanced(lhp)'
    <2>1. newh = h /\ counter' = counter /\ d[1].kind = "DANG_KY"
        BY <1>8 DEF DangKyMonHoc
    <2>2. d[1].lhp \in Sections /\ ~Holds(dangKy, d[1].sv, d[1].lhp)
        BY <1>1, <2>1, DeliveryType DEF BalanceInv, CarefulInv, Careful, InTurn, OnFile, Holds
    <2>3. \A sv \in Students : Holds(dangKy', sv, lhp) <=> Holds(dangKy, sv, lhp)
        BY <1>1, <1>8, <2>2, RequestHolds
    <2>4. newH = H
        BY <2>3, HoldersSame
    <2> HIDE DEF H, M, N, h, newH, newh
    <2> QED BY <1>3, <1>5, <2>1, <2>4
<1>9. ASSUME NEW d \in inbox, HuyXoa(d)
      PROVE  Balanced(lhp)'
    <2>1. counter' = counter /\ huy' = huy \union {d} /\ d[1].kind = "HUY" /\ d \notin huy
        BY <1>9 DEF HuyXoa, BalanceInv, CarefulInv, Careful, OneOpen
    <2>2. d[1].sv \in Students /\ Holds(dangKy, d[1].sv, d[1].lhp)
        BY <1>1, <2>1, DeliveryType DEF BalanceInv, CarefulInv, Careful, InTurn
    <2>3. \A sv \in Students :
              Holds(dangKy', sv, lhp) <=> Holds(dangKy, sv, lhp) /\ ~(sv = d[1].sv /\ lhp = d[1].lhp)
        BY <1>1, <1>9, RequestHolds
    <2>4. newH \in Nat
        BY HoldersFinite
    <2>5. CASE d[1].lhp = lhp
        <3>1. ~Holds(dangKy', d[1].sv, lhp)
            BY <2>2, <2>3, <2>5
        <3>2. \A sv \in Students : Holds(dangKy, sv, lhp) <=> Holds(dangKy', sv, lhp) \/ sv = d[1].sv
            BY <2>2, <2>3, <2>5
        <3>3. H = newH + 1
            BY <2>2, <3>1, <3>2, HoldersAdded
        <3>4. Halves(huy', lhp) = Halves(huy, lhp) \union {d} /\ d \notin Halves(huy, lhp)
            BY <2>1, <2>5 DEF Halves
        <3>5. newh = h + 1
            BY <1>2, <3>4, FS_AddElement
        <3> HIDE DEF H, M, N, h, newH, newh
        <3> QED BY <1>2, <1>3, <1>5, <2>1, <2>4, <3>3, <3>5
    <2>6. CASE d[1].lhp # lhp
        <3>1. newH = H
            BY <2>3, <2>6, HoldersSame
        <3>2. Halves(huy', lhp) = Halves(huy, lhp)
            BY <2>1, <2>6 DEF Halves
        <3>3. newh = h
            BY <3>2
        <3> HIDE DEF H, M, N, h, newH, newh
        <3> QED BY <1>3, <1>5, <2>1, <3>1, <3>3
    <2> QED BY <2>5, <2>6
<1>10. ASSUME NEW d \in huy, HuyTru(d)
       PROVE  Balanced(lhp)'
    <2>1. newH = H
        BY <1>10 DEF HuyTru
    <2>2. huy' = huy \ {d} /\ counter' = [counter EXCEPT ![d[1].lhp] = @ - 1]
        BY <1>1, <1>10 DEF HuyTru, StatementFails, BoundsType
    <2>3. counter \in [Sections -> Int]
        BY <1>1 DEF TablesType
    <2>4. CASE d[1].lhp = lhp
        <3>1. Halves(huy', lhp) = Halves(huy, lhp) \ {d} /\ d \in Halves(huy, lhp)
            BY <2>2, <2>4 DEF Halves
        <3>2. newh = h - 1
            BY <1>2, <3>1, OneLess
        <3>3. counter'[lhp] = counter[lhp] - 1
            BY <2>2, <2>3, <2>4
        <3> HIDE DEF H, M, N, h, newH, newh
        <3> QED BY <1>2, <1>3, <1>5, <2>1, <3>2, <3>3
    <2>5. CASE d[1].lhp # lhp
        <3>1. Halves(huy', lhp) = Halves(huy, lhp)
            BY <2>2, <2>5 DEF Halves
        <3>2. newh = h
            BY <3>1
        <3>3. counter'[lhp] = counter[lhp]
            BY <2>2, <2>3, <2>5
        <3> HIDE DEF H, M, N, h, newH, newh
        <3> QED BY <1>3, <1>5, <2>1, <3>2, <3>3
    <2> QED BY <2>4, <2>5
<1> QED BY <1>6, <1>7, <1>8, <1>9, <1>10

\* Batches: a seat is given and counted, each once.
LEMMA BatchBalance ==
    ASSUME BalanceInv, MaxFailures = 0, NEW b \in Batches, BatchStep(b), ShapeInv',
           NEW lhp \in Sections
    PROVE  Balanced(lhp)'
<1> DEFINE loc == batch[b]
           new == batch'[b]
           rowOps == {"confirm", "move"}
           H == Cardinality(Holders(dangKy, lhp))
           M == Cardinality(StatementsOf(batch, rowOps, lhp))
           N == Cardinality(StatementsOf(batch, {"count"}, lhp))
           h == Cardinality(Halves(huy, lhp))
           newH == Cardinality(Holders(dangKy', lhp))
           newM == Cardinality(StatementsOf(batch', rowOps, lhp))
           newN == Cardinality(StatementsOf(batch', {"count"}, lhp))
<1>1. ShapeInv /\ TypeInv /\ TablesType /\ BatchesType /\ BoundsType
    BY TypeParts DEF BalanceInv, CarefulInv, FiledInv, ShapeInv
<1>2. /\ H \in Nat /\ M \in Nat /\ N \in Nat /\ h \in Nat /\ counter[lhp] \in Int
      /\ \A c \in Batches : IsFiniteSet(batch[c].writes)
    BY <1>1, LedgerNumbers DEF BalanceInv
<1>3. H + M = counter[lhp] + N - h
    BY BalanceSets DEF BalanceInv
<1>4. /\ batch' = [batch EXCEPT ![b] = new] /\ Effect(loc, new)
      /\ UNCHANGED <<huy, failures>>
    BY CarefulBatch DEF BalanceInv
<1>5. Balanced(lhp)' <=> newH + newM = counter'[lhp] + newN - h
    BY <1>4, BalanceSets
<1>6. newH \in Nat /\ newM \in Nat /\ newN \in Nat
    <2>1. \A c \in Batches : IsFiniteSet(batch'[c].writes)
        BY DEF ShapeInv, ShapeLocals
    <2> QED BY <2>1, HoldersFinite, StatementsFinite
<1>7. ~StatementFails
    BY <1>1 DEF BoundsType, StatementFails
<1>8. \A c \in Batches : batch'[c] = IF c = b THEN new ELSE batch[c]
    BY <1>1, <1>4 DEF BatchesType
<1> HIDE DEF new
<1>9. CASE new.writes = loc.writes /\ UNCHANGED <<dangKy, counter>>
    <2>1. \A c \in Batches : batch'[c].writes = batch[c].writes
        BY <1>8, <1>9
    <2>2. newM = M /\ newN = N
        BY <2>1, StatementsKept
    <2>3. newH = H /\ counter' = counter
        BY <1>9
    <2> HIDE DEF H, M, N, h, newH, newM, newN
    <2> QED BY <1>3, <1>5, <2>2, <2>3
<1>10. CASE Moves(loc, new)
    <2>1. loc.toReject = {}
        BY DEF BalanceInv, CarefulInv, Careful, NoRefusals
    <2>2. new.writes = loc.writes /\ UNCHANGED <<dangKy, counter>>
        BY <1>10, <2>1 DEF Moves
    <2> QED BY <1>9, <2>2
<1>11. CASE Learns(loc, new)
    BY <1>9, <1>11 DEF Learns, tables
<1>12. CASE Queues(loc, new)
    <2>1. PICK plan \in Plan : new.writes = WritesOf(loc, plan)
        BY <1>12 DEF Queues
    <2> DEFINE W == WritesOf(loc, plan)
    <2>2. loc.writes = {} /\ UNCHANGED <<dangKy, counter>>
        BY <1>12 DEF Queues, tables
    <2>3. IsFiniteSet(W)
        BY WritesOfShape
    <2>4. \A c \in Batches : batch'[c].writes = IF c = b THEN W ELSE batch[c].writes
        BY <1>8, <2>1
    <2>5. Cardinality(Selected(W, {"count"}, lhp)) = Cardinality(Selected(W, rowOps, lhp))
        BY WritesOfCount
    <2> HIDE DEF W
    <2>6. newM = M + Cardinality(Selected(W, rowOps, lhp))
        BY <1>2, <2>2, <2>3, <2>4, StatementsQueued
    <2>7. newN = N + Cardinality(Selected(W, {"count"}, lhp)) /\ Cardinality(Selected(W, {"count"}, lhp)) \in Nat
        BY <1>2, <2>2, <2>3, <2>4, StatementsQueued
    <2>8. newH = H
        BY <2>2
    <2> HIDE DEF H, M, N, h, newH, newM, newN
    <2> QED BY <1>2, <1>3, <1>5, <1>6, <2>2, <2>5, <2>6, <2>7, <2>8
<1>13. CASE Writes(loc, new)
    <2>1. PICK w \in loc.writes : new.writes = loc.writes \ {w} /\ Executed(w)
        BY <1>7, <1>13 DEF Writes
    <2>2. \A c \in Batches : batch'[c].writes = IF c = b THEN loc.writes \ {w} ELSE batch[c].writes
        BY <1>8, <2>1
    <2> DEFINE fewer(ops) ==
                   /\ w.op \in ops /\ w.lhp = lhp =>
                          Cardinality(StatementsOf(batch', ops, lhp)) =
                              Cardinality(StatementsOf(batch, ops, lhp)) - 1
                   /\ ~(w.op \in ops /\ w.lhp = lhp) =>
                          StatementsOf(batch', ops, lhp) = StatementsOf(batch, ops, lhp)
    <2>3. ASSUME NEW ops PROVE fewer(ops)
        <3>1. \A c \in Batches : IsFiniteSet(batch[c].writes)
            BY <1>2
        <3>2. w \in batch[b].writes
            OBVIOUS
        <3>3. /\ batch'[b].writes = batch[b].writes \ {w}
              /\ \A c \in Batches \ {b} : batch'[c].writes = batch[c].writes
            BY <2>2
        <3> HIDE DEF loc
        <3> QED BY <3>1, <3>2, <3>3, StatementGone
    <2>4. /\ w.op \in rowOps /\ w.lhp = lhp => newM = M - 1
          /\ ~(w.op \in rowOps /\ w.lhp = lhp) => newM = M
          /\ w.op = "count" /\ w.lhp = lhp => newN = N - 1
          /\ ~(w.op = "count" /\ w.lhp = lhp) => newN = N
        <3>1. fewer(rowOps) /\ fewer({"count"})
            BY <2>3
        <3> QED BY <3>1
    <2>5. /\ \A s \in Students, l \in Sections :
                 Holds(dangKy', s, l) <=>
                     Holds(dangKy, s, l) \/ (w.op \in rowOps /\ s = w.row.sv /\ l = w.lhp)
          /\ w.op \in rowOps =>
                 /\ w.row.sv \in Students /\ w.lhp \in Sections
                 /\ \A l \in Sections :
                        CourseOf[l] = CourseOf[w.lhp] => ~Holds(dangKy, w.row.sv, l)
        <3>1. loc.pc = "write"
            BY <1>13 DEF Writes
        <3> QED BY <2>1, <3>1, SeatGiven DEF BalanceInv
    <2>6. CASE w.op \in rowOps /\ w.lhp = lhp
        <3>1. newH = H + 1
            BY <2>5, <2>6, HoldersAdded
        <3>2. counter' = counter /\ w.op # "count"
            BY <2>1, <2>6 DEF Executed
        <3>3. newM = M - 1 /\ newN = N
            BY <2>4, <2>6, <3>2
        <3> HIDE DEF H, M, N, h, newH, newM, newN
        <3> QED BY <1>2, <1>3, <1>5, <1>6, <3>1, <3>2, <3>3
    <2>7. CASE ~(w.op \in rowOps /\ w.lhp = lhp)
        <3>1. newH = H
            BY <2>5, <2>7, HoldersSame
        <3>2. newM = M
            BY <2>4, <2>7
        <3>3. CASE w.op = "count"
            <4>1. counter' = [counter EXCEPT ![w.lhp] = @ + 1] /\ counter \in [Sections -> Int]
                BY <1>1, <2>1, <3>3 DEF Executed, TablesType
            <4>2. CASE w.lhp = lhp
                <5>1. counter'[lhp] = counter[lhp] + 1 /\ newN = N - 1
                    BY <2>4, <3>3, <4>1, <4>2
                <5> HIDE DEF H, M, N, h, newH, newM, newN
                <5> QED BY <1>2, <1>3, <1>5, <1>6, <3>1, <3>2, <5>1
            <4>3. CASE w.lhp # lhp
                <5>1. counter'[lhp] = counter[lhp] /\ newN = N
                    BY <2>4, <4>1, <4>3
                <5> HIDE DEF H, M, N, h, newH, newM, newN
                <5> QED BY <1>3, <1>5, <3>1, <3>2, <5>1
            <4> QED BY <4>2, <4>3
        <3>4. CASE w.op # "count"
            <4>1. counter' = counter /\ newN = N
                BY <2>1, <2>4, <3>4 DEF Executed
            <4> HIDE DEF H, M, N, h, newH, newM, newN
            <4> QED BY <1>3, <1>5, <3>1, <3>2, <4>1
        <3> QED BY <3>3, <3>4
    <2> QED BY <2>6, <2>7
<1> QED BY <1>4, <1>10, <1>11, <1>12, <1>13 DEF Effect

\* The balance at the start and after every step.
LEMMA BalanceInit == Init => BalanceInv
<1> SUFFICES ASSUME Init PROVE BalanceInv
    OBVIOUS
<1>1. IsFiniteSet(sent) /\ Cardinality({}) = 0
    BY FS_EmptySet DEF Init
<1>2. ASSUME NEW lhp \in Sections
      PROVE  Balanced(lhp)
    <2>1. Holders(dangKy, lhp) = {} /\ Halves(huy, lhp) = {} /\ counter[lhp] = 0
        BY DEF Init, Holders, Holds, Halves, NoRow
    <2>2. \A b \in Batches : batch[b].writes = {}
        BY DEF Init, Idle
    <2>3. \A ops : StatementsOf(batch, ops, lhp) = {}
        BY <2>2 DEF StatementsOf
    <2>4. /\ Cardinality(Holders(dangKy, lhp)) = 0 /\ Cardinality(Halves(huy, lhp)) = 0
          /\ Cardinality(StatementsOf(batch, {"confirm", "move"}, lhp)) = 0
          /\ Cardinality(StatementsOf(batch, {"count"}, lhp)) = 0
        BY <1>1, <2>1, <2>3
    <2>5. Balanced(lhp) <=> 0 + 0 = 0 + 0 - 0
        BY <2>1, <2>4, BalanceSets
    <2> QED BY <2>5
<1> QED BY <1>1, <1>2, CarefulInit DEF BalanceInv

\* Every step, for one batch at a time and without faults.
LEMMA BalanceStep ==
    ASSUME OneBatch, NoFaults, CarefulClient
    PROVE  BalanceInv /\ [Next]_vars => BalanceInv'
<1> SUFFICES ASSUME BalanceInv, [Next]_vars PROVE BalanceInv'
    OBVIOUS
<1>1. CarefulInv' /\ IsFiniteSet(sent')
    BY CarefulStep, SentFinite DEF BalanceInv
<1>2. MaxFailures = 0 /\ ShapeInv'
    BY <1>1 DEF NoFaults, CarefulInv, FiledInv
<1>3. \A r \in Replicas : ~Crash(r)
    BY TypeParts DEF Crash, NoFaults, BalanceInv, CarefulInv, FiledInv, ShapeInv, BoundsType
<1>4. ASSUME NEW lhp \in Sections
      PROVE  Balanced(lhp)'
    <2>1. CASE UNCHANGED vars
        <3>1. UNCHANGED <<dangKy, counter, huy, batch>>
            BY <2>1 DEF vars
        <3> QED BY <3>1, BalanceSets DEF BalanceInv
    <2>2. CASE Next
        BY <1>2, <1>3, <2>2, RequestBalance, BatchBalance DEF Next
    <2> QED BY <2>1, <2>2
<1> QED BY <1>1, <1>4 DEF BalanceInv

\* One batch at a time, no failures and no stops, and clients that look before
\* they ask: every confirmed row is counted once, also through cancellations.
THEOREM RowsAreCounted ==
    OneBatch /\ NoFaults /\ CarefulClient => (Spec => []LedgerBalanced)
<1> SUFFICES ASSUME OneBatch, NoFaults, CarefulClient PROVE Spec => []LedgerBalanced
    OBVIOUS
<1>1. BalanceInv /\ [Next]_vars => BalanceInv'
    BY BalanceStep
<1>2. BalanceInv => LedgerBalanced
    BY DEF BalanceInv, Balanced, LedgerBalanced
<1> QED BY BalanceInit, <1>1, <1>2, PTL DEF Spec

-----------------------------------------------------------------------------
(***************************************************************************)
(* What a student is promised                                              *)
(***************************************************************************)

\* The state of SeatAllocation as registration shows it.
Wishes  == {k \in Students \X Sections : Asked(k[1], k[2])}
Cancels == {<<q.sv, q.lhp>> : q \in {r \in sent : r.kind = "HUY"}}
Seated  == [lhp \in Sections |-> Confirmed(lhp)]

\* The steps of SeatAllocation: asking for a section.
LEMMA StepOfAsk ==
    ASSUME Wishes \subseteq Wishes', UNCHANGED <<Cancels, Seated>>
    PROVE  Seats!Next
BY DEF Seats!Next, Seats!Ask, Seats!Pairs, Wishes, Cancels, Seated

\* Asking to cancel.
LEMMA StepOfAskToCancel ==
    ASSUME Cancels \subseteq Cancels', Cancels' \subseteq Students \X Sections,
           UNCHANGED <<Wishes, Seated>>
    PROVE  Seats!Next
BY DEF Seats!Next, Seats!AskToCancel, Seats!Pairs, Wishes, Cancels, Seated

\* Both modules count with FiniteSets.
LEMMA SameCardinality == \A S : Seats!Cardinality(S) = Cardinality(S)
BY DEF Seats!Cardinality, Cardinality

\* Getting a seat.
LEMMA StepOfSeat ==
    ASSUME NEW sv \in Students, NEW lhp \in Sections, Asked(sv, lhp),
           Cardinality(Confirmed(lhp)) < SoLuongToiDa[lhp],
           \A l \in Sections : CourseOf[l] = CourseOf[lhp] => sv \notin Confirmed(l),
           Seated' = [Seated EXCEPT ![lhp] = @ \union {sv}],
           UNCHANGED <<Wishes, Cancels>>
    PROVE  Seats!Next
<1>1. <<sv, lhp>> \in Wishes
    BY DEF Wishes
<1>2. Seated[lhp] = Confirmed(lhp)
    BY DEF Seated
<1>3. ~\E l \in Sections : CourseOf[l] = CourseOf[lhp] /\ sv \in Seated[l]
    BY DEF Seated
<1>4. Seats!Seat(sv, lhp)
    BY <1>1, <1>2, <1>3, SameCardinality DEF Seats!Seat, Seats!SeatedInCourse, Wishes, Cancels, Seated
<1> QED BY <1>4 DEF Seats!Next

\* Leaving it.
LEMMA StepOfLeave ==
    ASSUME NEW sv \in Students, NEW lhp \in Sections, <<sv, lhp>> \in Cancels,
           sv \in Confirmed(lhp), Seated' = [Seated EXCEPT ![lhp] = @ \ {sv}],
           UNCHANGED <<Wishes, Cancels>>
    PROVE  Seats!Next
<1>1. Seats!Leave(sv, lhp)
    BY DEF Seats!Leave, Wishes, Cancels, Seated
<1> QED BY <1>1 DEF Seats!Next

\* What was asked for, as long as no client asks.
LEMMA AskedSame == ASSUME UNCHANGED sent PROVE UNCHANGED <<Wishes, Cancels>>
BY DEF Wishes, Cancels, Asked

\* The seats after a step that changes the holders of none, or of one seat.
LEMMA SeatedAfter ==
    ASSUME NEW sv \in Students, NEW lhp \in Sections
    PROVE  /\ (\A s \in Students, l \in Sections : Holds(dangKy', s, l) <=> Holds(dangKy, s, l))
                  => UNCHANGED Seated
           /\ (\A s \in Students, l \in Sections :
                   Holds(dangKy', s, l) <=> Holds(dangKy, s, l) \/ (s = sv /\ l = lhp))
                  => Seated' = [Seated EXCEPT ![lhp] = @ \union {sv}]
           /\ (\A s \in Students, l \in Sections :
                   Holds(dangKy', s, l) <=> Holds(dangKy, s, l) /\ ~(s = sv /\ l = lhp))
                  => Seated' = [Seated EXCEPT ![lhp] = @ \ {sv}]
<1>1. \A l \in Sections :
          /\ Confirmed(l) = {s \in Students : Holds(dangKy, s, l)}
          /\ Confirmed(l)' = {s \in Students : Holds(dangKy', s, l)}
    BY DEF Confirmed, Holds
<1>2. /\ Seated = [l \in Sections |-> {s \in Students : Holds(dangKy, s, l)}]
      /\ Seated' = [l \in Sections |-> {s \in Students : Holds(dangKy', s, l)}]
    BY <1>1 DEF Seated
<1>3. ASSUME \A s \in Students, l \in Sections : Holds(dangKy', s, l) <=> Holds(dangKy, s, l)
      PROVE  UNCHANGED Seated
    <2>1. \A l \in Sections :
              {s \in Students : Holds(dangKy', s, l)} = {s \in Students : Holds(dangKy, s, l)}
        BY <1>3
    <2> QED BY <1>2, <2>1
<1>4. ASSUME \A s \in Students, l \in Sections :
                 Holds(dangKy', s, l) <=> Holds(dangKy, s, l) \/ (s = sv /\ l = lhp)
      PROVE  Seated' = [Seated EXCEPT ![lhp] = @ \union {sv}]
    <2>1. \A l \in Sections :
              {s \in Students : Holds(dangKy', s, l)} =
                  IF l = lhp THEN {s \in Students : Holds(dangKy, s, l)} \union {sv}
                  ELSE {s \in Students : Holds(dangKy, s, l)}
        BY <1>4
    <2> QED BY <1>2, <2>1
<1>5. ASSUME \A s \in Students, l \in Sections :
                 Holds(dangKy', s, l) <=> Holds(dangKy, s, l) /\ ~(s = sv /\ l = lhp)
      PROVE  Seated' = [Seated EXCEPT ![lhp] = @ \ {sv}]
    <2>1. \A l \in Sections :
              {s \in Students : Holds(dangKy', s, l)} =
                  IF l = lhp THEN {s \in Students : Holds(dangKy, s, l)} \ {sv}
                  ELSE {s \in Students : Holds(dangKy, s, l)}
        BY <1>5
    <2> QED BY <1>2, <2>1
<1> QED BY <1>3, <1>4, <1>5

\* While a statement that gives a seat is on its way, a seat is free.
LEMMA SeatFree ==
    ASSUME BalanceInv, FitInv, failures = 0, NEW b \in Batches, NEW w \in batch[b].writes,
           w.op \in {"confirm", "move"}, w.lhp \in Sections
    PROVE  Cardinality(Confirmed(w.lhp)) < SoLuongToiDa[w.lhp]
<1> DEFINE H == Cardinality(Holders(dangKy, w.lhp))
           rows == StatementsOf(batch, {"confirm", "move"}, w.lhp)
           M == Cardinality(rows)
           N == Cardinality(StatementsOf(batch, {"count"}, w.lhp))
           h == Cardinality(Halves(huy, w.lhp))
<1>1. /\ H \in Nat /\ M \in Nat /\ N \in Nat /\ h \in Nat /\ counter[w.lhp] \in Int
      /\ \A c \in Batches : IsFiniteSet(batch[c].writes)
    BY LedgerNumbers DEF BalanceInv, CarefulInv, FiledInv
<1>2. H + M = counter[w.lhp] + N - h
    BY BalanceSets DEF BalanceInv
<1>3. M # 0
    <2>1. <<b, w>> \in rows
        BY StatementIn
    <2>2. IsFiniteSet(rows)
        BY <1>1, StatementsFinite
    <2> HIDE DEF rows
    <2> QED BY <2>1, <2>2, FS_EmptySet
<1>4. counter[w.lhp] + N <= SoLuongToiDa[w.lhp] /\ SoLuongToiDa[w.lhp] \in Nat
    BY ConstantsAssumption DEF FitInv, Fits
<1>5. Cardinality(Confirmed(w.lhp)) = H
    BY DEF Holders, Holds, Confirmed
<1> HIDE DEF H, M, N, h
<1> QED BY <1>1, <1>2, <1>3, <1>4, <1>5

\* Requests: a wish, a wish to cancel, or a seat left by its student.
LEMMA RequestPromise ==
    ASSUME BalanceInv,
           \/ \E q \in Requests : Send(q)
           \/ \E d \in inbox : Drop(d) \/ DangKyMonHoc(d) \/ HuyXoa(d)
           \/ \E d \in huy : HuyTru(d)
    PROVE  Seats!Next \/ UNCHANGED <<Wishes, Cancels, Seated>>
<1>1. TypeInv /\ CallsType
    BY TypeParts DEF BalanceInv, CarefulInv, FiledInv, ShapeInv
<1>2. CASE UNCHANGED <<sent, dangKy>>
    BY <1>2, AskedSame DEF Seated, Confirmed
<1>3. ASSUME NEW q \in Requests, Send(q)
      PROVE  Seats!Next
    <2>1. sent' = sent \union {q} /\ UNCHANGED Seated
        BY <1>3 DEF Send, tables, Seated, Confirmed
    <2>2. q.kind \in {"DANG_KY", "HUY"}
        BY ConstantsAssumption DEF Request
    <2>3. CASE q.kind = "DANG_KY"
        <3>1. Wishes \subseteq Wishes' /\ UNCHANGED Cancels
            BY <2>1, <2>3 DEF Wishes, Cancels, Asked
        <3> QED BY <2>1, <3>1, StepOfAsk
    <2>4. CASE q.kind = "HUY"
        <3>1. Cancels \subseteq Cancels' /\ UNCHANGED Wishes
            BY <2>1, <2>4 DEF Wishes, Cancels, Asked
        <3>2. \A r \in sent' : r \in Request
            BY <1>1, <2>1, ConstantsAssumption DEF CallsType
        <3>3. Cancels' \subseteq Students \X Sections
            BY <3>2 DEF Cancels, Request
        <3> QED BY <2>1, <3>1, <3>3, StepOfAskToCancel
    <2> QED BY <2>2, <2>3, <2>4
<1>4. ASSUME NEW d \in inbox, DangKyMonHoc(d)
      PROVE  UNCHANGED <<Wishes, Cancels, Seated>>
    <2>1. d[1].kind = "DANG_KY" /\ UNCHANGED sent
        BY <1>4 DEF DangKyMonHoc
    <2>2. d[1].sv \in Students /\ d[1].lhp \in Sections /\ ~Holds(dangKy, d[1].sv, d[1].lhp)
        BY <1>1, <2>1, DeliveryType DEF BalanceInv, CarefulInv, Careful, InTurn, OnFile, Holds
    <2>3. \A s \in Students, l \in Sections : Holds(dangKy', s, l) <=> Holds(dangKy, s, l)
        BY <1>1, <1>4, <2>2, RequestHolds
    <2> QED BY <2>1, <2>2, <2>3, SeatedAfter, AskedSame
<1>5. ASSUME NEW d \in inbox, HuyXoa(d)
      PROVE  Seats!Next
    <2>1. d[1].kind = "HUY" /\ d[1] \in sent /\ UNCHANGED sent
        BY <1>1, <1>5 DEF HuyXoa, CallsType
    <2>2. d[1].sv \in Students /\ d[1].lhp \in Sections /\ Holds(dangKy, d[1].sv, d[1].lhp)
        BY <1>1, <2>1, DeliveryType DEF BalanceInv, CarefulInv, Careful, InTurn
    <2>3. <<d[1].sv, d[1].lhp>> \in Cancels
        BY <2>1 DEF Cancels
    <2>4. \A s \in Students, l \in Sections :
              Holds(dangKy', s, l) <=> Holds(dangKy, s, l) /\ ~(s = d[1].sv /\ l = d[1].lhp)
        BY <1>1, <1>5, RequestHolds
    <2>5. Seated' = [Seated EXCEPT ![d[1].lhp] = @ \ {d[1].sv}]
        BY <2>2, <2>4, SeatedAfter
    <2>6. d[1].sv \in Confirmed(d[1].lhp)
        BY <2>2 DEF Confirmed, Holds
    <2> QED BY <2>1, <2>2, <2>3, <2>5, <2>6, AskedSame, StepOfLeave
<1>6. ASSUME NEW d \in inbox, Drop(d)
      PROVE  UNCHANGED <<sent, dangKy>>
    BY <1>6 DEF Drop, tables
<1>7. ASSUME NEW d \in huy, HuyTru(d)
      PROVE  UNCHANGED <<sent, dangKy>>
    BY <1>7 DEF HuyTru
<1> QED BY <1>2, <1>3, <1>4, <1>5, <1>6, <1>7

\* Batches: a seat that is free, for a student who asked for it and has none
\* of the course.
LEMMA BatchPromise ==
    ASSUME BalanceInv, FitInv, AskedInv', MaxFailures = 0, NEW b \in Batches, BatchStep(b)
    PROVE  Seats!Next \/ UNCHANGED <<Wishes, Cancels, Seated>>
<1> DEFINE loc == batch[b]
           new == batch'[b]
<1>1. TypeInv /\ BoundsType /\ failures = 0 /\ ~StatementFails
    <2>1. TypeInv /\ BoundsType
        BY TypeParts DEF BalanceInv, CarefulInv, FiledInv, ShapeInv
    <2> QED BY <2>1 DEF BoundsType, StatementFails
<1>2. Effect(loc, new) /\ UNCHANGED sent
    BY CarefulBatch DEF BalanceInv
<1>3. UNCHANGED <<Wishes, Cancels>>
    BY <1>2, AskedSame
<1> HIDE DEF new
<1>4. CASE UNCHANGED dangKy
    BY <1>3, <1>4 DEF Seated, Confirmed
<1>5. CASE Moves(loc, new)
    <2>1. loc.toReject = {}
        BY DEF BalanceInv, CarefulInv, Careful, NoRefusals
    <2> QED BY <1>4, <1>5, <2>1 DEF Moves
<1>6. CASE Learns(loc, new) \/ Queues(loc, new)
    BY <1>4, <1>6 DEF Learns, Queues, tables
<1>7. CASE Writes(loc, new)
    <2>1. PICK w \in loc.writes : Executed(w)
        BY <1>1, <1>7 DEF Writes
    <2>2. loc.pc = "write"
        BY <1>7 DEF Writes
    <2>3. /\ \A s \in Students, l \in Sections :
                 Holds(dangKy', s, l) <=>
                     \/ Holds(dangKy, s, l)
                     \/ w.op \in {"confirm", "move"} /\ s = w.row.sv /\ l = w.lhp
          /\ w.op \in {"confirm", "move"} =>
                 /\ w.row.sv \in Students /\ w.lhp \in Sections
                 /\ \A l \in Sections :
                        CourseOf[l] = CourseOf[w.lhp] => ~Holds(dangKy, w.row.sv, l)
        BY <2>1, <2>2, SeatGiven DEF BalanceInv
    <2>4. CASE w.op \in {"confirm", "move"}
        <3>1. w.row.sv \in Students /\ w.lhp \in Sections
            BY <2>3, <2>4
        <3>2. Seated' = [Seated EXCEPT ![w.lhp] = @ \union {w.row.sv}]
            BY <2>3, <2>4, <3>1, SeatedAfter
        <3>3. Cardinality(Confirmed(w.lhp)) < SoLuongToiDa[w.lhp]
            BY <1>1, <2>1, <2>4, <3>1, SeatFree
        <3>4. \A l \in Sections : CourseOf[l] = CourseOf[w.lhp] => w.row.sv \notin Confirmed(l)
            BY <2>3, <2>4 DEF Confirmed, Holds
        <3>5. Asked(w.row.sv, w.lhp)
            <4>1. Holds(dangKy', w.row.sv, w.lhp)
                BY <2>3, <2>4, <3>1
            <4>2. NamedIn(sent', w.row.sv, w.lhp)
                BY <3>1, <4>1 DEF AskedInv, TableAsked, Holds
            <4> QED BY <1>2, <4>2 DEF NamedIn, Asked
        <3> QED BY <1>3, <3>1, <3>2, <3>3, <3>4, <3>5, StepOfSeat
    <2>5. CASE w.op \notin {"confirm", "move"}
        <3>1. \A s \in Students, l \in Sections : Holds(dangKy', s, l) <=> Holds(dangKy, s, l)
            BY <2>3, <2>5
        <3>2. UNCHANGED Seated
            <4>1. \A l \in Sections :
                      {s \in Students : Holds(dangKy', s, l)} = {s \in Students : Holds(dangKy, s, l)}
                BY <3>1
            <4> QED BY <4>1 DEF Seated, Confirmed, Holds
        <3> QED BY <1>3, <3>2
    <2> QED BY <2>4, <2>5
<1> QED BY <1>2, <1>5, <1>6, <1>7 DEF Effect

\* One batch at a time, no failures and no stops, and clients that look before
\* they ask: what a student sees of registration is what SeatAllocation
\* promises.  A confirmed student has one of the seats of a section that was
\* asked for, has no other section of the course, and leaves it only by
\* cancelling.
THEOREM SeatsArePromised ==
    OneBatch /\ NoFaults /\ CarefulClient => (Spec => ImplementsSeats)
<1> SUFFICES ASSUME OneBatch, NoFaults, CarefulClient PROVE Spec => ImplementsSeats
    OBVIOUS
<1> DEFINE Inv == BalanceInv /\ FitInv /\ AskedInv
<1>1. Init => Inv
    BY BalanceInit, FitInit, AskedInit
<1>2. Inv /\ [Next]_vars => Inv'
    BY BalanceStep, FitStep, AskedStep DEF BalanceInv, CarefulInv, FiledInv
<1>3. Init => Seats!Init
    BY DEF Init, Seats!Init, Asked, Confirmed, NoRow
<1>4. Inv /\ Inv' /\ [Next]_vars => [Seats!Next]_(Seats!abstractVars)
    <2> SUFFICES ASSUME Inv, Inv', [Next]_vars
                 PROVE  Seats!Next \/ UNCHANGED <<Wishes, Cancels, Seated>>
        BY DEF Seats!abstractVars, Wishes, Cancels, Seated
    <2>1. CASE UNCHANGED vars
        <3>1. UNCHANGED <<sent, dangKy>>
            BY <2>1 DEF vars
        <3> QED BY <3>1, AskedSame DEF Seated, Confirmed
    <2>2. MaxFailures = 0
        BY DEF NoFaults
    <2>3. \A r \in Replicas : ~Crash(r)
        BY TypeParts DEF Crash, NoFaults, AskedInv, BoundsType
    <2>4. CASE Next
        BY <2>2, <2>3, <2>4, RequestPromise, BatchPromise DEF Next
    <2> QED BY <2>1, <2>4
<1> HIDE DEF Inv
<1> QED BY <1>1, <1>2, <1>3, <1>4, PTL DEF Spec, ImplementsSeats, Seats!Spec
=============================================================================
