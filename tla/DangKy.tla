------------------------------- MODULE DangKy -------------------------------
(***************************************************************************)
(* Registration in web-registeter/db/db.go: the tables dang_ky and         *)
(* lop_hoc_phan_counter, the handlers DANG_KY_MON_HOC and HUY_DANG_KY, and *)
(* the TOPSIS batches that turn pending wishes into seats.                 *)
(*                                                                         *)
(* Every statement sent to ScyllaDB is a step of its own, so handlers and  *)
(* batches of all replicas interleave between statements.  The tables are  *)
(* one copy that takes the statements in some order.  Sections are numbers *)
(* in the clustering order of dang_ky, ((ma_sinh_vien), ma_lop_hoc_phan).  *)
(***************************************************************************)
EXTENDS Allocation, SequencesExt

CONSTANTS
    CourseOf,       \* lop_hoc_phan.ma_mon_hoc
    SoLuongToiDa,   \* lop_hoc_phan.so_luong_toi_da
    NoSection,      \* an empty ma_lop_hoc_phan_phu
    Replicas,       \* the pods of db-service
    BatchSlots,     \* cap(batchSem) of one pod: 3 in main
    Requests,       \* what the clients may ask, each at most once
    CarefulClient,  \* clients ask only what the rows they see suggest
    MaxFailures,    \* bound on failed statements of batches and of HUY's UPDATE
    MaxCrashes      \* bound on pods that stop in the middle of their work

Batches == Replicas \X (1..BatchSlots)

Request == [kind : {"DANG_KY", "HUY"}, sv : Students, lhp : Sections,
            phu : Sections \union {NoSection}]

TrangThai == {"ChoXuLy", "DaDangKy", "DanhSachCho", "TuChoi"}

\* A row of dang_ky, or the absence of one.  A row that an UPDATE brought
\* into being has no ma_mon_hoc.
NoRow == [trangThai |-> "khong", monHoc |-> NoCourse, phu |-> NoSection]

Row == [trangThai : TrangThai, monHoc : Courses \union {NoCourse},
        phu : Sections \union {NoSection}]

\* pendingRow: what a batch remembers of a row it read.
PendingRow == [sv : Students, lhp : Sections, phu : Sections \union {NoSection}]

ASSUME ConstantsAssumption ==
    /\ Sections \subseteq Nat
    /\ NoSection \notin Sections
    /\ CourseOf \in [Sections -> Courses]
    /\ SoLuongToiDa \in [Sections -> Nat]
    /\ Requests \subseteq Request
    /\ BatchSlots \in Nat \ {0}
    /\ CarefulClient \in BOOLEAN
    /\ MaxFailures \in Nat
    /\ MaxCrashes \in Nat

\* There are finitely many students and pods.
ASSUME FinitenessAssumption == IsFiniteSet(Students) /\ IsFiniteSet(Replicas)

\* There are finitely many sections: of every set of them one is the last in
\* clustering order.
ASSUME LastSectionAssumption ==
    \A S \in (SUBSET Sections) \ {{}} : \E last \in S : \A lhp \in S : lhp <= last

VARIABLES
    dangKy,     \* table dang_ky: student -> section -> row
    counter,    \* table lop_hoc_phan_counter
    sent,       \* requests the clients have published on db.query
    inbox,      \* deliveries <<request, replica>> no handler has taken
    huy,        \* HUY handlers between their DELETE and their UPDATE
    batch,      \* the locals of processPendingBatch, for each slot of batchSem
    failures,   \* statements that failed so far
    crashes     \* pods stopped so far

tables == <<dangKy, counter>>
calls  == <<sent, inbox, huy>>
vars   == <<dangKy, counter, sent, inbox, huy, batch, failures, crashes>>

-----------------------------------------------------------------------------
(***************************************************************************)
(* Statements                                                              *)
(***************************************************************************)

\* UPDATE dang_ky SET trang_thai = t: in CQL an UPDATE of a missing row
\* creates it, with no other column.
SetTrangThai(table, sv, lhp, t) == [table EXCEPT ![sv][lhp].trangThai = t]

\* INSERT overwrites a row with the same key.
InsertRow(table, sv, lhp, t, phu) ==
    [table EXCEPT ![sv][lhp] =
        [trangThai |-> t, monHoc |-> CourseOf[lhp], phu |-> phu]]

DeleteRow(table, sv, lhp) == [table EXCEPT ![sv][lhp] = NoRow]

\* Mutated form of DaDangKyMonHoc: the status that waits instead of the one
\* that is confirmed.
DangChoMonHoc(sv, mon) ==
    \E lhp \in Sections :
        dangKy[sv][lhp].monHoc = mon /\ dangKy[sv][lhp].trangThai = "DanhSachCho"

\* checkDaDangKyMonHoc: a count over the confirmed rows of the course.
DaDangKyMonHoc(sv, mon) ==
    \E lhp \in Sections :
        dangKy[sv][lhp].monHoc = mon /\ dangKy[sv][lhp].trangThai = "DaDangKy"

\* Mutated form of SlotConLai: the counter is not subtracted.
SlotToiDa(lhp) == SoLuongToiDa[lhp]

\* fetchSlotConLai: the seats left.  An error on the counter is taken for a
\* counter of 0; an error on the section leaves it out of the map (a later
\* edge of the section tries again), which Solve takes for no seat.
SlotConLai(lhp) ==
    LET con == SoLuongToiDa[lhp] - counter[lhp] IN IF con < 0 THEN 0 ELSE con

ReadErrors(lhp) == {SoLuongToiDa[lhp], 0}

-----------------------------------------------------------------------------
(***************************************************************************)
(* The locals of a batch                                                   *)
(***************************************************************************)

\* A statement of the last step: the status of a row, its move to section
\* lhp, or the counter of section lhp; at tells the assignments apart.
WriteOp == [op : {"confirm", "move", "count", "wait"}, at : Nat,
            row : PendingRow, lhp : Sections]

\* The plan of Solve before the seats of any section are known.
NoPlan == EmptyPlan([lhp \in Sections |-> 0])

\* pc: what the batch does next.  rows: its snapshot.  todo: rows it has yet
\* to check, then requests Solve has yet to consider.  rejected: rows the rule
\* engine refuses; toReject: those whose UPDATE is still to come.  read: the
\* sections whose seats it has read, into capLeft of the plan.  writes: the
\* statements the 24 write workers have not executed.
Idle == [pc |-> "idle", rows |-> {}, todo |-> {}, rejected |-> {},
         toReject |-> {}, read |-> {}, plan |-> NoPlan, writes |-> {}]

ChoXuLyRows ==
    {[sv |-> k[1], lhp |-> k[2], phu |-> dangKy[k[1]][k[2]].phu] :
        k \in {key \in Students \X Sections :
                  dangKy[key[1]][key[2]].trangThai = "ChoXuLy"}}

\* primaryRowByCourse: of several pending rows of a student for one course
\* the last one of the scan remains, refused or not.
PrimaryRow(rows, sv, mon) ==
    LET same == {r \in rows : r.sv = sv /\ CourseOf[r.lhp] = mon}
    IN  CHOOSE p \in same : \A r \in same : r.lhp <= p.lhp

Eligible(loc) == loc.rows \ loc.rejected

\* The sections that a request brings into the graph: its primary row's and
\* that row's alternative.
SectionsOfRequest(loc, r) ==
    LET p == PrimaryRow(loc.rows, r.sv, CourseOf[r.lhp])
    IN  {p.lhp, p.phu} \ {NoSection}

Wanted(loc) == UNION {SectionsOfRequest(loc, r) : r \in Eligible(loc)}

\* Solve on the edges of one request, the primary section first.  The edges
\* of a request are equal in score and stay together in the stable sort.  No
\* conflicts are passed, and the local search finds no swap on the edges of a
\* batch (AllocationOptimizer, NeverSwaps).
ConsiderRequest(loc, r) ==
    LET p == PrimaryRow(loc.rows, r.sv, CourseOf[r.lhp])
        edge(lhp) == [student |-> r.sv, course |-> CourseOf[r.lhp],
                      section |-> lhp, score |-> 0]
        first == Consider(loc.plan, edge(p.lhp), {})
    IN  IF p.phu = NoSection THEN first ELSE Consider(first, edge(p.phu), {})

RowOf(loc, e) == PrimaryRow(loc.rows, e.student, e.course)

\* The status of the primary row of a confirmed assignment, or the row's move
\* to the alternative section.
StatusWrite(loc, plan, i) ==
    LET a == plan.confirmed[i]
        p == RowOf(loc, a)
    IN  [op |-> IF a.section = p.lhp THEN "confirm" ELSE "move",
         at |-> i, row |-> p, lhp |-> a.section]

\* Mutated form of CountWrite: the seat is counted where the row points.
CountWriteAtRow(loc, plan, i) ==
    LET p == RowOf(loc, plan.confirmed[i])
    IN  [op |-> "count", at |-> i, row |-> p, lhp |-> p.lhp]

\* The seat of a confirmed assignment is counted in its own section.
CountWrite(loc, plan, i) ==
    [op |-> "count", at |-> i, row |-> RowOf(loc, plan.confirmed[i]),
     lhp |-> plan.confirmed[i].section]

Handled(plan, e) ==
    \E i \in 1..Len(plan.confirmed) :
        plan.confirmed[i].student = e.student /\ plan.confirmed[i].course = e.course

\* Mutated forms of WaitWrites: also for a student and course that got a
\* seat, and not at all.
WaitWritesForAll(loc, plan) ==
    {LET p == RowOf(loc, e) IN [op |-> "wait", at |-> 0, row |-> p, lhp |-> p.lhp] :
        e \in ToSet(plan.waitlist)}

NoWaitWrites(loc, plan) == {}

\* DanhSachCho, once, for a student and course that got nothing.
WaitWrites(loc, plan) ==
    {LET p == RowOf(loc, e) IN [op |-> "wait", at |-> 0, row |-> p, lhp |-> p.lhp] :
        e \in {x \in ToSet(plan.waitlist) : ~Handled(plan, x)}}

\* The statements for a plan.
WritesOf(loc, plan) ==
    (UNION {{StatusWrite(loc, plan, i), CountWrite(loc, plan, i)} : i \in 1..Len(plan.confirmed)})
      \union WaitWrites(loc, plan)

\* Executing one statement of a batch.
Executed(w) ==
    \/ /\ w.op = "confirm"
       /\ dangKy' = SetTrangThai(dangKy, w.row.sv, w.row.lhp, "DaDangKy")
       /\ UNCHANGED counter
    \/ /\ w.op = "move"
       /\ dangKy' = InsertRow(DeleteRow(dangKy, w.row.sv, w.row.lhp),
                              w.row.sv, w.lhp, "DaDangKy", NoSection)
       /\ UNCHANGED counter
    \/ /\ w.op = "count"
       /\ counter' = [counter EXCEPT ![w.lhp] = @ + 1]
       /\ UNCHANGED dangKy
    \/ /\ w.op = "wait"
       /\ dangKy' = SetTrangThai(dangKy, w.row.sv, w.row.lhp, "DanhSachCho")
       /\ UNCHANGED counter

\* Either a statement fails, is logged and forgotten, or it is executed.
StatementFails == failures < MaxFailures /\ failures' = failures + 1

-----------------------------------------------------------------------------
(***************************************************************************)
(* Requests                                                                *)
(***************************************************************************)

Init ==
    /\ dangKy = [sv \in Students |-> [lhp \in Sections |-> NoRow]]
    /\ counter = [lhp \in Sections |-> 0]
    /\ sent = {}
    /\ inbox = {}
    /\ huy = {}
    /\ batch = [b \in Batches |-> Idle]
    /\ failures = 0
    /\ crashes = 0

\* Requests of a student that some handler has yet to finish.
Open(sv) == {d \in inbox \union huy : d[1].sv = sv}

\* A client that looks before it asks: DANG_KY for a course in which it has
\* no row, HUY for a confirmed row, and neither while a request is open.
Sensible(q) ==
    /\ Open(q.sv) = {}
    /\ q.kind = "DANG_KY" =>
           \A lhp \in Sections : CourseOf[lhp] = CourseOf[q.lhp] => dangKy[q.sv][lhp] = NoRow
    /\ q.kind = "HUY" => dangKy[q.sv][q.lhp].trangThai = "DaDangKy"

\* A request on db.query reaches every replica: Subscribe names no queue
\* group.
Send(q) ==
    /\ q \in Requests \ sent
    /\ CarefulClient => Sensible(q)
    /\ sent' = sent \union {q}
    /\ inbox' = inbox \union {<<q, r>> : r \in Replicas}
    /\ UNCHANGED <<tables, huy, batch, failures, crashes>>

\* A delivery that changes nothing: the worker pool is saturated, the pod is
\* shutting down, or a statement of the handler fails before any took effect.
Drop(d) ==
    /\ d \in inbox
    /\ inbox' = inbox \ {d}
    /\ UNCHANGED <<tables, sent, huy, batch, failures, crashes>>

\* The alternative section must be of the same course; one equal to the
\* primary section is no alternative.
PhuHopLe(q) == q.phu # NoSection => CourseOf[q.phu] = CourseOf[q.lhp]

\* handleDangKyMonHoc: one INSERT with status ChoXuLy, whatever row was there.
DangKyMonHoc(d) ==
    LET q == d[1]
    IN  /\ d \in inbox
        /\ q.kind = "DANG_KY"
        /\ PhuHopLe(q)
        /\ dangKy' = InsertRow(dangKy, q.sv, q.lhp, "ChoXuLy",
                               IF q.phu = q.lhp THEN NoSection ELSE q.phu)
        /\ inbox' = inbox \ {d}
        /\ UNCHANGED <<counter, sent, huy, batch, failures, crashes>>

\* Mutated form of HuyXoa: the row is kept with another status.
HuyDanhDau(d) ==
    /\ d \in inbox
    /\ d[1].kind = "HUY"
    /\ dangKy' = SetTrangThai(dangKy, d[1].sv, d[1].lhp, "TuChoi")
    /\ inbox' = inbox \ {d}
    /\ huy' = huy \union {d}
    /\ UNCHANGED <<counter, sent, batch, failures, crashes>>

\* handleHuyDangKy, first statement: DELETE without looking at the row.
HuyXoa(d) ==
    /\ d \in inbox
    /\ d[1].kind = "HUY"
    /\ dangKy' = DeleteRow(dangKy, d[1].sv, d[1].lhp)
    /\ inbox' = inbox \ {d}
    /\ huy' = huy \union {d}
    /\ UNCHANGED <<counter, sent, batch, failures, crashes>>

\* handleHuyDangKy, second statement: the counter goes down; an error is
\* dropped.
HuyTru(d) ==
    /\ d \in huy
    /\ huy' = huy \ {d}
    /\ \/ /\ counter' = [counter EXCEPT ![d[1].lhp] = @ - 1]
          /\ UNCHANGED failures
       \/ /\ StatementFails
          /\ UNCHANGED counter
    /\ UNCHANGED <<dangKy, sent, inbox, batch, crashes>>

-----------------------------------------------------------------------------
(***************************************************************************)
(* processPendingBatch                                                     *)
(***************************************************************************)

\* A tick of the window with a slot free in batchSem: the scan of the rows
\* with status ChoXuLy.  With none the batch returns at once.
Scan(b) ==
    /\ batch[b].pc = "idle"
    /\ ChoXuLyRows # {}
    /\ batch' = [batch EXCEPT ![b] = [Idle EXCEPT !.pc = "check",
                                                  !.rows = ChoXuLyRows,
                                                  !.todo = ChoXuLyRows]]
    /\ UNCHANGED <<tables, calls, failures, crashes>>

\* After the rule engine: refusals are written first; if nothing is
\* eligible the batch ends there.
AfterChecks(loc) ==
    IF loc.toReject # {} THEN [loc EXCEPT !.pc = "reject"]
    ELSE IF Eligible(loc) = {} THEN Idle
    ELSE [loc EXCEPT !.pc = "slots", !.todo = Eligible(loc)]

\* One of the 32 readers checks one row.  A failed query counts as "not
\* registered".  When all are done RuleEngine.Filter has its verdict.
CheckRow(b) ==
    LET loc == batch[b] IN
    /\ loc.pc = "check"
    /\ \E r \in loc.todo, refuse \in BOOLEAN :
           /\ \/ /\ refuse = DaDangKyMonHoc(r.sv, CourseOf[r.lhp])
                 /\ UNCHANGED failures
              \/ /\ ~refuse
                 /\ DaDangKyMonHoc(r.sv, CourseOf[r.lhp])
                 /\ StatementFails
           /\ LET add == IF refuse THEN {r} ELSE {}
                  now == [loc EXCEPT !.todo = @ \ {r}, !.rejected = @ \union add,
                                     !.toReject = @ \union add]
              IN  batch' = [batch EXCEPT ![b] = IF now.todo = {} THEN AfterChecks(now) ELSE now]
    /\ UNCHANGED <<tables, calls, crashes>>

\* UPDATE dang_ky SET trang_thai = 'TuChoi' for one refused row.
Reject(b) ==
    LET loc == batch[b] IN
    /\ loc.pc = "reject"
    /\ \E r \in loc.toReject :
           /\ \/ /\ dangKy' = SetTrangThai(dangKy, r.sv, r.lhp, "TuChoi")
                 /\ UNCHANGED failures
              \/ StatementFails /\ UNCHANGED dangKy
           /\ batch' = [batch EXCEPT ![b] = AfterChecks([loc EXCEPT !.toReject = @ \ {r}])]
    /\ UNCHANGED <<counter, calls, crashes>>

\* The locals once n seats have been read for section s.
SlotRead(loc, s, n) ==
    [loc EXCEPT !.plan = [loc.plan EXCEPT !.capLeft = [loc.plan.capLeft EXCEPT ![s] = n]],
                !.read = @ \union {s}]

\* addEdge reads the seats left in a section, once in a batch.
ReadSlot(b) ==
    LET loc == batch[b] IN
    /\ loc.pc = "slots"
    /\ \E s \in Wanted(loc) \ loc.read :
           \E n \in {SlotConLai(s)} \union ReadErrors(s) :
               /\ IF n = SlotConLai(s) THEN UNCHANGED failures ELSE StatementFails
               /\ batch' = [batch EXCEPT ![b] = SlotRead(loc, s, n)]
    /\ UNCHANGED <<tables, calls, crashes>>

\* With every section read, Solve takes the next request in descending order
\* of score.  The scores come from profiles outside the system, so any
\* request may be next.  After the last one the statements are queued.
Allocate(b) ==
    LET loc == batch[b] IN
    /\ loc.pc = "slots"
    /\ Wanted(loc) = loc.read
    /\ \E r \in loc.todo :
           LET plan == ConsiderRequest(loc, r)
           IN  batch' = [batch EXCEPT ![b] =
                   IF loc.todo = {r}
                   THEN [loc EXCEPT !.pc = "write", !.todo = {}, !.plan = NoPlan,
                                    !.writes = WritesOf(loc, plan)]
                   ELSE [loc EXCEPT !.todo = @ \ {r}, !.plan = plan]]
    /\ UNCHANGED <<tables, calls, failures, crashes>>

\* One of the 24 write workers executes a statement, in no set order; after
\* the last one the batch ends.
Write(b) ==
    LET loc == batch[b] IN
    /\ loc.pc = "write"
    /\ \E w \in loc.writes :
           /\ \/ Executed(w) /\ UNCHANGED failures
              \/ StatementFails /\ UNCHANGED tables
           /\ batch' = [batch EXCEPT ![b] = IF loc.writes = {w} THEN Idle
                                            ELSE [loc EXCEPT !.writes = @ \ {w}]]
    /\ UNCHANGED <<calls, crashes>>

BatchStep(b) ==
    Scan(b) \/ CheckRow(b) \/ Reject(b) \/ ReadSlot(b) \/ Allocate(b) \/ Write(b)

\* A pod stops: killed, or shut down, which waits for handlers but not for
\* batches.  Its batches, its deliveries and its half-done HUYs are gone; the
\* tables stay.
Crash(r) ==
    /\ crashes < MaxCrashes
    /\ crashes' = crashes + 1
    /\ batch' = [b \in Batches |-> IF b[1] = r THEN Idle ELSE batch[b]]
    /\ inbox' = {d \in inbox : d[2] # r}
    /\ huy' = {d \in huy : d[2] # r}
    /\ UNCHANGED <<tables, sent, failures>>

-----------------------------------------------------------------------------

Next ==
    \/ \E q \in Requests : Send(q)
    \/ \E d \in inbox : Drop(d) \/ DangKyMonHoc(d) \/ HuyXoa(d)
    \/ \E d \in huy : HuyTru(d)
    \/ \E b \in Batches : BatchStep(b)
    \/ \E r \in Replicas : Crash(r)

Spec == Init /\ [][Next]_vars

\* The ticker fires for ever and the goroutine of a batch runs to its end.
FairSpec == Spec /\ \A b \in Batches : WF_vars(BatchStep(b))

-----------------------------------------------------------------------------
(***************************************************************************)
(* Properties                                                              *)
(***************************************************************************)

BatchType == [pc       : {"idle", "check", "reject", "slots", "write"},
              rows     : SUBSET PendingRow,
              todo     : SUBSET PendingRow,
              rejected : SUBSET PendingRow,
              toReject : SUBSET PendingRow,
              read     : SUBSET Sections,
              plan     : Plan,
              writes   : SUBSET WriteOp]

\* Every part of the state has its type.
TypeOK ==
    /\ dangKy \in [Students -> [Sections -> Row \union {NoRow}]]
    /\ counter \in [Sections -> Int]
    /\ sent \subseteq Requests
    /\ inbox \subseteq sent \X Replicas
    /\ huy \subseteq sent \X Replicas
    /\ batch \in [Batches -> BatchType]
    /\ \A b \in Batches, lhp \in Sections : batch[b].plan.capLeft[lhp] >= 0
    /\ failures \in 0..MaxFailures
    /\ crashes \in 0..MaxCrashes

Confirmed(lhp) == {sv \in Students : dangKy[sv][lhp].trangThai = "DaDangKy"}

\* Statements of an operation that still have to be executed for a section.
Outstanding(ops, lhp) ==
    {o \in Batches \X UNION {batch[b].writes : b \in Batches} :
        o[2] \in batch[o[1]].writes /\ o[2].op \in ops /\ o[2].lhp = lhp}

\* The rows and the counter of a section, each with what is on its way to it.
RowsSoon(lhp)    == Cardinality(Confirmed(lhp)) + Cardinality(Outstanding({"confirm", "move"}, lhp))
CounterSoon(lhp) == counter[lhp] + Cardinality(Outstanding({"count"}, lhp))
                      - Cardinality({d \in huy : d[1].lhp = lhp})

\* A section never has more confirmed students than seats.
NoOversell == \A lhp \in Sections : Cardinality(Confirmed(lhp)) <= SoLuongToiDa[lhp]

\* lop_hoc_phan_counter counts the confirmed rows, once the statements on
\* their way have been executed: seats are neither lost nor invented.
LedgerBalanced == \A lhp \in Sections : RowsSoon(lhp) = CounterSoon(lhp)

\* Every confirmed row, and every one some batch is about to confirm, is
\* counted or about to be counted: whatever other batches write in between,
\* no seat stays out of lop_hoc_phan_counter for good.  It is not said of the
\* counter itself: between a confirm and its count the counter is behind, and
\* fetchSlotConLai of another batch takes the seat for a free one.
SeatsAccounted == \A lhp \in Sections : RowsSoon(lhp) <= CounterSoon(lhp)

\* What that costs: batches that read a section before the others have counted
\* each hand out its free seats once, so with so many batches at a time a
\* section is oversold at most so many times over, by how many rounds of
\* batches ever.
OversellLimited ==
    \A lhp \in Sections :
        Cardinality(Confirmed(lhp)) <= Cardinality(Batches) * SoLuongToiDa[lhp]

\* What may put a section out of order while one batch runs at a time on one
\* pod: every count that is missing was lost by a failed statement, by a pod
\* that stopped with the counts of at most all students before it, or by a
\* cancellation, which lowers the counter for a row it did not look at.  A
\* section is oversold only after one of them.  A student has two sections of
\* a course only after a failed check, or after a cancellation in the middle
\* of a batch, whose UPDATE brings the row back without its course.  Each
\* fault does its own damage and no more: later batches do not add to it.
Cancelled(lhp) == {q \in sent : q.kind = "HUY" /\ q.lhp = lhp}

FaultsExplain ==
    \A lhp \in Sections :
        LET lost == failures + crashes * Cardinality(Students) + Cardinality(Cancelled(lhp))
        IN  /\ RowsSoon(lhp) - CounterSoon(lhp) <= lost
            /\ Cardinality(Confirmed(lhp)) > SoLuongToiDa[lhp] => lost > 0
            /\ \A other \in Sections \ {lhp} :
                   CourseOf[other] = CourseOf[lhp] =>
                       \/ Confirmed(lhp) \intersect Confirmed(other) = {}
                       \/ failures > 0 \/ Cancelled(lhp) \union Cancelled(other) # {}

\* While no batch has statements to execute, the counter of confirmed
\* students is not negative: a cancellation gives one seat back, not more.
\* Broken with two replicas, which both handle the cancellation (README).
CounterNatural ==
    (\A b \in Batches : batch[b].writes = {}) => \A lhp \in Sections : counter[lhp] >= 0

\* Whoever is refused is registered for the course in another section, as the
\* rule "already registered for this course in another section" says.  Broken
\* by a batch that finds the row confirmed by another one (README).
RefusedHasOther ==
    \A sv \in Students, lhp \in Sections :
        dangKy[sv][lhp].trangThai = "TuChoi" =>
            \E other \in Sections \ {lhp} :
                CourseOf[other] = CourseOf[lhp] /\ sv \in Confirmed(other)

\* A student is confirmed in at most one section of a course.
OneSectionPerCourse ==
    \A sv \in Students, l1, l2 \in Sections :
        /\ sv \in Confirmed(l1) \intersect Confirmed(l2)
        /\ CourseOf[l1] = CourseOf[l2]
        => l1 = l2

Asked(sv, lhp) ==
    \E q \in sent : /\ q.kind = "DANG_KY"
                    /\ q.sv = sv
                    /\ lhp \in {q.lhp, q.phu}
                    /\ CourseOf[lhp] = CourseOf[q.lhp]

\* Nobody is ever confirmed, waitlisted or refused in a section that the
\* student did not name, as primary section or as an alternative of the same
\* course: a batch or a cancellation brings no row to a section by itself.
OnlyAskedSections ==
    \A sv \in Students, lhp \in Sections :
        dangKy[sv][lhp].trangThai # NoRow.trangThai => Asked(sv, lhp)

\* A confirmed row stays confirmed until the student cancels it or asks for
\* the section again: no batch takes a seat back.
OutcomeKept ==
    [][\A sv \in Students, lhp \in Sections :
          sv \in Confirmed(lhp) =>
              \/ sv \in Confirmed(lhp)'
              \/ \E d \in inbox \ inbox' : d[1].sv = sv /\ d[1].lhp = lhp]_vars

\* Registration as a student sees it: the requests published, and the rows
\* that say DaDangKy.
Seats == INSTANCE SeatAllocation WITH
    wishes  <- {k \in Students \X Sections : Asked(k[1], k[2])},
    cancels <- {<<q.sv, q.lhp>> : q \in {r \in sent : r.kind = "HUY"}},
    seated  <- [lhp \in Sections |-> Confirmed(lhp)]

\* With one batch at a time, one replica and clients that look before they
\* ask, the tables and batches implement the promise.
ImplementsSeats == Seats!Spec

\* Every wish that is on file is answered: it does not stay ChoXuLy, also
\* when pods stop in the middle of batches.
WishesAnswered ==
    \A sv \in Students, lhp \in Sections :
        dangKy[sv][lhp].trangThai = "ChoXuLy" ~> dangKy[sv][lhp].trangThai # "ChoXuLy"

=============================================================================
