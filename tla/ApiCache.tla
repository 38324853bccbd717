------------------------------ MODULE ApiCache ------------------------------
(***************************************************************************)
(* The API gateway (web-registeter/api/api.go) and its cache: look-ups     *)
(* that fill the cache on a miss, registrations and cancellations that     *)
(* delete keys when they succeed, and the message with which a batch of    *)
(* db-service (web-registeter/db/db.go) asks for the deletion of the keys  *)
(* it outdated.  Fills and deletions run in goroutines that no response    *)
(* waits for.                                                              *)
(*                                                                         *)
(* The tables are here only what a look-up can see of them: the status of  *)
(* a row and the counter of a section.  What a batch decides is the        *)
(* subject of DangKy; here it may decide anything.                         *)
(***************************************************************************)
EXTENDS Integers, Sequences, FiniteSets, SequencesExt

CONSTANTS
    Students, Sections,  \* the sections of one course
    Filters,    \* dotDangKy and hinhThuc of a look-up, together
    Rong,       \* the filter in which both are ""
    Nil,        \* what "%v" makes of parameters that are missing: "<nil>"
    Readers,    \* look-ups on their way in the gateway
    Writers,    \* registrations and cancellations on their way
    Pods,       \* pods of db-service
    Posts,      \* what clients may ask for, see Request
    AskedKeys,  \* what clients look up
    OnFile,     \* students and sections with a wish on file at the start
    NoRow,      \* no row, or no entry
    MaxPosts,   \* bound on registrations and cancellations
    MaxErrors   \* bound on failing reads, failing writes of batches, and crashes

\* The status of a row; TuChoi and DanhSachCho are one here: no seat.
TrangThai == {"ChoXuLy", "DaDangKy", "KhongXep"}

\* Keys are built from the name of the query and its parameters.
ChiTiet(x) == <<"GET_CHI_TIET_LOP_HOC_PHAN", x, Rong>>
DangKyCua(s, f) == <<"GET_DANH_SACH_MON_HOC_PHAN_DANG_KY", s, f>>
DanhSach == <<"GET_DANH_SACH_LOP_HOC_PHAN", Rong, Rong>>

Key ==
    {ChiTiet(x) : x \in Sections}
        \union {DangKyCua(s, f) : s \in Students, f \in Filters \union {Nil}}
        \union {DanhSach}

Request == [queryType : {"DANG_KY_MON_HOC", "HUY_DANG_KY"}, sv : Students, lop : Sections,
            loc : Filters]

ASSUME CacheAssumption ==
    /\ Rong \in Filters /\ Nil \notin Filters
    /\ NoRow \notin TrangThai \union {"listed"}
    /\ Posts \subseteq Request
    /\ AskedKeys \subseteq Key
    /\ OnFile \subseteq Students \X Sections
    /\ MaxPosts \in Nat /\ MaxErrors \in Nat

\* What a look-up answers: the rows or sections it lists, and for each of
\* them the counter; 0 for those it does not list.
Rows == [Sections -> TrangThai \union {"listed", NoRow}]
Data == [dong : Rows, dem : [Sections -> Int]]

VARIABLES
    row,      \* table dang_ky: student and section -> status or NoRow
    count,    \* table lop_hoc_phan_counter
    cache,    \* key -> Data or NoRow
    reader,   \* look-ups: "idle", "rows", "counters" (where db-service is), "fill"
    writer,   \* registrations and cancellations: "idle", "waits", "deletes"
    job,      \* pod and writer -> what the handler has still to do
    lo,       \* the running batch
    sent,     \* messages cache.invalidate.batch the gateway has still to handle
    dangXoa,  \* keys the message in hand still has to delete
    posts, errors  \* how many there were

tables == <<row, count>>
vars   == <<row, count, cache, reader, writer, job, lo, sent, dangXoa, posts, errors>>

NoRows == [x \in Sections |-> NoRow]
NoCounts == [x \in Sections |-> 0]

Nothing == [dong |-> NoRows, dem |-> NoCounts]

IdleReader == [pc |-> "idle", key |-> DanhSach, data |-> Nothing]
IdleWriter == [pc |-> "idle", req |-> << >>, xoa |-> {}]

\* A statement of a batch: a status for the row of sv in lop (DaDangKy in
\* another section than lop moves the row there), or one more in "den".
WriteOp == [viec : {"KhongXep", "DaDangKy", "counter"},
            sv : Students, lop : Sections, den : Sections]

NoBatch == [viec |-> {}, sv |-> {}, lop |-> {}]

\* What the tables answer to a query now.
RowsFor(k) ==
    [x \in Sections |->
        IF k[1] = "GET_DANH_SACH_MON_HOC_PHAN_DANG_KY" THEN row[k[2]][x]
        ELSE IF k \in {ChiTiet(x), DanhSach} THEN "listed" ELSE NoRow]

CountsFor(dong) == [x \in Sections |-> IF dong[x] = NoRow THEN 0 ELSE count[x]]

Answer(k) == [dong |-> RowsFor(k), dem |-> CountsFor(RowsFor(k))]

\* The keys a message of a batch, or a successful mutation, has deleted.
\* Deletions of a registration list after HUY_DANG_KY name no filter.
BatchKeys(m) == {DangKyCua(s, Rong) : s \in m.sv} \union {ChiTiet(x) : x \in m.lop}

InvalidateRelatedCaches(r) ==
    {DangKyCua(r.sv, IF r.queryType = "HUY_DANG_KY" THEN Nil ELSE r.loc), ChiTiet(r.lop)}

\* The cache is empty; the wishes in OnFile wait for a batch.
Init ==
    /\ row = [s \in Students |-> [x \in Sections |->
                IF <<s, x>> \in OnFile THEN "ChoXuLy" ELSE NoRow]]
    /\ count = NoCounts
    /\ cache = [k \in Key |-> NoRow]
    /\ reader = [r \in Readers |-> IdleReader]
    /\ writer = [w \in Writers |-> IdleWriter]
    /\ job = [p \in Pods |-> [w \in Writers |-> "none"]]
    /\ lo = NoBatch
    /\ sent = << >>
    /\ dangXoa = {}
    /\ posts = 0 /\ errors = 0

-----------------------------------------------------------------------------
(***************************************************************************)
(* Look-ups                                                                *)
(***************************************************************************)

\* A hit is answered at once and changes nothing.  A miss asks db-service, and
\* so does an entry that cannot be read.
HandleCachedQuery(r, k) ==
    /\ reader[r].pc = "idle"
    /\ \/ cache[k] = NoRow /\ UNCHANGED errors
       \/ cache[k] # NoRow /\ errors < MaxErrors /\ errors' = errors + 1
    /\ reader' = [reader EXCEPT ![r] = [pc |-> "rows", key |-> k, data |-> Nothing]]
    /\ UNCHANGED <<tables, cache, writer, job, lo, sent, dangXoa, posts>>

\* A look-up goes on to its next step, with what it has read.
Has(r, pc, dong, dem) ==
    reader' = [reader EXCEPT ![r] =
        [pc |-> pc, key |-> reader[r].key, data |-> [dong |-> dong, dem |-> dem]]]

\* The handler reads the rows it lists.
ReadRows(r) ==
    /\ reader[r].pc = "rows"
    /\ Has(r, "counters", RowsFor(reader[r].key), NoCounts)
    /\ UNCHANGED <<tables, cache, writer, job, lo, sent, dangXoa, posts, errors>>

\* An error of the iterator is only logged: the rows read so far are the
\* answer.  The one row of a section's detail has no such part.
ReadRowsInPart(r) ==
    /\ reader[r].pc = "rows" /\ reader[r].key[1] # "GET_CHI_TIET_LOP_HOC_PHAN"
    /\ errors < MaxErrors /\ errors' = errors + 1
    /\ \E X \in (SUBSET Sections) \ {Sections} :
          Has(r, "counters",
              [x \in Sections |-> IF x \in X THEN RowsFor(reader[r].key)[x] ELSE NoRow], NoCounts)
    /\ UNCHANGED <<tables, cache, writer, job, lo, sent, dangXoa, posts>>

\* Then the counters of these rows; the response reaches the gateway.
ReadCounters(r) ==
    /\ reader[r].pc = "counters"
    /\ Has(r, "fill", reader[r].data.dong, CountsFor(reader[r].data.dong))
    /\ UNCHANGED <<tables, cache, writer, job, lo, sent, dangXoa, posts, errors>>

\* A counter that cannot be read is 0.
ReadCountersInPart(r) ==
    /\ reader[r].pc = "counters"
    /\ errors < MaxErrors /\ errors' = errors + 1
    /\ \E X \in (SUBSET Sections) \ {Sections} :
          Has(r, "fill", reader[r].data.dong,
              [x \in Sections |-> IF x \in X THEN CountsFor(reader[r].data.dong)[x] ELSE 0])
    /\ UNCHANGED <<tables, cache, writer, job, lo, sent, dangXoa, posts>>

\* The gateway's wait ends with NATS_TIMEOUT, with the client, or with a
\* response that is no success: nothing is cached.
GiveUpQuery(r) ==
    /\ reader[r].pc \in {"rows", "counters"}
    /\ reader' = [reader EXCEPT ![r] = IdleReader]
    /\ UNCHANGED <<tables, cache, writer, job, lo, sent, dangXoa, posts, errors>>

\* The goroutine of the fill, at any time after the response.
SetToCache(r) ==
    /\ reader[r].pc = "fill"
    /\ cache' = [cache EXCEPT ![reader[r].key] = reader[r].data]
    /\ reader' = [reader EXCEPT ![r] = IdleReader]
    /\ UNCHANGED <<tables, writer, job, lo, sent, dangXoa, posts, errors>>

SetFails(r) ==
    /\ reader[r].pc = "fill"
    /\ reader' = [reader EXCEPT ![r] = IdleReader]
    /\ UNCHANGED <<tables, cache, writer, job, lo, sent, dangXoa, posts, errors>>

\* Mutated form of Expire: entries without a TTL.
NeverExpire(k) == cache[k] # NoRow /\ FALSE /\ UNCHANGED vars

\* The TTL of an entry is over, for Redis or by the gateway's own look at
\* ExpiresAt.  The deletion of a key by a second replica of the gateway is
\* such a step, too.
Expire(k) ==
    /\ cache[k] # NoRow
    /\ cache' = [cache EXCEPT ![k] = NoRow]
    /\ UNCHANGED <<tables, reader, writer, job, lo, sent, dangXoa, posts, errors>>

-----------------------------------------------------------------------------
(***************************************************************************)
(* Registrations and cancellations                                         *)
(***************************************************************************)

\* What a mutation does next in the gateway, and the keys it has to delete.
Goes(w, pc, xoa) ==
    writer' = [writer EXCEPT ![w] = [pc |-> pc, req |-> writer[w].req, xoa |-> xoa]]

\* A POST goes to every pod.
HandleMutation(w, q) ==
    /\ posts < MaxPosts
    /\ writer[w].pc = "idle"
    /\ \A p \in Pods : job[p][w] = "none"
    /\ posts' = posts + 1
    /\ writer' = [writer EXCEPT ![w] = [pc |-> "waits", req |-> <<q>>, xoa |-> {}]]
    /\ job' = [p \in Pods |-> [job[p] EXCEPT ![w] = "row"]]
    /\ UNCHANGED <<tables, cache, reader, lo, sent, dangXoa, errors>>

\* The handler of pod p is done.  The gateway takes the first response, if it
\* still waits for one; success starts the deletions.
Responds(p, w, success) ==
    /\ job' = [job EXCEPT ![p][w] = "none"]
    /\ \/ writer[w].pc # "waits" /\ UNCHANGED writer
       \/ writer[w].pc = "waits" /\ ~success /\ Goes(w, "idle", {})
       \/ /\ writer[w].pc = "waits" /\ success
          /\ Goes(w, "deletes", InvalidateRelatedCaches(writer[w].req[1]))

DangKyMonHoc(p, w) ==
    /\ job[p][w] = "row"
    /\ \E q \in ToSet(writer[w].req) :
          /\ q.queryType = "DANG_KY_MON_HOC"
          /\ row' = [row EXCEPT ![q.sv][q.lop] = "ChoXuLy"]
    /\ Responds(p, w, TRUE)
    /\ UNCHANGED <<count, cache, reader, lo, sent, dangXoa, posts, errors>>

\* HUY deletes the row, then takes one from the counter.
HuyXoa(p, w) ==
    /\ job[p][w] = "row"
    /\ \E q \in ToSet(writer[w].req) :
          /\ q.queryType = "HUY_DANG_KY"
          /\ row' = [row EXCEPT ![q.sv][q.lop] = NoRow]
    /\ job' = [job EXCEPT ![p][w] = "counter"]
    /\ UNCHANGED <<count, cache, reader, writer, lo, sent, dangXoa, posts, errors>>

HuyTru(p, w) ==
    /\ job[p][w] = "counter"
    /\ \E q \in ToSet(writer[w].req) : count' = [count EXCEPT ![q.lop] = @ - 1]
    /\ Responds(p, w, TRUE)
    /\ UNCHANGED <<row, cache, reader, lo, sent, dangXoa, posts, errors>>

\* The first statement fails, or the pool of the pod is saturated: no success.
\* A failing second statement does not matter.
JobFails(p, w) ==
    /\ job[p][w] # "none"
    /\ Responds(p, w, job[p][w] = "counter")
    /\ UNCHANGED <<tables, cache, reader, lo, sent, dangXoa, posts, errors>>

\* The pod stops, or drops the request: no response.
JobDropped(p, w) ==
    /\ job[p][w] # "none"
    /\ job' = [job EXCEPT ![p][w] = "none"]
    /\ UNCHANGED <<tables, cache, reader, writer, lo, sent, dangXoa, posts, errors>>

\* The gateway waits no longer; the handlers go on.
GiveUpMutation(w) ==
    /\ writer[w].pc = "waits"
    /\ Goes(w, "idle", {})
    /\ UNCHANGED <<tables, cache, reader, job, lo, sent, dangXoa, posts, errors>>

\* Lists of students are deleted first, then details of sections.
IsNextOf(k, K) ==
    /\ k \in K
    /\ k[1] = "GET_CHI_TIET_LOP_HOC_PHAN" => \A j \in K : j[1] = k[1]

\* Mutated form of Deleted: the goroutine does not end.
DeletedNotDone(w, k) == Goes(w, "deletes", writer[w].xoa \ {k})

\* deleteCacheKey; an error is only logged.
Deleted(w, k) ==
    LET xoa == writer[w].xoa \ {k}
    IN  Goes(w, IF xoa = {} THEN "idle" ELSE "deletes", xoa)

DeleteCacheKey(w, k) ==
    /\ IsNextOf(k, writer[w].xoa)
    /\ cache' = [cache EXCEPT ![k] = NoRow]
    /\ Deleted(w, k)
    /\ UNCHANGED <<tables, reader, job, lo, sent, dangXoa, posts, errors>>

DeleteFails(w, k) ==
    /\ IsNextOf(k, writer[w].xoa)
    /\ Deleted(w, k)
    /\ UNCHANGED <<tables, cache, reader, job, lo, sent, dangXoa, posts, errors>>

-----------------------------------------------------------------------------
(***************************************************************************)
(* Batches and their message                                               *)
(***************************************************************************)

Pending == {p \in Students \X Sections : row[p[1]][p[2]] = "ChoXuLy"}

\* What a batch may decide about some pending rows, one of each student: a
\* status, or a seat in a section, its own or another.
Decisions(P) ==
    {d \in [P -> [viec : {"KhongXep", "DaDangKy"}, den : Sections]] :
        \A p \in P : d[p].viec # "DaDangKy" => d[p].den = p[2]}

Seated(P, d) == {p \in P : d[p].viec = "DaDangKy"}

\* The statements for status and counter.
Statements(P, d) ==
    {[viec |-> d[p].viec, sv |-> p[1], lop |-> p[2], den |-> d[p].den] : p \in P} \union
    {[viec |-> "counter", sv |-> p[1], lop |-> p[2], den |-> d[p].den] : p \in Seated(P, d)}

\* Mutated form of Affected: the section a student asked for in place of the
\* one he was given.
AffectedAsked(P, d) == {p[2] : p \in Seated(P, d)}

\* affectedLopHocPhan
Affected(P, d) == {d[p].den : p \in Seated(P, d)}

StartBatch ==
    /\ lo = NoBatch
    /\ \E P \in (SUBSET Pending) \ {{}} :
          /\ \A p, q \in P : p[1] = q[1] => p = q
          /\ \E d \in Decisions(P) :
                lo' = [viec |-> Statements(P, d), sv |-> {p[1] : p \in P},
                       lop |-> Affected(P, d)]
    /\ UNCHANGED <<tables, cache, reader, writer, job, sent, dangXoa, posts, errors>>

\* The workers execute the statements in any order.
Executed(op) ==
    \/ /\ op.viec = "counter"
       /\ count' = [count EXCEPT ![op.den] = @ + 1]
       /\ UNCHANGED row
    \/ /\ op.viec = "DaDangKy" /\ op.den # op.lop
       /\ row' = [row EXCEPT ![op.sv][op.lop] = NoRow, ![op.sv][op.den] = "DaDangKy"]
       /\ UNCHANGED count
    \/ /\ op.viec # "counter" /\ op.den = op.lop
       /\ row' = [row EXCEPT ![op.sv][op.lop] = op.viec]
       /\ UNCHANGED count

Write(op) ==
    /\ op \in lo.viec
    /\ lo' = [viec |-> lo.viec \ {op}, sv |-> lo.sv, lop |-> lo.lop]
    /\ Executed(op)
    /\ UNCHANGED <<cache, reader, writer, job, sent, dangXoa, posts, errors>>

WriteFails(op) ==
    /\ op \in lo.viec
    /\ errors < MaxErrors /\ errors' = errors + 1
    /\ lo' = [viec |-> lo.viec \ {op}, sv |-> lo.sv, lop |-> lo.lop]
    /\ UNCHANGED <<tables, cache, reader, writer, job, sent, dangXoa, posts>>

\* All statements are done.
PublishCacheInvalidation ==
    /\ lo # NoBatch /\ lo.viec = {}
    /\ sent' = Append(sent, [sv |-> lo.sv, lop |-> lo.lop])
    /\ lo' = NoBatch
    /\ UNCHANGED <<tables, cache, reader, writer, job, dangXoa, posts, errors>>

\* No gateway listens, or NATS loses the message: nobody sends it again.
PublishLost ==
    /\ lo # NoBatch /\ lo.viec = {}
    /\ lo' = NoBatch
    /\ UNCHANGED <<tables, cache, reader, writer, job, sent, dangXoa, posts, errors>>

\* The pod stops in the middle of a batch.
BatchCrash ==
    /\ lo # NoBatch
    /\ errors < MaxErrors /\ errors' = errors + 1
    /\ lo' = NoBatch
    /\ UNCHANGED <<tables, cache, reader, writer, job, sent, dangXoa, posts>>

\* Mutated form of SubscribeCacheInvalidation: without the loop over the
\* sections.
SubscribeStudentsOnly ==
    /\ dangXoa = {} /\ sent # << >>
    /\ dangXoa' = {DangKyCua(s, Rong) : s \in Head(sent).sv}
    /\ sent' = Tail(sent)
    /\ UNCHANGED <<tables, cache, reader, writer, job, lo, posts, errors>>

\* The callback of the subscription gets one message at a time, in order.
SubscribeCacheInvalidation ==
    /\ dangXoa = {} /\ sent # << >>
    /\ dangXoa' = BatchKeys(Head(sent))
    /\ sent' = Tail(sent)
    /\ UNCHANGED <<tables, cache, reader, writer, job, lo, posts, errors>>

DeleteBatchKey(k) ==
    /\ IsNextOf(k, dangXoa)
    /\ cache' = [cache EXCEPT ![k] = NoRow]
    /\ dangXoa' = dangXoa \ {k}
    /\ UNCHANGED <<tables, reader, writer, job, lo, sent, posts, errors>>

DeleteBatchKeyFails(k) ==
    /\ IsNextOf(k, dangXoa)
    /\ dangXoa' = dangXoa \ {k}
    /\ UNCHANGED <<tables, cache, reader, writer, job, lo, sent, posts, errors>>

\* SIGTERM: ListenAndServe returns at once, and main with it; nothing waits
\* for requests, fills or deletions.  The next gateway starts with the same
\* cache.
Restart ==
    /\ reader' = [r \in Readers |-> IdleReader]
    /\ writer' = [w \in Writers |-> [pc |-> "idle", req |-> writer[w].req, xoa |-> {}]]
    /\ sent' = << >>
    /\ dangXoa' = {}
    /\ UNCHANGED <<tables, cache, job, lo, posts, errors>>

Lookup(r) ==
    \/ \E k \in AskedKeys : HandleCachedQuery(r, k)
    \/ ReadRows(r) \/ ReadRowsInPart(r) \/ ReadCounters(r) \/ ReadCountersInPart(r)
    \/ GiveUpQuery(r) \/ SetToCache(r) \/ SetFails(r)

Mutation(w) ==
    \/ \E q \in Posts : HandleMutation(w, q)
    \/ \E p \in Pods : DangKyMonHoc(p, w) \/ HuyXoa(p, w) \/ HuyTru(p, w)
            \/ JobFails(p, w) \/ JobDropped(p, w)
    \/ GiveUpMutation(w)
    \/ \E k \in Key : DeleteCacheKey(w, k) \/ DeleteFails(w, k)

Batch ==
    \/ StartBatch \/ PublishCacheInvalidation \/ PublishLost \/ BatchCrash
    \/ \E op \in lo.viec : Write(op) \/ WriteFails(op)

Invalidation ==
    \/ SubscribeCacheInvalidation
    \/ \E k \in dangXoa : DeleteBatchKey(k) \/ DeleteBatchKeyFails(k)

Next ==
    \/ \E r \in Readers : Lookup(r)
    \/ \E w \in Writers : Mutation(w)
    \/ \E k \in Key : Expire(k)
    \/ Batch \/ Invalidation \/ Restart

Spec == Init /\ [][Next]_vars

\* Redis drops every entry 600 s after its fill, and the goroutine of a fill
\* ends: its client has timeouts.
FairSpec ==
    /\ Spec
    /\ \A k \in AskedKeys : WF_vars(Expire(k))
    /\ \A r \in Readers : WF_vars(SetToCache(r) \/ SetFails(r))

-----------------------------------------------------------------------------

\* Every part of the state has its type; in particular only successful
\* answers are in the cache, under keys that a look-up can ask for.
TypeOK ==
    /\ row \in [Students -> [Sections -> TrangThai \union {NoRow}]]
    /\ count \in [Sections -> Int]
    /\ cache \in [Key -> Data \union {NoRow}]
    /\ \A k \in Key \ AskedKeys : cache[k] = NoRow
    /\ reader \in [Readers -> [pc : {"idle", "rows", "counters", "fill"},
                               key : AskedKeys \union {DanhSach}, data : Data]]
    /\ writer \in [Writers -> [pc : {"idle", "waits", "deletes"},
                               req : {<< >>} \union {<<q>> : q \in Posts}, xoa : SUBSET Key]]
    /\ \A w \in Writers : writer[w].pc = "deletes" <=> writer[w].xoa # {}
    /\ job \in [Pods -> [Writers -> {"none", "row", "counter"}]]
    /\ lo \in [viec : SUBSET WriteOp, sv : SUBSET Students, lop : SUBSET Sections]
    /\ sent \in Seq([sv : SUBSET Students, lop : SUBSET Sections])
    /\ dangXoa \subseteq Key
    /\ posts \in 0..MaxPosts /\ errors \in 0..MaxErrors

\* Keys somebody is going to delete: the batch that runs, its messages, the
\* callback of the subscription, the goroutines of successful mutations.
Owed ==
    (UNION {writer[w].xoa : w \in Writers}) \union dangXoa
        \union (UNION {BatchKeys(m) : m \in ToSet(sent)}) \union BatchKeys(lo)

\* Whatever a statement of a batch changes, the detail of the section whose
\* counter it is and the list of the student whose row it is are owed a
\* deletion: also when the student got another section than he asked for.
BatchOwesItsChanges ==
    [][\A op \in lo.viec : Write(op) =>
          /\ \A x \in Sections : count'[x] # count[x] => ChiTiet(x) \in Owed'
          /\ \A s \in Students : row'[s] # row[s] => DangKyCua(s, Rong) \in Owed']_vars

\* What may lose a deletion that is owed.
Loss ==
    \/ PublishLost \/ BatchCrash \/ Restart
    \/ \E k \in Key : DeleteBatchKeyFails(k) \/ \E w \in Writers : DeleteFails(w, k)

\* A deletion that is owed is handed on from the batch to its message, to the
\* callback, to the cache, and never dropped on the way, unless the code has
\* no defence: a pod or the gateway stops, a message or a call to Redis fails.
DebtsArePaid ==
    [][\A k \in Owed \ Owed' : cache'[k] = NoRow \/ Loss]_vars

\* However fills, deletions, failures and restarts interleave, the cache does
\* not stay wrong: once the tables change no more, every entry is in the end
\* absent or what the tables answer.
EventuallyCurrent ==
    \A k \in AskedKeys : <>[](cache[k] = NoRow \/ cache[k] = Answer(k))

=============================================================================
