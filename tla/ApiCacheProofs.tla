--------------------------- MODULE ApiCacheProofs ---------------------------
(***************************************************************************)
(* Theorems about the gateway and its cache, for every number of students, *)
(* sections, pods, look-ups and mutations.                                 *)
(***************************************************************************)
EXTENDS ApiCache, SequenceTheorems, TLAPS

-----------------------------------------------------------------------------
(***************************************************************************)
(* The inductive invariant                                                 *)
(***************************************************************************)

TablesOK ==
    /\ row \in [Students -> [Sections -> TrangThai \union {NoRow}]]
    /\ count \in [Sections -> Int]

CacheOK ==
    /\ cache \in [Key -> Data \union {NoRow}]
    /\ \A k \in Key \ AskedKeys : cache[k] = NoRow

\* A look-up that is under way asks for a key a client may ask for.
ReadersOK ==
    /\ reader \in [Readers -> [pc : {"idle", "rows", "counters", "fill"},
                               key : AskedKeys \union {DanhSach}, data : Data]]
    /\ \A r \in Readers : reader[r].pc # "idle" => reader[r].key \in AskedKeys

\* A mutation the gateway waits for has a request.
WritersOK ==
    /\ writer \in [Writers -> [pc : {"idle", "waits", "deletes"},
                               req : {<< >>} \union {<<q>> : q \in Posts}, xoa : SUBSET Key]]
    /\ \A w \in Writers : writer[w].pc = "deletes" <=> writer[w].xoa # {}
    /\ \A w \in Writers : writer[w].pc = "waits" => writer[w].req # << >>

JobsOK == job \in [Pods -> [Writers -> {"none", "row", "counter"}]]

\* The running batch will announce what its statements change.
BatchOK ==
    /\ lo \in [viec : SUBSET WriteOp, sv : SUBSET Students, lop : SUBSET Sections]
    /\ \A op \in lo.viec :
          IF op.viec = "counter" THEN op.den \in lo.lop ELSE op.sv \in lo.sv

MessagesOK ==
    /\ sent \in Seq([sv : SUBSET Students, lop : SUBSET Sections])
    /\ dangXoa \subseteq Key

BoundsOK == posts \in 0..MaxPosts /\ errors \in 0..MaxErrors

Inv ==
    TablesOK /\ CacheOK /\ ReadersOK /\ WritersOK /\ JobsOK /\ BatchOK /\ MessagesOK /\ BoundsOK

LEMMA InvTypeOK == Inv => TypeOK
BY DEF Inv, TablesOK, CacheOK, ReadersOK, WritersOK, JobsOK, BatchOK, MessagesOK, BoundsOK, TypeOK

-----------------------------------------------------------------------------
(***************************************************************************)
(* Keys and answers                                                        *)
(***************************************************************************)

LEMMA KeysAreKeys ==
    /\ DanhSach \in Key
    /\ \A x \in Sections : ChiTiet(x) \in Key
    /\ \A s \in Students, f \in Filters \union {Nil} : DangKyCua(s, f) \in Key
BY DEF Key

LEMMA BatchKeysType ==
    ASSUME NEW m, m.sv \in SUBSET Students, m.lop \in SUBSET Sections
    PROVE  BatchKeys(m) \subseteq Key
BY KeysAreKeys, CacheAssumption DEF BatchKeys

LEMMA InvalidateType ==
    ASSUME NEW q \in Posts
    PROVE  InvalidateRelatedCaches(q) \subseteq Key /\ InvalidateRelatedCaches(q) # {}
<1>1. q.sv \in Students /\ q.lop \in Sections /\ q.loc \in Filters
    BY CacheAssumption DEF Request
<1> QED
    BY <1>1, KeysAreKeys DEF InvalidateRelatedCaches

\* Rows that a look-up reads.
LEMMA RowsType ==
    ASSUME TablesOK, NEW k \in Key
    PROVE  RowsFor(k) \in Rows
<1>1. CASE k[1] = "GET_DANH_SACH_MON_HOC_PHAN_DANG_KY"
    <2>1. k[2] \in Students
        BY <1>1 DEF Key, ChiTiet, DangKyCua, DanhSach
    <2> QED
        BY <1>1, <2>1 DEF TablesOK, RowsFor, Rows
<1>2. CASE k[1] # "GET_DANH_SACH_MON_HOC_PHAN_DANG_KY"
    BY <1>2 DEF RowsFor, Rows
<1> QED
    BY <1>1, <1>2

LEMMA CountsType ==
    ASSUME TablesOK, NEW dong \in Rows
    PROVE  CountsFor(dong) \in [Sections -> Int]
BY DEF TablesOK, CountsFor

LEMMA NothingType == Nothing \in Data /\ NoCounts \in [Sections -> Int]
BY DEF Nothing, NoRows, NoCounts, Rows, Data

ReaderType == [pc : {"idle", "rows", "counters", "fill"}, key : AskedKeys \union {DanhSach},
               data : Data]

LEMMA IdleReaderType == IdleReader \in ReaderType /\ IdleReader.pc = "idle"
BY NothingType DEF IdleReader, ReaderType

-----------------------------------------------------------------------------
(***************************************************************************)
(* The invariant is kept                                                   *)
(***************************************************************************)

LEMMA InitInv == Init => Inv
<1> SUFFICES ASSUME Init PROVE Inv
    OBVIOUS
<1>1. TablesOK
    BY DEF Init, TablesOK, TrangThai, NoCounts
<1>2. CacheOK
    BY CacheAssumption DEF Init, CacheOK
<1>3. ReadersOK
    BY IdleReaderType DEF Init, ReadersOK, ReaderType
<1>4. WritersOK /\ JobsOK
    BY DEF Init, WritersOK, JobsOK, IdleWriter
<1>5. BatchOK
    BY DEF Init, BatchOK, NoBatch
<1>6. MessagesOK
    BY DEF Init, MessagesOK
<1>7. BoundsOK
    BY CacheAssumption DEF Init, BoundsOK
<1> QED
    BY <1>1, <1>2, <1>3, <1>4, <1>5, <1>6, <1>7 DEF Inv

\* A look-up that goes on keeps its key and has typed data.
LEMMA HasOK ==
    ASSUME ReadersOK, NEW r \in Readers, reader[r].key \in AskedKeys,
           NEW pc \in {"counters", "fill"},
           NEW dong \in Rows, NEW dem \in [Sections -> Int], Has(r, pc, dong, dem)
    PROVE  ReadersOK'
<1> DEFINE new == [pc |-> pc, key |-> reader[r].key, data |-> [dong |-> dong, dem |-> dem]]
<1>1. new \in ReaderType /\ new.key \in AskedKeys
    BY DEF ReaderType, Data
<1>2. reader' = [reader EXCEPT ![r] = new]
    BY DEF Has
<1> HIDE DEF new
<1> QED
    BY <1>1, <1>2 DEF ReadersOK, ReaderType

LEMMA LookupInv ==
    ASSUME Inv, NEW r \in Readers, Lookup(r)
    PROVE  Inv'
<1>1. UNCHANGED <<tables, writer, job, lo, sent, dangXoa, posts>>
    BY DEF Lookup, HandleCachedQuery, ReadRows, ReadRowsInPart, ReadCounters,
           ReadCountersInPart, GiveUpQuery, SetToCache, SetFails
<1>2. TablesOK' /\ WritersOK' /\ JobsOK' /\ BatchOK' /\ MessagesOK'
    BY <1>1 DEF Inv, TablesOK, WritersOK, JobsOK, BatchOK, MessagesOK, tables
<1>3. BoundsOK'
    <2>1. errors' \in 0..MaxErrors
        BY CacheAssumption DEF Inv, BoundsOK, Lookup, HandleCachedQuery, ReadRows,
           ReadRowsInPart, ReadCounters, ReadCountersInPart, GiveUpQuery, SetToCache, SetFails
    <2> QED
        BY <1>1, <2>1 DEF Inv, BoundsOK
<1>4. /\ reader[r].key \in Key /\ reader[r].data.dong \in Rows
      /\ reader[r].pc # "idle" => reader[r].key \in AskedKeys
    BY CacheAssumption, KeysAreKeys DEF Inv, ReadersOK, Data
<1>a. ASSUME ReadersOK', UNCHANGED cache PROVE Inv'
    <2>1. CacheOK'
        BY <1>a DEF Inv, CacheOK
    <2> QED
        BY <1>a, <1>2, <1>3, <2>1 DEF Inv
<1>5. CASE \E k \in AskedKeys : HandleCachedQuery(r, k)
    <2>1. PICK k \in AskedKeys : HandleCachedQuery(r, k)
        BY <1>5
    <2> DEFINE new == [pc |-> "rows", key |-> k, data |-> Nothing]
    <2>2. new \in ReaderType /\ new.key \in AskedKeys
        BY NothingType DEF ReaderType
    <2>3. reader' = [reader EXCEPT ![r] = new] /\ UNCHANGED cache
        BY <2>1 DEF HandleCachedQuery
    <2> HIDE DEF new
    <2>4. ReadersOK'
        BY <2>2, <2>3 DEF Inv, ReadersOK, ReaderType
    <2> QED
        BY <1>a, <2>3, <2>4
<1>6. CASE ReadRows(r)
    <2>1. RowsFor(reader[r].key) \in Rows
        BY <1>4, RowsType DEF Inv
    <2>2. ReadersOK'
        BY <1>4, <1>6, <2>1, HasOK, NothingType DEF Inv, ReadRows
    <2> QED
        BY <1>a, <1>6, <2>2 DEF ReadRows
<1>7. CASE ReadRowsInPart(r)
    <2>1. RowsFor(reader[r].key) \in Rows
        BY <1>4, RowsType DEF Inv
    <2>2. PICK X \in SUBSET Sections :
             Has(r, "counters",
                 [x \in Sections |-> IF x \in X THEN RowsFor(reader[r].key)[x] ELSE NoRow],
                 NoCounts)
        BY <1>7 DEF ReadRowsInPart
    <2>3. [x \in Sections |-> IF x \in X THEN RowsFor(reader[r].key)[x] ELSE NoRow] \in Rows
        BY <2>1 DEF Rows
    <2>4. reader[r].key \in AskedKeys
        BY <1>4, <1>7 DEF ReadRowsInPart
    <2>5. ReadersOK'
        BY <2>2, <2>3, <2>4, HasOK, NothingType DEF Inv
    <2> QED
        BY <1>a, <1>7, <2>5 DEF ReadRowsInPart
<1>8. CASE ReadCounters(r)
    <2>1. CountsFor(reader[r].data.dong) \in [Sections -> Int]
        BY <1>4, CountsType DEF Inv
    <2>2. ReadersOK'
        BY <1>4, <1>8, <2>1, HasOK DEF Inv, ReadCounters
    <2> QED
        BY <1>a, <1>8, <2>2 DEF ReadCounters
<1>9. CASE ReadCountersInPart(r)
    <2>1. CountsFor(reader[r].data.dong) \in [Sections -> Int]
        BY <1>4, CountsType DEF Inv
    <2>2. PICK X \in SUBSET Sections :
             Has(r, "fill", reader[r].data.dong,
                 [x \in Sections |-> IF x \in X THEN CountsFor(reader[r].data.dong)[x] ELSE 0])
        BY <1>9 DEF ReadCountersInPart
    <2>3. [x \in Sections |-> IF x \in X THEN CountsFor(reader[r].data.dong)[x] ELSE 0]
             \in [Sections -> Int]
        BY <2>1
    <2>4. reader[r].key \in AskedKeys
        BY <1>4, <1>9 DEF ReadCountersInPart
    <2>5. ReadersOK'
        BY <1>4, <2>2, <2>3, <2>4, HasOK DEF Inv
    <2> QED
        BY <1>a, <1>9, <2>5 DEF ReadCountersInPart
<1>10. CASE GiveUpQuery(r) \/ SetFails(r)
    <2>1. ReadersOK'
        BY <1>10, IdleReaderType DEF ReaderType, Inv, ReadersOK, GiveUpQuery, SetFails
    <2> QED
        BY <1>a, <1>10, <2>1 DEF GiveUpQuery, SetFails
<1>11. CASE SetToCache(r)
    <2>1. ReadersOK'
        BY <1>11, IdleReaderType DEF ReaderType, Inv, ReadersOK, SetToCache
    <2>2. reader[r].key \in AskedKeys /\ reader[r].data \in Data
        BY <1>11 DEF Inv, ReadersOK, SetToCache
    <2>3. CacheOK'
        BY <1>4, <1>11, <2>2 DEF Inv, CacheOK, SetToCache
    <2> QED
        BY <1>2, <1>3, <2>1, <2>3 DEF Inv
<1> QED
    BY <1>5, <1>6, <1>7, <1>8, <1>9, <1>10, <1>11 DEF Lookup

\* A table of tables with one cell changed.
LEMMA PutCell ==
    ASSUME NEW A, NEW B, NEW C, NEW t \in [A -> [B -> C]], NEW a \in A, NEW b \in B, NEW c \in C
    PROVE  LET new == [t EXCEPT ![a][b] = c]
           IN  /\ new \in [A -> [B -> C]]
               /\ \A i \in A, j \in B : new[i][j] = IF i = a /\ j = b THEN c ELSE t[i][j]
<1>1. [t EXCEPT ![a][b] = c] = [t EXCEPT ![a] = [t[a] EXCEPT ![b] = c]]
    OBVIOUS
<1> QED
    BY <1>1

\* The request of a mutation, as its handlers see it.
LEMMA RequestOf ==
    ASSUME NEW req \in {<< >>} \union {<<q>> : q \in Posts}, NEW q \in ToSet(req)
    PROVE  q \in Posts /\ q.sv \in Students /\ q.lop \in Sections
<1>1. q \in Posts
    BY DEF ToSet
<1> QED
    BY <1>1, CacheAssumption DEF Request

\* A mutation that goes on to something else than waiting.
LEMMA GoesOK ==
    ASSUME WritersOK, NEW w \in Writers, NEW pc \in {"idle", "deletes"}, NEW xoa \in SUBSET Key,
           pc = "deletes" <=> xoa # {}, Goes(w, pc, xoa)
    PROVE  WritersOK'
<1> DEFINE new == [pc |-> pc, req |-> writer[w].req, xoa |-> xoa]
<1>1. /\ new \in [pc : {"idle", "waits", "deletes"},
                  req : {<< >>} \union {<<q>> : q \in Posts}, xoa : SUBSET Key]
      /\ new.pc = "deletes" <=> new.xoa # {}
      /\ new.pc # "waits"
    BY DEF WritersOK
<1>2. writer' = [writer EXCEPT ![w] = new]
    BY DEF Goes
<1> HIDE DEF new
<1> QED
    BY <1>1, <1>2 DEF WritersOK

LEMMA RespondsOK ==
    ASSUME WritersOK, JobsOK, NEW p \in Pods, NEW w \in Writers, NEW success \in BOOLEAN,
           Responds(p, w, success)
    PROVE  WritersOK' /\ JobsOK'
<1>1. JobsOK'
    BY PutCell DEF JobsOK, Responds
<1>2. CASE UNCHANGED writer
    BY <1>1, <1>2 DEF WritersOK
<1>3. CASE Goes(w, "idle", {})
    BY <1>1, <1>3, GoesOK
<1>4. CASE /\ writer[w].pc = "waits"
           /\ Goes(w, "deletes", InvalidateRelatedCaches(writer[w].req[1]))
    <2>1. writer[w].req[1] \in Posts
        BY <1>4 DEF WritersOK
    <2>2. /\ InvalidateRelatedCaches(writer[w].req[1]) \in SUBSET Key
          /\ InvalidateRelatedCaches(writer[w].req[1]) # {}
        BY <2>1, InvalidateType
    <2> QED
        BY <1>1, <1>4, <2>2, GoesOK
<1> QED
    BY <1>2, <1>3, <1>4 DEF Responds

\* The deletion of an entry leaves no entry.
LEMMA DropEntry ==
    ASSUME CacheOK, NEW k \in Key, cache' = [cache EXCEPT ![k] = NoRow]
    PROVE  CacheOK'
BY DEF CacheOK

LEMMA MutationInv ==
    ASSUME Inv, NEW w \in Writers, Mutation(w)
    PROVE  Inv'
<1>1. UNCHANGED <<reader, lo, sent, dangXoa, errors>>
    BY DEF Mutation, HandleMutation, DangKyMonHoc, HuyXoa, HuyTru, JobFails, JobDropped,
           GiveUpMutation, DeleteCacheKey, DeleteFails
<1>2. ReadersOK' /\ BatchOK' /\ MessagesOK'
    BY <1>1 DEF Inv, ReadersOK, BatchOK, MessagesOK
<1>a. ASSUME UNCHANGED <<tables, cache, posts>>, WritersOK', JobsOK' PROVE Inv'
    BY <1>a, <1>1, <1>2 DEF Inv, TablesOK, CacheOK, BoundsOK, tables
<1>b. ASSUME UNCHANGED <<cache, posts>>, TablesOK', WritersOK', JobsOK' PROVE Inv'
    BY <1>b, <1>1, <1>2 DEF Inv, CacheOK, BoundsOK
<1>c. WritersOK /\ JobsOK
    BY DEF Inv
<1>d. \A q \in ToSet(writer[w].req) : q \in Posts /\ q.sv \in Students /\ q.lop \in Sections
    BY <1>c, RequestOf DEF WritersOK
<1>3. CASE \E q \in Posts : HandleMutation(w, q)
    <2>1. PICK q \in Posts : HandleMutation(w, q)
        BY <1>3
    <2> DEFINE new == [pc |-> "waits", req |-> <<q>>, xoa |-> {}]
    <2>2. /\ new \in [pc : {"idle", "waits", "deletes"},
                      req : {<< >>} \union {<<c>> : c \in Posts}, xoa : SUBSET Key]
          /\ new.pc = "waits" /\ new.req # << >> /\ new.xoa = {}
        OBVIOUS
    <2>3. writer' = [writer EXCEPT ![w] = new]
        BY <2>1 DEF HandleMutation
    <2> HIDE DEF new
    <2>4. WritersOK'
        BY <1>c, <2>2, <2>3 DEF WritersOK
    <2>5. JobsOK'
        BY <1>c, <2>1 DEF HandleMutation, JobsOK
    <2>6. BoundsOK'
        BY <1>1, <2>1, CacheAssumption DEF Inv, BoundsOK, HandleMutation
    <2>7. TablesOK' /\ CacheOK'
        BY <2>1 DEF Inv, TablesOK, CacheOK, HandleMutation, tables
    <2> QED
        BY <1>2, <2>4, <2>5, <2>6, <2>7 DEF Inv
<1>4. ASSUME NEW p \in Pods, DangKyMonHoc(p, w) PROVE Inv'
    <2>1. PICK q \in ToSet(writer[w].req) : row' = [row EXCEPT ![q.sv][q.lop] = "ChoXuLy"]
        BY <1>4 DEF DangKyMonHoc
    <2>2. TablesOK'
        <3>1. row' \in [Students -> [Sections -> TrangThai \union {NoRow}]]
            BY <1>d, <2>1, PutCell DEF Inv, TablesOK, TrangThai
        <3> QED
            BY <1>4, <3>1 DEF Inv, TablesOK, DangKyMonHoc
    <2>3. WritersOK' /\ JobsOK'
        BY <1>4, <1>c, RespondsOK DEF DangKyMonHoc
    <2> QED
        BY <1>4, <1>b, <2>2, <2>3 DEF DangKyMonHoc
<1>5. ASSUME NEW p \in Pods, HuyXoa(p, w) PROVE Inv'
    <2>1. PICK q \in ToSet(writer[w].req) : row' = [row EXCEPT ![q.sv][q.lop] = NoRow]
        BY <1>5 DEF HuyXoa
    <2>2. TablesOK'
        <3>1. row' \in [Students -> [Sections -> TrangThai \union {NoRow}]]
            BY <1>d, <2>1, PutCell DEF Inv, TablesOK
        <3> QED
            BY <1>5, <3>1 DEF Inv, TablesOK, HuyXoa
    <2>3. JobsOK'
        BY <1>5, <1>c, PutCell DEF HuyXoa, JobsOK
    <2>4. WritersOK'
        BY <1>5, <1>c DEF HuyXoa, WritersOK
    <2> QED
        BY <1>5, <1>b, <2>2, <2>3, <2>4 DEF HuyXoa
<1>6. ASSUME NEW p \in Pods, HuyTru(p, w) PROVE Inv'
    <2>1. PICK q \in ToSet(writer[w].req) : count' = [count EXCEPT ![q.lop] = @ - 1]
        BY <1>6 DEF HuyTru
    <2>2. TablesOK'
        BY <1>6, <1>d, <2>1 DEF Inv, TablesOK, HuyTru
    <2>3. WritersOK' /\ JobsOK'
        BY <1>6, <1>c, RespondsOK DEF HuyTru
    <2> QED
        BY <1>6, <1>b, <2>2, <2>3 DEF HuyTru
<1>7. ASSUME NEW p \in Pods, JobFails(p, w) PROVE Inv'
    <2>1. (job[p][w] = "counter") \in BOOLEAN
        OBVIOUS
    <2>2. WritersOK' /\ JobsOK'
        BY <1>7, <1>c, <2>1, RespondsOK DEF JobFails
    <2> QED
        BY <1>7, <1>a, <2>2 DEF JobFails
<1>8. ASSUME NEW p \in Pods, JobDropped(p, w) PROVE Inv'
    <2>1. JobsOK'
        BY <1>8, <1>c, PutCell DEF JobDropped, JobsOK
    <2>2. WritersOK'
        BY <1>8, <1>c DEF JobDropped, WritersOK
    <2> QED
        BY <1>8, <1>a, <2>1, <2>2 DEF JobDropped
<1>9. CASE GiveUpMutation(w)
    <2>1. WritersOK'
        BY <1>9, <1>c, GoesOK DEF GiveUpMutation
    <2>2. JobsOK'
        BY <1>9, <1>c DEF GiveUpMutation, JobsOK
    <2> QED
        BY <1>9, <1>a, <2>1, <2>2 DEF GiveUpMutation
<1>10. ASSUME NEW k \in Key, DeleteCacheKey(w, k) \/ DeleteFails(w, k) PROVE Inv'
    <2>1. WritersOK'
        BY <1>10, <1>c, GoesOK DEF DeleteCacheKey, DeleteFails, Deleted, WritersOK
    <2>2. CacheOK'
        <3>1. cache' = [cache EXCEPT ![k] = NoRow] \/ UNCHANGED cache
            BY <1>10 DEF DeleteCacheKey, DeleteFails
        <3> QED
            BY <3>1, DropEntry DEF Inv, CacheOK
    <2>3. TablesOK' /\ JobsOK' /\ BoundsOK'
        BY <1>10, <1>1 DEF Inv, TablesOK, JobsOK, BoundsOK, DeleteCacheKey, DeleteFails, tables
    <2> QED
        BY <1>2, <2>1, <2>2, <2>3 DEF Inv
<1> QED
    BY <1>3, <1>4, <1>5, <1>6, <1>7, <1>8, <1>9, <1>10 DEF Mutation

LEMMA ExpireInv ==
    ASSUME Inv, NEW k \in Key, Expire(k)
    PROVE  Inv'
<1>1. CacheOK'
    BY DropEntry DEF Inv, Expire
<1> QED
    BY <1>1 DEF Expire, Inv, TablesOK, ReadersOK, WritersOK, JobsOK, BatchOK, MessagesOK,
           BoundsOK, tables

\* The statements of a batch have their types, and its message names what they change.
LEMMA StatementsOK ==
    ASSUME NEW P \in SUBSET (Students \X Sections), NEW d \in Decisions(P)
    PROVE  /\ Statements(P, d) \subseteq WriteOp
           /\ {p[1] : p \in P} \subseteq Students
           /\ Affected(P, d) \subseteq Sections
           /\ \A op \in Statements(P, d) :
                  IF op.viec = "counter" THEN op.den \in Affected(P, d)
                  ELSE op.sv \in {p[1] : p \in P}
<1>1. \A p \in P : /\ p[1] \in Students /\ p[2] \in Sections
                   /\ d[p].viec \in {"KhongXep", "DaDangKy"} /\ d[p].den \in Sections
    BY DEF Decisions
<1> QED
    BY <1>1 DEF Statements, Seated, Affected, WriteOp

LEMMA ExecutedOK ==
    ASSUME TablesOK, NEW op \in WriteOp, Executed(op)
    PROVE  TablesOK'
<1>1. op.sv \in Students /\ op.lop \in Sections /\ op.den \in Sections
    BY DEF WriteOp
<1>2. CASE op.viec = "counter"
    BY <1>1, <1>2 DEF TablesOK, Executed
<1>3. CASE op.viec = "DaDangKy" /\ op.den # op.lop
    <2> DEFINE out == [row EXCEPT ![op.sv][op.lop] = NoRow]
    <2>1. out \in [Students -> [Sections -> TrangThai \union {NoRow}]]
        BY <1>1, PutCell DEF TablesOK
    <2>2. row' = [out EXCEPT ![op.sv][op.den] = "DaDangKy"]
        BY <1>3 DEF Executed
    <2> HIDE DEF out
    <2>3. "DaDangKy" \in TrangThai \union {NoRow}
        BY DEF TrangThai
    <2>4. row' \in [Students -> [Sections -> TrangThai \union {NoRow}]]
        BY <1>1, <2>1, <2>2, <2>3, PutCell
    <2> QED
        BY <1>3, <2>4 DEF TablesOK, Executed
<1>4. CASE op.viec # "counter" /\ op.den = op.lop
    <2>1. op.viec \in TrangThai \union {NoRow}
        BY <1>4 DEF WriteOp, TrangThai
    <2>2. row' = [row EXCEPT ![op.sv][op.lop] = op.viec] /\ UNCHANGED count
        BY <1>4 DEF Executed
    <2>3. row' \in [Students -> [Sections -> TrangThai \union {NoRow}]]
        BY <1>1, <2>1, <2>2, PutCell DEF TablesOK
    <2> QED
        BY <2>2, <2>3 DEF TablesOK
<1> QED
    BY <1>2, <1>3, <1>4 DEF Executed

LEMMA NoBatchOK == ASSUME lo' = NoBatch PROVE BatchOK'
BY DEF BatchOK, NoBatch

LEMMA BatchInv ==
    ASSUME Inv, Batch
    PROVE  Inv'
<1>1. UNCHANGED <<cache, reader, writer, job, dangXoa, posts>>
    BY DEF Batch, StartBatch, Write, WriteFails, PublishCacheInvalidation, PublishLost,
           BatchCrash
<1>2. CacheOK' /\ ReadersOK' /\ WritersOK' /\ JobsOK'
    BY <1>1 DEF Inv, CacheOK, ReadersOK, WritersOK, JobsOK
<1>3. BoundsOK'
    <2>1. errors' \in 0..MaxErrors
        BY CacheAssumption DEF Inv, BoundsOK, Batch, StartBatch, Write, WriteFails,
           PublishCacheInvalidation, PublishLost, BatchCrash
    <2> QED
        BY <1>1, <2>1 DEF Inv, BoundsOK
<1>a. ASSUME UNCHANGED <<tables, sent>>, BatchOK' PROVE Inv'
    BY <1>a, <1>1, <1>2, <1>3 DEF Inv, TablesOK, MessagesOK, tables
<1>4. CASE StartBatch
    <2>1. PICK P \in SUBSET Pending : \E d \in Decisions(P) :
             lo' = [viec |-> Statements(P, d), sv |-> {p[1] : p \in P}, lop |-> Affected(P, d)]
        BY <1>4 DEF StartBatch
    <2>2. PICK d \in Decisions(P) :
             lo' = [viec |-> Statements(P, d), sv |-> {p[1] : p \in P}, lop |-> Affected(P, d)]
        BY <2>1
    <2>3. P \in SUBSET (Students \X Sections)
        BY DEF Pending
    <2>4. BatchOK'
        BY <2>2, <2>3, StatementsOK DEF BatchOK
    <2> QED
        BY <1>4, <1>a, <2>4 DEF StartBatch
<1>5. ASSUME NEW op \in lo.viec, Write(op) \/ WriteFails(op) PROVE BatchOK'
    <2>1. lo' = [viec |-> lo.viec \ {op}, sv |-> lo.sv, lop |-> lo.lop]
        BY <1>5 DEF Write, WriteFails
    <2> QED
        BY <2>1 DEF Inv, BatchOK
<1>6. ASSUME NEW op \in lo.viec, Write(op) PROVE Inv'
    <2>1. op \in WriteOp
        BY DEF Inv, BatchOK
    <2>2. TablesOK'
        BY <1>6, <2>1, ExecutedOK DEF Inv, Write
    <2>3. MessagesOK'
        BY <1>6 DEF Inv, MessagesOK, Write
    <2> QED
        BY <1>2, <1>3, <1>5, <1>6, <2>2, <2>3 DEF Inv
<1>7. ASSUME NEW op \in lo.viec, WriteFails(op) PROVE Inv'
    BY <1>5, <1>7, <1>a DEF WriteFails
<1>8. CASE PublishCacheInvalidation
    <2>1. [sv |-> lo.sv, lop |-> lo.lop] \in [sv : SUBSET Students, lop : SUBSET Sections]
        BY DEF Inv, BatchOK
    <2>2. MessagesOK'
        BY <1>8, <2>1 DEF Inv, MessagesOK, PublishCacheInvalidation
    <2>3. BatchOK' /\ TablesOK'
        BY <1>8, NoBatchOK DEF PublishCacheInvalidation, Inv, TablesOK, tables
    <2> QED
        BY <1>2, <1>3, <2>2, <2>3 DEF Inv
<1>9. CASE PublishLost \/ BatchCrash
    BY <1>9, <1>a, NoBatchOK DEF PublishLost, BatchCrash
<1> QED
    BY <1>4, <1>6, <1>7, <1>8, <1>9 DEF Batch

LEMMA InvalidationInv ==
    ASSUME Inv, Invalidation
    PROVE  Inv'
<1>1. UNCHANGED <<tables, reader, writer, job, lo, posts, errors>>
    BY DEF Invalidation, SubscribeCacheInvalidation, DeleteBatchKey, DeleteBatchKeyFails
<1>2. TablesOK' /\ ReadersOK' /\ WritersOK' /\ JobsOK' /\ BatchOK' /\ BoundsOK'
    BY <1>1 DEF Inv, TablesOK, ReadersOK, WritersOK, JobsOK, BatchOK, BoundsOK, tables
<1>3. CASE SubscribeCacheInvalidation
    <2> DEFINE Message == [sv : SUBSET Students, lop : SUBSET Sections]
    <2>a. sent \in Seq(Message) /\ sent # << >>
        BY <1>3 DEF Inv, MessagesOK, SubscribeCacheInvalidation
    <2>1. Head(sent) \in Message /\ Tail(sent) \in Seq(Message)
        <3> HIDE DEF Message
        <3> QED
            BY <2>a
    <2>2. BatchKeys(Head(sent)) \subseteq Key
        BY <2>1, BatchKeysType
    <2>3. MessagesOK' /\ CacheOK'
        BY <1>3, <2>1, <2>2 DEF Inv, MessagesOK, CacheOK, SubscribeCacheInvalidation
    <2> QED
        BY <1>2, <2>3 DEF Inv
<1>4. ASSUME NEW k \in dangXoa, DeleteBatchKey(k) \/ DeleteBatchKeyFails(k) PROVE Inv'
    <2>1. MessagesOK'
        BY <1>4 DEF Inv, MessagesOK, DeleteBatchKey, DeleteBatchKeyFails
    <2>2. k \in Key
        BY DEF Inv, MessagesOK
    <2>3. cache' = [cache EXCEPT ![k] = NoRow] \/ UNCHANGED cache
        BY <1>4 DEF DeleteBatchKey, DeleteBatchKeyFails
    <2>4. CacheOK'
        BY <2>2, <2>3, DropEntry DEF Inv, CacheOK
    <2> QED
        BY <1>2, <2>1, <2>4 DEF Inv
<1> QED
    BY <1>3, <1>4 DEF Invalidation

LEMMA RestartInv ==
    ASSUME Inv, Restart
    PROVE  Inv'
<1>1. TablesOK' /\ CacheOK' /\ JobsOK' /\ BatchOK' /\ BoundsOK'
    BY DEF Restart, Inv, TablesOK, CacheOK, JobsOK, BatchOK, BoundsOK, tables
<1>2. ReadersOK'
    BY IdleReaderType DEF Restart, ReadersOK, ReaderType
<1>3. WritersOK'
    <2> DEFINE new(w) == [pc |-> "idle", req |-> writer[w].req, xoa |-> {}]
    <2>1. \A w \in Writers :
             /\ new(w) \in [pc : {"idle", "waits", "deletes"},
                            req : {<< >>} \union {<<q>> : q \in Posts}, xoa : SUBSET Key]
             /\ new(w).pc = "idle" /\ new(w).xoa = {}
        BY DEF Inv, WritersOK
    <2>2. writer' = [w \in Writers |-> new(w)]
        BY DEF Restart
    <2> HIDE DEF new
    <2> QED
        BY <2>1, <2>2 DEF WritersOK
<1>4. MessagesOK'
    BY DEF Restart, MessagesOK
<1> QED
    BY <1>1, <1>2, <1>3, <1>4 DEF Inv

LEMMA NextInv ==
    ASSUME Inv, [Next]_vars
    PROVE  Inv'
<1>1. CASE UNCHANGED vars
    BY <1>1 DEF vars, tables, Inv, TablesOK, CacheOK, ReadersOK, WritersOK, JobsOK, BatchOK,
           MessagesOK, BoundsOK
<1> QED
    BY <1>1, LookupInv, MutationInv, ExpireInv, BatchInv, InvalidationInv, RestartInv DEF Next

LEMMA SpecInv == Spec => []Inv
BY InitInv, NextInv, PTL DEF Spec

\* The state of the gateway, of its cache and of db-service has its type in
\* every state; in particular the cache holds only successful answers, under
\* keys that a look-up can ask for.
THEOREM TypeCorrect == Spec => []TypeOK
BY SpecInv, InvTypeOK, PTL

-----------------------------------------------------------------------------
(***************************************************************************)
(* What a batch changes is announced                                       *)
(***************************************************************************)

LEMMA WriteOwes ==
    ASSUME Inv, NEW op \in lo.viec, Write(op)
    PROVE  /\ \A x \in Sections : count'[x] # count[x] => ChiTiet(x) \in Owed'
           /\ \A s \in Students : row'[s] # row[s] => DangKyCua(s, Rong) \in Owed'
<1>1. op \in WriteOp /\ IF op.viec = "counter" THEN op.den \in lo.lop ELSE op.sv \in lo.sv
    BY DEF Inv, BatchOK
<1>2. lo'.sv = lo.sv /\ lo'.lop = lo.lop
    BY DEF Write
<1>3. CASE op.viec = "counter"
    <2>1. count' = [count EXCEPT ![op.den] = @ + 1] /\ row' = row
        BY <1>3 DEF Write, Executed
    <2>2. \A x \in Sections : count'[x] # count[x] => x \in lo'.lop
        BY <1>1, <1>2, <1>3, <2>1 DEF Inv, TablesOK
    <2> QED
        BY <2>1, <2>2 DEF Owed, BatchKeys
<1>4. CASE op.viec # "counter"
    <2>1. count' = count /\ \A s \in Students : s # op.sv => row'[s] = row[s]
        BY <1>1, <1>4 DEF Write, Executed, Inv, TablesOK
    <2>2. op.sv \in lo'.sv
        BY <1>1, <1>2, <1>4
    <2> QED
        BY <2>1, <2>2 DEF Owed, BatchKeys
<1> QED
    BY <1>3, <1>4

\* Whatever a statement of a batch changes, the detail of the section whose
\* counter it raised and the list of the student whose row it changed are owed
\* a deletion, for every batch and every decision of it (asyncDBUpdates and
\* publishCacheInvalidation).
THEOREM ChangesAreOwed == Spec => BatchOwesItsChanges
<1>1. ASSUME Inv
      PROVE  [\A op \in lo.viec : Write(op) =>
                /\ \A x \in Sections : count'[x] # count[x] => ChiTiet(x) \in Owed'
                /\ \A s \in Students : row'[s] # row[s] => DangKyCua(s, Rong) \in Owed']_vars
    BY <1>1, WriteOwes
<1> QED
    BY <1>1, SpecInv, PTL DEF BatchOwesItsChanges

-----------------------------------------------------------------------------
(***************************************************************************)
(* No deletion is forgotten                                                *)
(***************************************************************************)

\* Every holder of a debt keeps what it had, or another gets it.
KeepsDebts ==
    /\ \A w \in Writers : writer[w].xoa \subseteq Owed'
    /\ dangXoa \subseteq Owed'
    /\ \A m \in ToSet(sent) : BatchKeys(m) \subseteq Owed'
    /\ BatchKeys(lo) \subseteq Owed'

LEMMA KeepsAll == ASSUME KeepsDebts PROVE Owed \subseteq Owed'
BY DEF KeepsDebts, Owed

\* What stays where it is.
LEMMA SameDebts ==
    /\ (\A w \in Writers : writer[w].xoa \subseteq writer'[w].xoa)
          => \A w \in Writers : writer[w].xoa \subseteq Owed'
    /\ UNCHANGED dangXoa => dangXoa \subseteq Owed'
    /\ UNCHANGED sent => \A m \in ToSet(sent) : BatchKeys(m) \subseteq Owed'
    /\ lo'.sv = lo.sv /\ lo'.lop = lo.lop => BatchKeys(lo) \subseteq Owed'
BY DEF Owed, BatchKeys

\* Only the deletion of a key takes it from a mutation.
LEMMA GoesKeeps ==
    ASSUME WritersOK, NEW w \in Writers, NEW pc, NEW xoa, Goes(w, pc, xoa), writer[w].xoa \subseteq xoa
    PROVE  \A v \in Writers : writer[v].xoa \subseteq writer'[v].xoa
BY DEF WritersOK, Goes

LEMMA MutationPays ==
    ASSUME Inv, NEW w \in Writers, Mutation(w), NEW k \in Owed \ Owed'
    PROVE  cache'[k] = NoRow \/ Loss
<1>1. UNCHANGED <<lo, sent, dangXoa>>
    BY DEF Mutation, HandleMutation, DangKyMonHoc, HuyXoa, HuyTru, JobFails, JobDropped,
           GiveUpMutation, DeleteCacheKey, DeleteFails
<1>2. /\ WritersOK
      /\ writer[w].pc # "deletes" => writer[w].xoa = {}
    BY DEF Inv, WritersOK
<1>3. (\A v \in Writers : writer[v].xoa \subseteq writer'[v].xoa) => Owed \subseteq Owed'
    BY <1>1, SameDebts, KeepsAll DEF KeepsDebts
<1>4. CASE \E q \in Posts : HandleMutation(w, q)
    <2>1. \A v \in Writers : writer[v].xoa \subseteq writer'[v].xoa
        BY <1>2, <1>4 DEF HandleMutation, WritersOK
    <2> QED
        BY <1>3, <2>1
<1>5. ASSUME NEW p \in Pods, NEW success \in BOOLEAN, Responds(p, w, success) PROVE FALSE
    <2>1. \A v \in Writers : writer[v].xoa \subseteq writer'[v].xoa
        BY <1>2, <1>5, GoesKeeps DEF Responds
    <2> QED
        BY <1>3, <2>1
<1>6. ASSUME NEW p \in Pods, DangKyMonHoc(p, w) \/ HuyTru(p, w) \/ JobFails(p, w) PROVE FALSE
    BY <1>5, <1>6 DEF DangKyMonHoc, HuyTru, JobFails
<1>7. ASSUME NEW p \in Pods, HuyXoa(p, w) \/ JobDropped(p, w) PROVE FALSE
    BY <1>3, <1>7 DEF HuyXoa, JobDropped
<1>8. CASE GiveUpMutation(w)
    BY <1>2, <1>3, <1>8, GoesKeeps DEF GiveUpMutation
<1>9. ASSUME NEW j \in Key, DeleteCacheKey(w, j) PROVE cache'[k] = NoRow
    <2>1. \A v \in Writers : writer[v].xoa \ {j} \subseteq writer'[v].xoa
        BY <1>2, <1>9 DEF DeleteCacheKey, Deleted, Goes, WritersOK
    <2>2. Owed \ {j} \subseteq Owed'
        BY <1>1, <2>1 DEF Owed
    <2> QED
        BY <1>9, <2>2 DEF DeleteCacheKey, Inv, CacheOK
<1>10. ASSUME NEW j \in Key, DeleteFails(w, j) PROVE Loss
    BY <1>10 DEF Loss
<1> QED
    BY <1>4, <1>6, <1>7, <1>8, <1>9, <1>10 DEF Mutation

LEMMA BatchPays ==
    ASSUME Inv, Batch, NEW k \in Owed \ Owed'
    PROVE  Loss
<1>1. UNCHANGED <<writer, dangXoa>>
    BY DEF Batch, StartBatch, Write, WriteFails, PublishCacheInvalidation, PublishLost,
           BatchCrash
<1>2. /\ \A w \in Writers : writer[w].xoa \subseteq Owed'
      /\ dangXoa \subseteq Owed'
    BY <1>1, SameDebts
<1>3. CASE StartBatch
    BY <1>2, <1>3, SameDebts, KeepsAll DEF StartBatch, KeepsDebts, NoBatch, BatchKeys
<1>4. CASE \E op \in lo.viec : Write(op) \/ WriteFails(op)
    BY <1>2, <1>4, SameDebts, KeepsAll DEF Write, WriteFails, KeepsDebts
<1>5. CASE PublishCacheInvalidation
    <2> DEFINE m == [sv |-> lo.sv, lop |-> lo.lop]
    <2>1. sent' = Append(sent, m)
        BY <1>5 DEF PublishCacheInvalidation
    <2>2. BatchKeys(m) = BatchKeys(lo)
        BY DEF BatchKeys
    <2>3. ToSet(sent') = ToSet(sent) \union {m}
        <3>1. sent \in Seq([sv : SUBSET Students, lop : SUBSET Sections])
            BY DEF Inv, MessagesOK
        <3> HIDE DEF m
        <3> QED
            BY <2>1, <3>1 DEF ToSet
    <2>4. /\ \A n \in ToSet(sent) : BatchKeys(n) \subseteq Owed'
          /\ BatchKeys(lo) \subseteq Owed'
        BY <2>2, <2>3 DEF Owed
    <2> QED
        BY <1>2, <2>4, KeepsAll DEF KeepsDebts
<1>6. CASE PublishLost \/ BatchCrash
    BY <1>6 DEF Loss
<1> QED
    BY <1>3, <1>4, <1>5, <1>6 DEF Batch

LEMMA InvalidationPays ==
    ASSUME Inv, Invalidation, NEW k \in Owed \ Owed'
    PROVE  cache'[k] = NoRow \/ Loss
<1>1. UNCHANGED <<writer, lo>>
    BY DEF Invalidation, SubscribeCacheInvalidation, DeleteBatchKey, DeleteBatchKeyFails
<1>2. /\ \A w \in Writers : writer[w].xoa \subseteq Owed'
      /\ BatchKeys(lo) \subseteq Owed'
    BY <1>1, SameDebts
<1>3. CASE SubscribeCacheInvalidation
    <2>1. sent # << >> /\ sent' = Tail(sent) /\ dangXoa' = BatchKeys(Head(sent)) /\ dangXoa = {}
        BY <1>3 DEF SubscribeCacheInvalidation
    <2>2. ToSet(sent) \subseteq ToSet(sent') \union {Head(sent)}
        <3> DEFINE Message == [sv : SUBSET Students, lop : SUBSET Sections]
        <3>1. sent \in Seq(Message)
            BY DEF Inv, MessagesOK
        <3> HIDE DEF Message
        <3>2. Head(sent) = sent[1] /\ Len(sent) \in Nat \ {0}
            BY <2>1, <3>1
        <3>3. /\ Tail(sent) \in Seq(Message) /\ Len(Tail(sent)) = Len(sent) - 1
              /\ \A i \in 1..Len(Tail(sent)) : Tail(sent)[i] = sent[i + 1]
            BY <2>1, <3>1, HeadTailProperties
        <3>4. ASSUME NEW i \in DOMAIN sent
              PROVE  sent[i] \in ToSet(sent') \union {Head(sent)}
            <4>1. CASE i = 1
                BY <3>2, <4>1
            <4>2. CASE i # 1
                <5>1. i - 1 \in 1..Len(Tail(sent)) /\ Tail(sent)[i - 1] = sent[i]
                    BY <3>1, <3>2, <3>3, <4>2
                <5> QED
                    BY <2>1, <3>3, <5>1 DEF ToSet
            <4> QED
                BY <4>1, <4>2
        <3> QED
            BY <3>4 DEF ToSet
    <2>3. \A n \in ToSet(sent) : BatchKeys(n) \subseteq Owed'
        BY <2>1, <2>2 DEF Owed
    <2> QED
        BY <1>2, <2>1, <2>3, KeepsAll DEF KeepsDebts
<1>4. ASSUME NEW j \in dangXoa, DeleteBatchKey(j) PROVE cache'[k] = NoRow
    <2>1. dangXoa \ {j} \subseteq Owed'
        BY <1>4 DEF DeleteBatchKey, Owed
    <2>2. Owed \ {j} \subseteq Owed'
        BY <1>1, <1>4, <2>1 DEF Owed, DeleteBatchKey
    <2>3. j \in Key
        BY DEF Inv, MessagesOK
    <2> QED
        BY <1>4, <2>2, <2>3 DEF DeleteBatchKey, Inv, CacheOK
<1>5. ASSUME NEW j \in dangXoa, DeleteBatchKeyFails(j) PROVE Loss
    BY <1>5 DEF Loss, Inv, MessagesOK
<1> QED
    BY <1>3, <1>4, <1>5 DEF Invalidation

\* Look-ups, the end of a TTL and stuttering touch no debt.
LEMMA OthersPay ==
    ASSUME UNCHANGED vars \/ (\E r \in Readers : Lookup(r)) \/ (\E j \in Key : Expire(j))
    PROVE  Owed = Owed'
<1>1. UNCHANGED <<writer, dangXoa, sent, lo>>
    BY DEF vars, Lookup, HandleCachedQuery, ReadRows, ReadRowsInPart, ReadCounters,
           ReadCountersInPart, GiveUpQuery, SetToCache, SetFails, Expire
<1> QED
    BY <1>1 DEF Owed, BatchKeys

\* A deletion that is owed is handed on and never dropped, except where a pod
\* or the gateway stops, a message is lost or a call to Redis fails
\* (invalidateRelatedCaches, publishCacheInvalidation and
\* subscribeCacheInvalidation).
THEOREM NoDebtForgotten == Spec => DebtsArePaid
<1>1. ASSUME Inv, [Next]_vars
      PROVE  [\A k \in Owed \ Owed' : cache'[k] = NoRow \/ Loss]_vars
    <2>1. CASE Restart
        BY <2>1 DEF Loss
    <2> QED
        BY <1>1, <2>1, MutationPays, BatchPays, InvalidationPays, OthersPay DEF Next
<1> QED
    BY <1>1, SpecInv, PTL DEF DebtsArePaid, Spec

=============================================================================
