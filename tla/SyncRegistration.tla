-------------------------- MODULE SyncRegistration --------------------------
(***************************************************************************)
(* The registration services that answer a request once it is done, before *)
(* db.go put batches in between: handleQuery of db-service.js, which looks *)
(* before it writes, and golang/main.go, which writes without looking.     *)
(*                                                                         *)
(* Every statement sent to ScyllaDB is a step of its own, and a handler    *)
(* can be overtaken between any two of them.  The gateway asks over NATS   *)
(* and takes the first answer, or gives up after its timeout while the     *)
(* handler goes on.  One of the two services is deployed; the variable     *)
(* service says which.  Its statements, in the order of the code:          *)
(*                                                                         *)
(*   "js"  DANG_KY  dem (counter) trung (row) them (INSERT) tang (+1)      *)
(*         HUY      tim (row) xoa (DELETE) giam (-1)                       *)
(*   "go"  DANG_KY  them tang            HUY  xoa giam                     *)
(***************************************************************************)
EXTENDS Integers, FiniteSets

CONSTANTS
    Students,
    Sections,
    SoLuongToiDa,  \* lop_hoc_phan.so_luong_toi_da
    Pods,          \* the replicas of db-service
    Posts,         \* the requests of the clients, a repeated one counted twice
    Ask,           \* what each of them asks for
    NoId,          \* the absence of a row, or of an answer
    MaxFaults      \* bound on statements that fail, handlers that die and
                   \* requests the gateway gives up, together

Services == {"js", "go"}

\* ma_dang_ky: made by the pod that handles the request, from the clock.
Id == Posts \X Pods

Request == [kind : {"DANG_KY", "HUY"}, sv : Students, lhp : Sections]

ASSUME SyncAssumption ==
    /\ IsFiniteSet(Posts) /\ IsFiniteSet(Pods) /\ Pods # {}
    /\ SoLuongToiDa \in [Sections -> Nat \ {0}]
    /\ Ask \in [Posts -> Request]
    /\ NoId \notin Id
    /\ MaxFaults \in Nat

VARIABLES
    service,   \* the service that is deployed
    dangKy,    \* table dang_ky: student -> section -> ma_dang_ky
    counter,   \* table lop_hoc_phan_counter
    posts,     \* what the gateway knows of each request
    told,      \* the ma_dang_ky it has passed on
    work,      \* the next statement of the handler of a request in a pod
    crowd,     \* the most handlers that ever were past the check of a section
    failures   \* statements that failed and handlers that died

tables  == <<dangKy, counter>>
gateway == <<posts, told>>
vars    == <<service, dangKy, counter, posts, told, work, crowd, failures>>

Statements == {"dem", "trung", "them", "tang", "tim", "xoa", "giam"}

\* A handler that passed the check of the counter and has not counted yet.
PastCheck == {"trung", "them", "tang"}

-----------------------------------------------------------------------------
(***************************************************************************)
(* Requests and answers                                                    *)
(***************************************************************************)

FirstStatement(q) ==
    IF service = "js" THEN (IF Ask[q].kind = "DANG_KY" THEN "dem" ELSE "tim")
                      ELSE (IF Ask[q].kind = "DANG_KY" THEN "them" ELSE "xoa")

\* Mutated form of Receivers: the queue group is missing.
EveryPod == {Pods}

\* db-service.js subscribes in the queue group db-workers, so that one pod
\* gets a request; golang/main.go names no group and every pod gets it.
Receivers == IF service = "js" THEN {{p} : p \in Pods} ELSE {Pods}

Init ==
    /\ service \in Services
    /\ dangKy = [sv \in Students |-> [lhp \in Sections |-> NoId]]
    /\ counter = [lhp \in Sections |-> 0]
    /\ posts = [q \in Posts |-> "new"]
    /\ told = [q \in Posts |-> NoId]
    /\ work = [w \in Id |-> "none"]
    /\ crowd = [lhp \in Sections |-> 0]
    /\ failures = 0

\* sendDBRequest.
Send(q) ==
    /\ posts[q] = "new"
    /\ posts' = [posts EXCEPT ![q] = "waiting"]
    /\ \E ps \in Receivers :
           work' = [w \in Id |-> IF w[1] = q /\ w[2] \in ps THEN FirstStatement(q)
                                                            ELSE work[w]]
    /\ UNCHANGED <<service, tables, told, crowd, failures>>

FaultLeft == failures + Cardinality({q \in Posts : posts[q] = "timeout"}) < MaxFaults

\* The request times out at the gateway: 504 for the client.
Timeout(q) ==
    /\ posts[q] = "waiting"
    /\ FaultLeft
    /\ posts' = [posts EXCEPT ![q] = "timeout"]
    /\ UNCHANGED <<service, tables, told, work, crowd, failures>>

\* The handler goes on to its next statement.
Goes(w, next) ==
    /\ work' = [work EXCEPT ![w] = next]
    /\ UNCHANGED gateway

\* Mutated form of Answers: the identifier is forgotten.
AnswersWithoutId(w, outcome) ==
    /\ work' = [work EXCEPT ![w] = "none"]
    /\ IF posts[w[1]] = "waiting"
       THEN /\ posts' = [posts EXCEPT ![w[1]] = outcome]
            /\ UNCHANGED told
       ELSE UNCHANGED gateway

\* The handler answers and is done.  Only the first answer to a request that
\* still waits is passed on.
Answers(w, outcome) ==
    /\ work' = [work EXCEPT ![w] = "none"]
    /\ IF posts[w[1]] = "waiting"
       THEN /\ posts' = [posts EXCEPT ![w[1]] = outcome]
            /\ told' = [told EXCEPT ![w[1]] = IF outcome = "ok" THEN w ELSE NoId]
       ELSE UNCHANGED gateway

-----------------------------------------------------------------------------
(***************************************************************************)
(* The statements of the handlers                                          *)
(***************************************************************************)

Handlers(lhp) == {w \in Id : work[w] \in PastCheck /\ Ask[w[1]].lhp = lhp}

Larger(m, n) == IF m < n THEN n ELSE m

\* Mutated form of KiemTraSoLuong: the comparison lets one more in.
KiemTraSoLuongLech(w) ==
    LET lhp == Ask[w[1]].lhp IN
    /\ work[w] = "dem"
    /\ IF counter[lhp] > SoLuongToiDa[lhp]
       THEN Answers(w, "error") /\ UNCHANGED crowd
       ELSE /\ Goes(w, "trung")
            /\ crowd' = [crowd EXCEPT ![lhp] = Larger(@, Cardinality(Handlers(lhp)) + 1)]
    /\ UNCHANGED <<service, tables, failures>>

\* Step 3, the counter against so_luong_toi_da.  Steps 1 and 2 read what the
\* system never changes.
KiemTraSoLuong(w) ==
    LET lhp == Ask[w[1]].lhp IN
    /\ work[w] = "dem"
    /\ IF counter[lhp] >= SoLuongToiDa[lhp]
       THEN Answers(w, "error") /\ UNCHANGED crowd
       ELSE /\ Goes(w, "trung")
            /\ crowd' = [crowd EXCEPT ![lhp] = Larger(crowd[lhp], Cardinality(Handlers(lhp)) + 1)]
    /\ UNCHANGED <<service, tables, failures>>

\* Step 4, a row of the same student and section.
KiemTraTrung(w) ==
    LET q == Ask[w[1]] IN
    /\ work[w] = "trung"
    /\ IF dangKy[q.sv][q.lhp] # NoId THEN Answers(w, "error") ELSE Goes(w, "them")
    /\ UNCHANGED <<service, tables, crowd, failures>>

\* Step 5, INSERT INTO dang_ky: it overwrites a row with the same key.
Insert(w) ==
    /\ dangKy' = [dangKy EXCEPT ![Ask[w[1]].sv][Ask[w[1]].lhp] = w]
    /\ UNCHANGED counter

\* Step 6 of DANG_KY and step 3 of HUY.
Count(w, by) ==
    /\ counter' = [counter EXCEPT ![Ask[w[1]].lhp] = @ + by]
    /\ UNCHANGED dangKy

\* Step 2 of HUY, DELETE FROM dang_ky.
Delete(w) ==
    /\ dangKy' = [dangKy EXCEPT ![Ask[w[1]].sv][Ask[w[1]].lhp] = NoId]
    /\ UNCHANGED counter

DangKy(w) ==
    /\ work[w] = "them"
    /\ Insert(w)
    /\ Goes(w, "tang")
    /\ UNCHANGED <<service, crowd, failures>>

TangCounter(w) ==
    /\ work[w] = "tang"
    /\ Count(w, 1)
    /\ Answers(w, "ok")
    /\ UNCHANGED <<service, crowd, failures>>

\* Mutated form of TimDangKy: HUY deletes without looking.
HuyMu(w) ==
    /\ work[w] = "tim"
    /\ Goes(w, "xoa")
    /\ UNCHANGED <<service, tables, crowd, failures>>

\* Step 1 of HUY: without a row there is nothing to cancel.
TimDangKy(w) ==
    LET q == Ask[w[1]] IN
    /\ work[w] = "tim"
    /\ IF dangKy[q.sv][q.lhp] = NoId THEN Answers(w, "error") ELSE Goes(w, "xoa")
    /\ UNCHANGED <<service, tables, crowd, failures>>

XoaDangKy(w) ==
    /\ work[w] = "xoa"
    /\ Delete(w)
    /\ Goes(w, "giam")
    /\ UNCHANGED <<service, crowd, failures>>

GiamCounter(w) ==
    /\ work[w] = "giam"
    /\ Count(w, -1)
    /\ Answers(w, "ok")
    /\ UNCHANGED <<service, crowd, failures>>

\* What a statement would have changed.
Effect(w) ==
    \/ work[w] \in {"dem", "trung", "tim"} /\ UNCHANGED tables
    \/ work[w] = "them" /\ Insert(w)
    \/ work[w] = "tang" /\ Count(w, 1)
    \/ work[w] = "xoa" /\ Delete(w)
    \/ work[w] = "giam" /\ Count(w, -1)

\* Mutated form of Fails: every answer is a success.
FailsSilently(w) ==
    /\ work[w] # "none"
    /\ FaultLeft
    /\ failures' = failures + 1
    /\ Effect(w) \/ UNCHANGED tables
    /\ Answers(w, "ok")
    /\ UNCHANGED <<service, crowd>>

\* A statement ends in an error, executed or not: db-service.js catches the
\* exception and answers with it, golang/main.go does so for INSERT and
\* DELETE and forgets an error on the counter.
Fails(w) ==
    /\ work[w] # "none"
    /\ FaultLeft
    /\ failures' = failures + 1
    /\ Effect(w) \/ UNCHANGED tables
    /\ Answers(w, IF service = "go" /\ work[w] \in {"tang", "giam"} THEN "ok" ELSE "error")
    /\ UNCHANGED <<service, crowd>>

\* The pod stops: drain() and Close() end the subscriptions and not the
\* handlers.  The handlers of a pod go one by one.
Dies(w) ==
    /\ work[w] # "none"
    /\ FaultLeft
    /\ failures' = failures + 1
    /\ work' = [work EXCEPT ![w] = "none"]
    /\ UNCHANGED <<service, tables, gateway, crowd>>

\* golang/main.go gives a delivery up without an answer when the context is
\* cancelled before a worker slot is free.
Lost(w) ==
    /\ service = "go"
    /\ work[w] = FirstStatement(w[1])
    /\ work' = [work EXCEPT ![w] = "none"]
    /\ UNCHANGED <<service, tables, gateway, crowd, failures>>

Handle(w) ==
    \/ KiemTraSoLuong(w) \/ KiemTraTrung(w) \/ DangKy(w) \/ TangCounter(w)
    \/ TimDangKy(w) \/ XoaDangKy(w) \/ GiamCounter(w)

Next ==
    \/ \E q \in Posts : Send(q) \/ Timeout(q)
    \/ \E w \in Id : Handle(w) \/ Fails(w) \/ Dies(w) \/ Lost(w)

Spec == Init /\ [][Next]_vars

-----------------------------------------------------------------------------
(***************************************************************************)
(* Properties                                                              *)
(***************************************************************************)

\* Every part of the state has its type, and a success has its identifier.
TypeOK ==
    /\ service \in Services
    /\ dangKy \in [Students -> [Sections -> Id \union {NoId}]]
    /\ counter \in [Sections -> Int]
    /\ posts \in [Posts -> {"new", "waiting", "ok", "error", "timeout"}]
    /\ told \in [Posts -> Id \union {NoId}]
    /\ \A q \in Posts : posts[q] = "ok" => told[q] \in {q} \X Pods
    /\ work \in [Id -> Statements \union {"none"}]
    /\ crowd \in [Sections -> Nat]
    /\ failures \in 0..MaxFaults

Registered(lhp) == {sv \in Students : dangKy[sv][lhp] # NoId}

At(statement, lhp) == {w \in Id : work[w] = statement /\ Ask[w[1]].lhp = lhp}

\* The counter once the handlers that changed a row have counted it.
CounterSoon(lhp) ==
    counter[lhp] + Cardinality(At("tang", lhp)) - Cardinality(At("giam", lhp))

\* The requests of a kind sent for a section, and those of one student.
SentFor(kind, lhp) ==
    {q \in Posts : posts[q] # "new" /\ Ask[q].kind = kind /\ Ask[q].lhp = lhp}

SentBy(kind, sv, lhp) == {q \in SentFor(kind, lhp) : Ask[q].sv = sv}

\* The handlers of a kind beyond the first one of each student: those that
\* can find a row that is already there, or none to delete.  Without a look
\* at the row the first HUY of a student may already find none.
Repeats(kind, lhp) ==
    LET firsts == Cardinality({Ask[q].sv : q \in SentFor(kind, lhp)})
        all    == Cardinality(SentFor(kind, lhp))
    IN  IF service = "js" THEN all - firsts
        ELSE all * Cardinality(Pods) - (IF kind = "HUY" THEN 0 ELSE firsts)

\* The counter and the rows of a section part by no more than the statements
\* that failed or never came and the handlers that repeat what another one
\* of the same student did: a request by itself keeps the two in step.
LedgerDrift ==
    \A lhp \in Sections :
        LET rows == Cardinality(Registered(lhp))
        IN  /\ rows - CounterSoon(lhp) <= failures + Repeats("HUY", lhp)
            /\ CounterSoon(lhp) - rows <= failures + Repeats("DANG_KY", lhp)

\* "Lop hoc phan da day": a section is oversold at most by the handlers that
\* were past its check together, but for one, and by the seats that the
\* counter lost.  Registrations that come one at a time never oversell it.
OversellBounded ==
    service = "js" =>
        \A lhp \in Sections :
            Cardinality(Registered(lhp)) <=
                SoLuongToiDa[lhp] + Larger(crowd[lhp] - 1, 0)
                    + failures + Repeats("HUY", lhp)

\* A student who was told of success is on file until a cancellation is
\* asked for.
SuccessOnFile ==
    \A q \in Posts :
        /\ Ask[q].kind = "DANG_KY"
        /\ posts[q] = "ok"
        /\ SentBy("HUY", Ask[q].sv, Ask[q].lhp) = {}
        => dangKy[Ask[q].sv][Ask[q].lhp] # NoId

\* The ma_dang_ky a student was given is the one on file, as long as that
\* request was the only one for the section: one pod handles it, once.
IdentifierOnFile ==
    \A q \in Posts :
        /\ service = "js"
        /\ Ask[q].kind = "DANG_KY"
        /\ posts[q] = "ok"
        /\ SentBy("HUY", Ask[q].sv, Ask[q].lhp) = {}
        /\ SentBy("DANG_KY", Ask[q].sv, Ask[q].lhp) = {q}
        => dangKy[Ask[q].sv][Ask[q].lhp] = told[q]

=============================================================================
