----------------------- MODULE SyncRegistrationProofs -----------------------
(***************************************************************************)
(* Theorems about SyncRegistration: its types, that what a student is told *)
(* stays on file, and how far rows and counters part.                      *)
(***************************************************************************)
EXTENDS SyncRegistration, FiniteSetTheorems, TLAPS

Kinds == {"DANG_KY", "HUY"}

\* The section and the student of the request a handler works on.
Sv(w)  == Ask[w[1]].sv
Lhp(w) == Ask[w[1]].lhp

-----------------------------------------------------------------------------
(***************************************************************************)
(* Operators                                                               *)
(***************************************************************************)

\* Writing one cell of a table.
LEMMA PutCell ==
    ASSUME NEW S, NEW T, NEW V, NEW t \in [S -> [T -> V]],
           NEW a \in S, NEW b \in T, NEW c \in V
    PROVE  /\ [t EXCEPT ![a][b] = c] \in [S -> [T -> V]]
           /\ \A x \in S, y \in T :
                  [t EXCEPT ![a][b] = c][x][y] = IF x = a /\ y = b THEN c ELSE t[x][y]
  OBVIOUS

\* A handler works for a request in a pod.
LEMMA OfRequest ==
    ASSUME NEW w \in Id
    PROVE  /\ w[1] \in Posts /\ w[2] \in Pods /\ w = <<w[1], w[2]>>
           /\ Ask[w[1]] \in Request
           /\ Sv(w) \in Students /\ Lhp(w) \in Sections
           /\ Ask[w[1]].kind \in Kinds
  BY SyncAssumption DEF Id, Request, Sv, Lhp, Kinds

LEMMA HandlersCount ==
    ASSUME NEW lhp \in Sections
    PROVE  Cardinality(Handlers(lhp)) \in Nat
<1>1. IsFiniteSet(Id)
  BY SyncAssumption, FS_Product DEF Id
<1>2. Handlers(lhp) \in SUBSET Id
  BY DEF Handlers
<1> QED
  BY <1>1, <1>2, FS_Subset, FS_CardinalityType

-----------------------------------------------------------------------------
(***************************************************************************)
(* What a step of a handler does                                           *)
(***************************************************************************)

\* The statements of a handler follow each other.
Follows(from, to) ==
    \/ to = "none"
    \/ from = "dem" /\ to = "trung"
    \/ from = "trung" /\ to = "them"
    \/ from = "them" /\ to = "tang"
    \/ from = "tim" /\ to = "xoa"
    \/ from = "xoa" /\ to = "giam"

Writes(w) ==
    \/ UNCHANGED dangKy
    \/ work[w] = "them" /\ dangKy' = [dangKy EXCEPT ![Sv(w)][Lhp(w)] = w]
    \/ work[w] = "xoa" /\ dangKy' = [dangKy EXCEPT ![Sv(w)][Lhp(w)] = NoId]

\* The answer of a handler, if it gives one: a success only after its last
\* statement.
Tells(w, next) ==
    \/ UNCHANGED gateway
    \/ /\ next = "none"
       /\ posts[w[1]] = "waiting"
       /\ \/ /\ posts' = [posts EXCEPT ![w[1]] = "error"]
             /\ told' = [told EXCEPT ![w[1]] = NoId]
          \/ /\ work[w] \in {"tang", "giam"}
             /\ UNCHANGED dangKy
             /\ posts' = [posts EXCEPT ![w[1]] = "ok"]
             /\ told' = [told EXCEPT ![w[1]] = w]

StepOf(w, next) ==
    /\ work[w] # "none"
    /\ UNCHANGED service
    /\ work' = [work EXCEPT ![w] = next]
    /\ Follows(work[w], next)
    /\ Writes(w)
    /\ next = "tang" => dangKy' = [dangKy EXCEPT ![Sv(w)][Lhp(w)] = w]
    /\ Tells(w, next)

\* The part of a step that touches what TypeOK says of the counters.
Counts(w) ==
    /\ \/ UNCHANGED counter
       \/ \E by \in {1, -1} : counter' = [counter EXCEPT ![Lhp(w)] = counter[Lhp(w)] + by]
    /\ \/ UNCHANGED crowd
       \/ crowd' = [crowd EXCEPT ![Lhp(w)] =
                       Larger(crowd[Lhp(w)], Cardinality(Handlers(Lhp(w))) + 1)]
    /\ failures' \in {failures, failures + 1}
    /\ failures' # failures => FaultLeft

HandlerAction(w) == Handle(w) \/ Fails(w) \/ Dies(w) \/ Lost(w)

\* Every action of a handler is a StepOf.
LEMMA HandlerSteps ==
    ASSUME TypeOK, NEW w \in Id, HandlerAction(w)
    PROVE  (\E next \in Statements \union {"none"} : StepOf(w, next)) /\ Counts(w)
<1> USE DEF StepOf, Counts, Follows, Writes, Tells, Goes, Answers, Statements, gateway, tables, Sv, Lhp
<1>1. CASE KiemTraSoLuong(w)
  BY <1>1 DEF KiemTraSoLuong
<1>2. CASE KiemTraTrung(w)
  BY <1>2 DEF KiemTraTrung
<1>3. CASE DangKy(w)
  BY <1>3 DEF DangKy, Insert
<1>4. CASE TangCounter(w)
  BY <1>4 DEF TangCounter, Count
<1>5. CASE TimDangKy(w)
  BY <1>5 DEF TimDangKy
<1>6. CASE XoaDangKy(w)
  BY <1>6 DEF XoaDangKy, Delete
<1>7. CASE GiamCounter(w)
  BY <1>7 DEF GiamCounter, Count
<1>8. CASE Fails(w)
  BY <1>8 DEF Fails, Effect, Insert, Delete, Count
<1>9. CASE Dies(w)
  BY <1>9 DEF Dies
<1>10. CASE Lost(w)
  BY <1>10 DEF Lost, FirstStatement
<1> QED
  BY <1>1, <1>2, <1>3, <1>4, <1>5, <1>6, <1>7, <1>8, <1>9, <1>10 DEF HandlerAction, Handle

-----------------------------------------------------------------------------
(***************************************************************************)
(* Types                                                                   *)
(***************************************************************************)

LEMMA InitTypes == Init => TypeOK
  BY SyncAssumption DEF Init, TypeOK, Services, Statements

LEMMA SendTypes ==
    ASSUME TypeOK, NEW q \in Posts, Send(q)
    PROVE  TypeOK'
<1>1. FirstStatement(q) \in Statements
  BY DEF FirstStatement, Statements
<1>2. work' \in [Id -> Statements \union {"none"}]
  BY <1>1 DEF Send, TypeOK
<1> QED
  BY <1>2 DEF Send, TypeOK, tables

LEMMA TimeoutTypes ==
    ASSUME TypeOK, NEW q \in Posts, Timeout(q)
    PROVE  TypeOK'
  BY DEF Timeout, TypeOK, tables

LEMMA HandlerTypes ==
    ASSUME TypeOK, NEW w \in Id, NEW next \in Statements \union {"none"},
           StepOf(w, next), Counts(w)
    PROVE  TypeOK'
<1> USE OfRequest
<1>1. dangKy' \in [Students -> [Sections -> Id \union {NoId}]]
  <2>1. Sv(w) \in Students /\ Lhp(w) \in Sections
    OBVIOUS
  <2>2. \A c \in Id \union {NoId} :
            [dangKy EXCEPT ![Sv(w)][Lhp(w)] = c] \in [Students -> [Sections -> Id \union {NoId}]]
    BY <2>1, PutCell DEF TypeOK
  <2>3. w \in Id \union {NoId} /\ NoId \in Id \union {NoId}
    OBVIOUS
  <2> QED
    BY <2>2, <2>3 DEF TypeOK, StepOf, Writes
<1>2. counter' \in [Sections -> Int]
  BY DEF TypeOK, Counts
<1>3. crowd' \in [Sections -> Nat]
  <2>1. Cardinality(Handlers(Lhp(w))) \in Nat
    BY HandlersCount
  <2>2. Larger(crowd[Lhp(w)], Cardinality(Handlers(Lhp(w))) + 1) \in Nat
    BY <2>1 DEF TypeOK, Larger
  <2> QED
    BY <2>2 DEF TypeOK, Counts
<1>4. failures' \in 0..MaxFaults
  <2>1. Cardinality({q \in Posts : posts[q] = "timeout"}) \in Nat
    BY SyncAssumption, FS_Subset, FS_CardinalityType
  <2> QED
    BY <2>1, SyncAssumption DEF TypeOK, Counts, FaultLeft
<1>5. work' \in [Id -> Statements \union {"none"}]
  BY DEF TypeOK, StepOf
<1>6. /\ posts' \in [Posts -> {"new", "waiting", "ok", "error", "timeout"}]
      /\ told' \in [Posts -> Id \union {NoId}]
      /\ \A q \in Posts : posts'[q] = "ok" => told'[q] \in {q} \X Pods
  <2>1. w[1] \in Posts /\ w \in {w[1]} \X Pods
    OBVIOUS
  <2>2. CASE UNCHANGED gateway
    BY <2>2 DEF TypeOK, gateway
  <2>3. CASE /\ posts' = [posts EXCEPT ![w[1]] = "error"]
             /\ told' = [told EXCEPT ![w[1]] = NoId]
    BY <2>1, <2>3 DEF TypeOK
  <2>4. CASE /\ posts' = [posts EXCEPT ![w[1]] = "ok"]
             /\ told' = [told EXCEPT ![w[1]] = w]
    BY <2>1, <2>4 DEF TypeOK
  <2> QED
    BY <2>2, <2>3, <2>4 DEF StepOf, Tells
<1>7. service' \in Services
  BY DEF TypeOK, StepOf
<1> QED
  BY <1>1, <1>2, <1>3, <1>4, <1>5, <1>6, <1>7 DEF TypeOK

LEMMA StutterTypes == TypeOK /\ UNCHANGED vars => TypeOK'
  BY DEF TypeOK, vars, tables, gateway

\* Every step is the sending or the time-out of a request, or an action of a
\* handler.
LEMMA Steps ==
    ASSUME TypeOK, [Next]_vars
    PROVE  \/ \E q \in Posts : Send(q) \/ Timeout(q)
           \/ \E w \in Id, next \in Statements \union {"none"} : StepOf(w, next) /\ Counts(w)
           \/ UNCHANGED vars
  BY HandlerSteps DEF Next, HandlerAction

\* For any students, requests, pods, faults and time-outs, the state of both
\* services has its type, and a success comes with an identifier.
THEOREM TypeCorrect == Spec => []TypeOK
<1>1. TypeOK /\ [Next]_vars => TypeOK'
  BY Steps, SendTypes, TimeoutTypes, HandlerTypes, StutterTypes
<1> QED
  BY <1>1, InitTypes, PTL DEF Spec

-----------------------------------------------------------------------------
(***************************************************************************)
(* What is on file                                                         *)
(***************************************************************************)

SameKey(x, q) == Ask[x].sv = Ask[q].sv /\ Ask[x].lhp = Ask[q].lhp

Row(q) == dangKy[Ask[q].sv][Ask[q].lhp]

\* No cancellation of the row of a request was sent, and no other
\* registration for it.
NoHuy(q) ==
    \A x \in Posts : Ask[x].kind = "HUY" /\ SameKey(x, q) => posts[x] = "new"

Only(q) ==
    \A x \in Posts : Ask[x].kind = "DANG_KY" /\ SameKey(x, q) /\ posts[x] # "new" => x = q

\* A handler works for a request that was sent, on a statement of its kind.
Kinded ==
    \A w \in Id :
        /\ work[w] \in {"dem", "trung", "them", "tang"} => Ask[w[1]].kind = "DANG_KY"
        /\ work[w] \in {"tim", "xoa", "giam"} => Ask[w[1]].kind = "HUY"
        /\ work[w] # "none" => posts[w[1]] # "new"

\* The row is there as soon as it is inserted, and while the request is a
\* success.
Filed ==
    /\ \A w \in Id : work[w] = "tang" /\ NoHuy(w[1]) => Row(w[1]) # NoId
    /\ \A q \in Posts :
           Ask[q].kind = "DANG_KY" /\ posts[q] = "ok" /\ NoHuy(q) => Row(q) # NoId

\* Behind the queue group one handler works for a request, until it answers.
OneHandler ==
    service = "js" =>
        /\ \A w, x \in Id :
               w[1] = x[1] /\ work[w] # "none" /\ work[x] # "none" => w = x
        /\ \A w \in Id : posts[w[1]] \in {"ok", "error"} => work[w] = "none"

\* And the row it has inserted, or has told of, is its own.
OwnRow ==
    service = "js" =>
        /\ \A w \in Id : work[w] = "tang" /\ NoHuy(w[1]) /\ Only(w[1]) => Row(w[1]) = w
        /\ \A q \in Posts :
               Ask[q].kind = "DANG_KY" /\ posts[q] = "ok" /\ NoHuy(q) /\ Only(q)
                 => Row(q) = told[q]

IInv == TypeOK /\ Kinded /\ Filed /\ OneHandler /\ OwnRow

LEMMA InitInvariant == Init => IInv
<1> SUFFICES ASSUME Init PROVE IInv
  OBVIOUS
<1>1. /\ \A w \in Id : work[w] = "none"
      /\ \A q \in Posts : posts[q] = "new"
  BY DEF Init
<1> QED
  BY <1>1, InitTypes DEF IInv, Kinded, Filed, OneHandler, OwnRow

-----------------------------------------------------------------------------

\* A request that was sent stays sent: what holds without a cancellation, or
\* for the only registration, held before too.
LEMMA SentStaysSent ==
    ASSUME \A x \in Posts : posts[x] # "new" => posts'[x] # "new", NEW q \in Posts
    PROVE  /\ NoHuy(q)' => NoHuy(q)
           /\ Only(q)' => Only(q)
  BY DEF NoHuy, Only, SameKey

\* What a statement of a handler does to the row of a request.
LEMMA RowAfter ==
    ASSUME TypeOK, NEW w \in Id, NEW next, StepOf(w, next), NEW q \in Posts
    PROVE  \/ Row(q)' = Row(q)
           \/ work[w] = "them" /\ SameKey(w[1], q) /\ Row(q)' = w
           \/ work[w] = "xoa" /\ SameKey(w[1], q) /\ Row(q)' = NoId
<1>1. Ask[q].sv \in Students /\ Ask[q].lhp \in Sections
  BY SyncAssumption DEF Request
<1>2. Sv(w) \in Students /\ Lhp(w) \in Sections
  BY OfRequest
<1>3. w \in Id \union {NoId} /\ NoId \in Id \union {NoId}
  OBVIOUS
<1>4. \A c \in Id \union {NoId} :
          dangKy' = [dangKy EXCEPT ![Sv(w)][Lhp(w)] = c] =>
              Row(q)' = IF SameKey(w[1], q) THEN c ELSE Row(q)
  BY <1>1, <1>2, PutCell DEF TypeOK, Row, SameKey, Sv, Lhp
<1> QED
  BY <1>3, <1>4 DEF StepOf, Writes, Row

LEMMA InsertedRow ==
    ASSUME TypeOK, NEW w \in Id, StepOf(w, "tang")
    PROVE  Row(w[1])' = w
<1>1. Sv(w) \in Students /\ Lhp(w) \in Sections
  BY OfRequest
<1>2. dangKy' = [dangKy EXCEPT ![Sv(w)][Lhp(w)] = w]
  BY DEF StepOf
<1>3. w \in Id \union {NoId}
  OBVIOUS
<1>4. dangKy'[Sv(w)][Lhp(w)] = w
  BY <1>1, <1>2, <1>3, PutCell DEF TypeOK
<1> QED
  BY <1>4 DEF Row, Sv, Lhp

LEMMA SendKeeps ==
    ASSUME IInv, NEW q \in Posts, Send(q)
    PROVE  IInv'
<1> USE DEF IInv
<1>1. TypeOK'
  BY SendTypes
<1>2. /\ posts[q] = "new" /\ posts' = [posts EXCEPT ![q] = "waiting"]
      /\ UNCHANGED <<service, dangKy, told>>
  BY DEF Send, tables
<1>3. \A x \in Posts : posts[x] # "new" => posts'[x] # "new"
  BY <1>2 DEF TypeOK
<1>4. \A w \in Id : w[1] = q => work[w] = "none"
  BY <1>2 DEF Kinded
<1>5. \A w \in Id : \/ work'[w] = work[w]
                    \/ w[1] = q /\ work'[w] = FirstStatement(q)
  <2>1. PICK ps \in Receivers : \A w \in Id :
            work'[w] = IF w[1] = q /\ w[2] \in ps THEN FirstStatement(q) ELSE work[w]
    BY DEF Send
  <2> QED
    BY <2>1
<1>6. FirstStatement(q) \in {"dem", "them", "tim", "xoa"}
  BY DEF FirstStatement
<1>7. /\ FirstStatement(q) \in {"dem", "them"} => Ask[q].kind = "DANG_KY"
      /\ FirstStatement(q) \in {"tim", "xoa"} => Ask[q].kind = "HUY"
  BY SyncAssumption DEF FirstStatement, Request
<1>8. \A w \in Id : w[1] \in Posts
  BY OfRequest
<1>9. Kinded'
  BY <1>2, <1>3, <1>5, <1>6, <1>7, <1>8 DEF Kinded, TypeOK
<1>10. \A x \in Posts : Row(x)' = Row(x)
  BY <1>2 DEF Row
<1>11. \A x \in Posts : posts'[x] = "ok" => posts[x] = "ok"
  BY <1>2 DEF TypeOK
<1>12. \A w \in Id : work'[w] = "tang" => work[w] = "tang"
  BY <1>5, <1>6
<1>13. Filed'
  BY <1>3, <1>8, <1>10, <1>11, <1>12, SentStaysSent DEF Filed
<1>14. OneHandler'
  <2> SUFFICES ASSUME service = "js" PROVE OneHandler'
    BY <1>2 DEF OneHandler
  <2>0. PICK ps \in Receivers : \A w \in Id :
            work'[w] = IF w[1] = q /\ w[2] \in ps THEN FirstStatement(q) ELSE work[w]
    BY DEF Send
  <2>1. PICK p \in Pods : \A w \in Id :
            work'[w] = IF w[1] = q /\ w[2] = p THEN FirstStatement(q) ELSE work[w]
    BY <2>0 DEF Receivers
  <2>2. \A w, x \in Id : w[1] = x[1] /\ work'[w] # "none" /\ work'[x] # "none" => w = x
    BY <2>1, <1>4, OfRequest DEF OneHandler
  <2>3. \A w \in Id : posts'[w[1]] \in {"ok", "error"} => work'[w] = "none"
    BY <2>1, <1>2, <1>8 DEF OneHandler, TypeOK
  <2> QED
    BY <2>2, <2>3 DEF OneHandler
<1>15. OwnRow'
  BY <1>2, <1>3, <1>8, <1>10, <1>11, <1>12, SentStaysSent DEF OwnRow
<1> QED
  BY <1>1, <1>9, <1>13, <1>14, <1>15

LEMMA TimeoutKeeps ==
    ASSUME IInv, NEW q \in Posts, Timeout(q)
    PROVE  IInv'
<1> USE DEF IInv
<1>1. TypeOK'
  BY TimeoutTypes
<1>2. /\ posts[q] = "waiting" /\ posts' = [posts EXCEPT ![q] = "timeout"]
      /\ UNCHANGED <<service, dangKy, told, work>>
  BY DEF Timeout, tables
<1>3. \A x \in Posts : posts[x] # "new" => posts'[x] # "new"
  BY <1>2 DEF TypeOK
<1>4. \A x \in Posts : posts'[x] \in {"ok", "error"} => posts'[x] = posts[x]
  BY <1>2 DEF TypeOK
<1>5. \A w \in Id : w[1] \in Posts
  BY OfRequest
<1>6. \A x \in Posts : Row(x)' = Row(x)
  BY <1>2 DEF Row
<1>7. Kinded'
  BY <1>2, <1>3, <1>5 DEF Kinded
<1>8. Filed'
  BY <1>2, <1>3, <1>4, <1>5, <1>6, SentStaysSent DEF Filed
<1>9. OneHandler'
  BY <1>2, <1>4, <1>5 DEF OneHandler
<1>10. OwnRow'
  BY <1>2, <1>3, <1>4, <1>5, <1>6, SentStaysSent DEF OwnRow
<1> QED
  BY <1>1, <1>7, <1>8, <1>9, <1>10

LEMMA HandlerKeeps ==
    ASSUME IInv, NEW w \in Id, NEW next \in Statements \union {"none"},
           StepOf(w, next), Counts(w)
    PROVE  IInv'
<1> USE DEF IInv
<1>1. TypeOK'
  BY HandlerTypes
<1>2. /\ work[w] # "none" /\ UNCHANGED service /\ Follows(work[w], next)
      /\ \A x \in Id : work'[x] = IF x = w THEN next ELSE work[x]
  BY DEF StepOf, TypeOK
<1>3. /\ \A x \in Id : x[1] \in Posts
      /\ w[1] \in Posts
  BY OfRequest
\* Either the handler tells nothing, or it is done.
<1>4. \/ UNCHANGED <<posts, told>>
      \/ /\ next = "none" /\ posts[w[1]] = "waiting"
         /\ \A x \in Posts \ {w[1]} : posts'[x] = posts[x] /\ told'[x] = told[x]
         /\ \/ posts'[w[1]] = "error"
            \/ /\ posts'[w[1]] = "ok" /\ told'[w[1]] = w
               /\ work[w] \in {"tang", "giam"} /\ UNCHANGED dangKy
  BY <1>3 DEF StepOf, Tells, gateway, TypeOK
<1>5. \A x \in Posts : posts[x] # "new" => posts'[x] # "new"
  BY <1>4
<1>6. \A x \in Posts : posts'[x] = "ok" =>
          \/ posts[x] = "ok" /\ told'[x] = told[x]
          \/ x = w[1] /\ told'[x] = w /\ work[w] \in {"tang", "giam"} /\ UNCHANGED dangKy
  BY <1>4
<1>7. Kinded'
  <2> SUFFICES ASSUME NEW x \in Id
               PROVE  /\ work'[x] \in {"dem", "trung", "them", "tang"} => Ask[x[1]].kind = "DANG_KY"
                      /\ work'[x] \in {"tim", "xoa", "giam"} => Ask[x[1]].kind = "HUY"
                      /\ work'[x] # "none" => posts'[x[1]] # "new"
    BY DEF Kinded
  <2>1. work'[x] # "none" => posts'[x[1]] # "new"
    BY <1>2, <1>3, <1>5 DEF Kinded
  <2>2. /\ work'[x] \in {"dem", "trung", "them", "tang"} => Ask[x[1]].kind = "DANG_KY"
        /\ work'[x] \in {"tim", "xoa", "giam"} => Ask[x[1]].kind = "HUY"
    BY <1>2 DEF Kinded, Follows
  <2> QED
    BY <2>1, <2>2
\* A row that is deleted has a cancellation; one that is overwritten has
\* another handler of a registration.
<1>8. \A q \in Posts : NoHuy(q)' =>
          \/ Row(q)' = Row(q)
          \/ work[w] = "them" /\ SameKey(w[1], q) /\ Row(q)' = w
  <2> TAKE q \in Posts
  <2> HAVE NoHuy(q)'
  <2>1. NoHuy(q)
    BY <1>5, SentStaysSent
  <2>2. ~(work[w] = "xoa" /\ SameKey(w[1], q))
    BY <2>1, <1>3 DEF Kinded, NoHuy
  <2> QED
    BY <2>2, RowAfter
<1>9. w # NoId
  BY SyncAssumption
<1>10. next = "tang" => Row(w[1])' = w
  BY InsertedRow
<1>11. Filed'
  <2>1. ASSUME NEW x \in Id, work'[x] = "tang", NoHuy(x[1])'
        PROVE  Row(x[1])' # NoId
    <3>1. CASE x = w
      BY <3>1, <2>1, <1>2, <1>9, <1>10
    <3>2. CASE x # w
      BY <3>2, <2>1, <1>2, <1>3, <1>5, <1>8, <1>9, SentStaysSent DEF Filed
    <3> QED
      BY <3>1, <3>2
  <2>2. ASSUME NEW q \in Posts, Ask[q].kind = "DANG_KY", posts'[q] = "ok", NoHuy(q)'
        PROVE  Row(q)' # NoId
    <3>1. NoHuy(q)
      BY <2>2, <1>5, SentStaysSent
    <3>2. CASE posts[q] = "ok"
      BY <3>1, <3>2, <2>2, <1>8, <1>9 DEF Filed
    <3>3. CASE q = w[1] /\ work[w] \in {"tang", "giam"} /\ UNCHANGED dangKy
      <4>1. work[w] = "tang"
        BY <3>3, <2>2 DEF Kinded
      <4> QED
        BY <4>1, <3>1, <3>3 DEF Filed, Row
    <3> QED
      BY <3>2, <3>3, <2>2, <1>6
  <2> QED
    BY <2>1, <2>2 DEF Filed
<1>12. OneHandler'
  <2> SUFFICES ASSUME service = "js" PROVE OneHandler'
    BY <1>2 DEF OneHandler
  <2>1. \A x \in Id : work'[x] # "none" => work[x] # "none"
    BY <1>2
  <2>2. \A x, y \in Id : x[1] = y[1] /\ work'[x] # "none" /\ work'[y] # "none" => x = y
    BY <2>1 DEF OneHandler
  <2>3. ASSUME NEW x \in Id, posts'[x[1]] \in {"ok", "error"}
        PROVE  work'[x] = "none"
    <3>1. CASE posts[x[1]] \in {"ok", "error"}
      BY <3>1, <2>1 DEF OneHandler
    <3>2. CASE x[1] = w[1] /\ next = "none"
      BY <3>2, <1>2 DEF OneHandler
    <3> QED
      BY <3>1, <3>2, <2>3, <1>3, <1>4
  <2> QED
    BY <2>2, <2>3 DEF OneHandler
<1>13. OwnRow'
  <2> SUFFICES ASSUME service = "js" PROVE OwnRow'
    BY <1>2 DEF OwnRow
  \* Of the only registration for a row, only its own handler writes it.
  <2>1. ASSUME NEW q \in Posts, NoHuy(q)', Only(q)'
        PROVE  \/ Row(q)' = Row(q)
               \/ work[w] = "them" /\ w[1] = q /\ Row(q)' = w
    <3>1. Only(q)
      BY <2>1, <1>5, SentStaysSent
    <3>2. work[w] = "them" /\ SameKey(w[1], q) => w[1] = q
      BY <3>1, <1>3 DEF Kinded, Only
    <3> QED
      BY <3>2, <2>1, <1>8
  <2>2. ASSUME NEW x \in Id, work'[x] = "tang", NoHuy(x[1])', Only(x[1])'
        PROVE  Row(x[1])' = x
    <3>1. CASE x = w
      BY <3>1, <2>2, <1>2, <1>10
    <3>2. CASE x # w
      <4>1. work[x] = "tang"
        BY <3>2, <2>2, <1>2
      <4>2. w[1] # x[1]
        BY <4>1, <3>2, <1>2 DEF OneHandler
      <4>3. Row(x[1])' = Row(x[1])
        BY <4>2, <2>1, <2>2, <1>3
      <4> QED
        BY <4>1, <4>3, <2>2, <1>3, <1>5, SentStaysSent DEF OwnRow
    <3> QED
      BY <3>1, <3>2
  <2>3. ASSUME NEW q \in Posts, Ask[q].kind = "DANG_KY", posts'[q] = "ok", NoHuy(q)', Only(q)'
        PROVE  Row(q)' = told'[q]
    <3>1. NoHuy(q) /\ Only(q)
      BY <2>3, <1>5, SentStaysSent
    <3>2. CASE posts[q] = "ok" /\ told'[q] = told[q]
      <4>1. w[1] # q
        BY <3>2, <1>2 DEF OneHandler
      <4> QED
        BY <4>1, <3>1, <3>2, <2>1, <2>3 DEF OwnRow
    <3>3. CASE q = w[1] /\ told'[q] = w /\ work[w] \in {"tang", "giam"} /\ UNCHANGED dangKy
      <4>1. work[w] = "tang"
        BY <3>3, <2>3 DEF Kinded
      <4> QED
        BY <4>1, <3>1, <3>3 DEF OwnRow, Row
    <3> QED
      BY <3>2, <3>3, <2>3, <1>6
  <2> QED
    BY <2>2, <2>3 DEF OwnRow
<1> QED
  BY <1>1, <1>7, <1>11, <1>12, <1>13

LEMMA StutterKeeps == IInv /\ UNCHANGED vars => IInv'
<1> SUFFICES ASSUME IInv, UNCHANGED vars PROVE IInv'
  OBVIOUS
<1>1. TypeOK'
  BY StutterTypes DEF IInv
<1>2. UNCHANGED <<service, dangKy, posts, told, work>>
  BY DEF vars, tables, gateway
<1>3. Kinded' /\ OneHandler'
  BY <1>2 DEF IInv, Kinded, OneHandler
<1>4. Filed' /\ OwnRow'
  BY <1>2 DEF IInv, Filed, OwnRow, Row, NoHuy, Only, SameKey
<1> QED
  BY <1>1, <1>3, <1>4 DEF IInv

LEMMA Invariant == Spec => []IInv
<1>1. IInv /\ [Next]_vars => IInv'
  BY Steps, SendKeeps, TimeoutKeeps, HandlerKeeps, StutterKeeps DEF IInv
<1> QED
  BY <1>1, InitInvariant, PTL DEF Spec

\* For any requests, pods, faults and time-outs, and in both services: a
\* student who was told of success is on file until a cancellation is asked
\* for.
THEOREM SuccessIsOnFile == Spec => []SuccessOnFile
<1>1. IInv => SuccessOnFile
  BY DEF IInv, Filed, SuccessOnFile, SentBy, SentFor, NoHuy, SameKey, Row
<1> QED
  BY <1>1, Invariant, PTL

\* For any number of pods behind the queue group: the ma_dang_ky that a
\* student was given is the one on file, if the request was the only one.
THEOREM IdentifierIsOnFile == Spec => []IdentifierOnFile
<1>1. IInv => IdentifierOnFile
  BY DEF IInv, OwnRow, IdentifierOnFile, SentBy, SentFor, NoHuy, Only, SameKey, Row
<1> QED
  BY <1>1, Invariant, PTL

-----------------------------------------------------------------------------
(***************************************************************************)
(* Counting the handlers of a request                                      *)
(***************************************************************************)

\* A handler that may still change a row or find one.
Early == {"dem", "trung", "them", "tim", "xoa"}

\* What Repeats counts: a request behind the queue group once, one that every
\* pod gets once in each pod.
UnitOf(w) == <<w[1], IF service = "js" THEN NoId ELSE w[2]>>

UnitsFor(kind, lhp) == SentFor(kind, lhp) \X (IF service = "js" THEN {NoId} ELSE Pods)

\* Those that have changed a row by now, or will not.
Done(kind, lhp) ==
    {u \in UnitsFor(kind, lhp) : ~\E w \in Id : UnitOf(w) = u /\ work[w] \in Early}

StudentsOf(U) == {Ask[u[1]].sv : u \in U}

\* Repeats, of what is done.
Spent(kind, lhp) ==
    IF service = "go" /\ kind = "HUY" THEN Cardinality(Done(kind, lhp))
    ELSE Cardinality(Done(kind, lhp)) - Cardinality(StudentsOf(Done(kind, lhp)))

\* The students of finitely many handlers are no more than these.
LEMMA StudentsFinite ==
    ASSUME NEW U, IsFiniteSet(U)
    PROVE  /\ IsFiniteSet(StudentsOf(U)) /\ Cardinality(StudentsOf(U)) \in Nat
           /\ Cardinality(U) \in Nat /\ Cardinality(StudentsOf(U)) <= Cardinality(U)
<1>1. [u \in U |-> Ask[u[1]].sv] \in Surjection(U, StudentsOf(U))
  BY DEF Surjection, StudentsOf
<1>2. IsFiniteSet(StudentsOf(U)) /\ Cardinality(StudentsOf(U)) <= Cardinality(U)
  BY <1>1, FS_Surjection
<1> QED
  BY <1>2, FS_CardinalityType

\* One more: spare if its student had one before.
LEMMA OneMore ==
    ASSUME NEW U, IsFiniteSet(U), NEW u, u \notin U, NEW V, V = U \union {u}
    PROVE  /\ Cardinality(V) = Cardinality(U) + 1
           /\ Cardinality(StudentsOf(V)) \in Nat
           /\ Cardinality(StudentsOf(V)) <= Cardinality(StudentsOf(U)) + 1
           /\ Ask[u[1]].sv \in StudentsOf(U) => Cardinality(StudentsOf(V)) = Cardinality(StudentsOf(U))
<1>1. StudentsOf(V) = StudentsOf(U) \union {Ask[u[1]].sv}
  BY DEF StudentsOf
<1>2. IsFiniteSet(StudentsOf(U)) /\ Cardinality(StudentsOf(U)) \in Nat
  BY StudentsFinite
<1>3. Cardinality(V) = Cardinality(U) + 1
  BY FS_AddElement
<1>4. /\ IsFiniteSet(StudentsOf(V))
      /\ Cardinality(StudentsOf(V)) =
             IF Ask[u[1]].sv \in StudentsOf(U) THEN Cardinality(StudentsOf(U))
             ELSE Cardinality(StudentsOf(U)) + 1
  <2> DEFINE T == StudentsOf(U)
             sv == Ask[u[1]].sv
  <2>1. IsFiniteSet(T) /\ StudentsOf(V) = T \union {sv}
    BY <1>1, <1>2
  <2> HIDE DEF T, sv
  <2>2. /\ IsFiniteSet(T \union {sv})
        /\ Cardinality(T \union {sv}) = IF sv \in T THEN Cardinality(T) ELSE Cardinality(T) + 1
    BY <2>1, FS_AddElement
  <2> QED
    BY <2>1, <2>2 DEF T, sv
<1> QED
  BY <1>2, <1>3, <1>4, FS_CardinalityType

\* The spare ones of a set are spare in a larger one.
LEMMA SpareGrows ==
    ASSUME NEW V, IsFiniteSet(V), NEW U \in SUBSET V
    PROVE  Cardinality(U) - Cardinality(StudentsOf(U)) <= Cardinality(V) - Cardinality(StudentsOf(V))
<1> DEFINE W == V \ U
           more == StudentsOf(V) \ StudentsOf(U)
<1>1. IsFiniteSet(U) /\ IsFiniteSet(W) /\ W \in SUBSET V
  BY FS_Subset
<1>2. /\ Cardinality(U) \in Nat /\ Cardinality(V) \in Nat
      /\ IsFiniteSet(StudentsOf(V)) /\ Cardinality(StudentsOf(V)) \in Nat
      /\ IsFiniteSet(StudentsOf(U)) /\ Cardinality(StudentsOf(U)) \in Nat
      /\ IsFiniteSet(StudentsOf(W)) /\ Cardinality(StudentsOf(W)) \in Nat
      /\ Cardinality(StudentsOf(W)) <= Cardinality(W) /\ Cardinality(W) \in Nat
  BY <1>1, StudentsFinite
<1>3. Cardinality(W) = Cardinality(V) - Cardinality(U)
  <2>1. V \intersect U = U
    OBVIOUS
  <2> QED
    BY <2>1, FS_Difference
<1>4. Cardinality(more) = Cardinality(StudentsOf(V)) - Cardinality(StudentsOf(U))
  <2>1. StudentsOf(V) \intersect StudentsOf(U) = StudentsOf(U)
    BY DEF StudentsOf
  <2> QED
    BY <1>2, <2>1, FS_Difference
<1>5. Cardinality(more) <= Cardinality(StudentsOf(W))
  <2>1. more \in SUBSET StudentsOf(W)
    BY DEF StudentsOf
  <2> QED
    BY <1>2, <2>1, FS_Subset
<1> HIDE DEF W, more
<1> QED
  BY <1>2, <1>3, <1>4, <1>5

\* The handlers are finitely many.
LEMMA UnitsFinite ==
    ASSUME NEW kind, NEW lhp
    PROVE  /\ IsFiniteSet(UnitsFor(kind, lhp)) /\ IsFiniteSet(Done(kind, lhp))
           /\ Done(kind, lhp) \in SUBSET UnitsFor(kind, lhp)
<1>1. SentFor(kind, lhp) \in SUBSET Posts
  BY DEF SentFor
<1>2. IsFiniteSet(SentFor(kind, lhp)) /\ IsFiniteSet(IF service = "js" THEN {NoId} ELSE Pods)
  BY <1>1, SyncAssumption, FS_Subset, FS_Singleton
<1>3. IsFiniteSet(UnitsFor(kind, lhp))
  BY <1>2, FS_Product DEF UnitsFor
<1>4. Done(kind, lhp) \in SUBSET UnitsFor(kind, lhp)
  BY DEF Done
<1> QED
  BY <1>3, <1>4, FS_Subset

\* What is spent is a number, and no more than Repeats.
LEMMA SpentWithin ==
    ASSUME service \in Services, NEW kind \in Kinds, NEW lhp
    PROVE  Spent(kind, lhp) \in Nat /\ Spent(kind, lhp) <= Repeats(kind, lhp) /\ Repeats(kind, lhp) \in Nat
<1> DEFINE S == SentFor(kind, lhp)
           U == UnitsFor(kind, lhp)
           D == Done(kind, lhp)
<1>1. /\ IsFiniteSet(U) /\ IsFiniteSet(D) /\ D \in SUBSET U
      /\ Cardinality(D) \in Nat /\ Cardinality(StudentsOf(D)) \in Nat
      /\ Cardinality(StudentsOf(D)) <= Cardinality(D)
      /\ Cardinality(U) \in Nat /\ Cardinality(StudentsOf(U)) \in Nat
  BY UnitsFinite, StudentsFinite
<1>2. Cardinality(D) <= Cardinality(U)
  BY <1>1, FS_Subset
<1>3. Cardinality(D) - Cardinality(StudentsOf(D)) <= Cardinality(U) - Cardinality(StudentsOf(U))
  BY <1>1, SpareGrows
<1>4. IsFiniteSet(S) /\ Cardinality(S) \in Nat /\ Cardinality(Pods) \in Nat
  <2>1. S \in SUBSET Posts
    BY DEF SentFor
  <2> QED
    BY <2>1, SyncAssumption, FS_Subset, FS_CardinalityType
<1>5. StudentsOf(U) = {Ask[q].sv : q \in S}
  <2> DEFINE P == IF service = "js" THEN {NoId} ELSE Pods
  <2>1. U = S \X P /\ P # {}
    BY SyncAssumption DEF UnitsFor
  <2> HIDE DEF P, U, S
  <2>2. ASSUME NEW sv \in StudentsOf(U) PROVE sv \in {Ask[q].sv : q \in S}
    BY <2>1 DEF StudentsOf
  <2>3. ASSUME NEW q \in S PROVE Ask[q].sv \in StudentsOf(U)
    <3>1. PICK p \in P : TRUE
      BY <2>1
    <3>2. <<q, p>> \in U /\ <<q, p>>[1] = q
      BY <2>1, <3>1
    <3> QED
      BY <3>2 DEF StudentsOf
  <2> QED
    BY <2>2, <2>3
<1>6. Cardinality(U) = IF service = "js" THEN Cardinality(S) ELSE Cardinality(S) * Cardinality(Pods)
  <2>1. IsFiniteSet({NoId}) /\ Cardinality({NoId}) = 1
    BY FS_Singleton
  <2>2. service = "js" => Cardinality(U) = Cardinality(S) * 1
    BY <1>4, <2>1, FS_Product DEF UnitsFor
  <2>3. service # "js" => Cardinality(U) = Cardinality(S) * Cardinality(Pods)
    BY <1>4, SyncAssumption, FS_Product DEF UnitsFor
  <2> QED
    BY <1>4, <2>2, <2>3
<1>7. Repeats(kind, lhp) =
          IF service = "js" THEN Cardinality(S) - Cardinality(StudentsOf(U))
          ELSE Cardinality(S) * Cardinality(Pods)
                 - (IF kind = "HUY" THEN 0 ELSE Cardinality(StudentsOf(U)))
  BY <1>5 DEF Repeats
<1>8. Spent(kind, lhp) =
          IF service = "go" /\ kind = "HUY" THEN Cardinality(D)
          ELSE Cardinality(D) - Cardinality(StudentsOf(D))
  BY DEF Spent
<1>9. service \in {"js", "go"}
  BY DEF Services
<1> HIDE DEF S, U, D
<1> DEFINE all == Cardinality(S) * Cardinality(Pods)
<1>10. service # "js" => all = Cardinality(U)
  BY <1>6
<1>11. Repeats(kind, lhp) =
          IF service = "go" /\ kind = "HUY" THEN Cardinality(U)
          ELSE Cardinality(U) - Cardinality(StudentsOf(U))
  <2> HIDE DEF all
  <2>1. Repeats(kind, lhp) =
            IF service = "js" THEN Cardinality(S) - Cardinality(StudentsOf(U))
            ELSE all - (IF kind = "HUY" THEN 0 ELSE Cardinality(StudentsOf(U)))
    BY <1>7 DEF all
  <2> QED
    BY <1>1, <1>6, <1>9, <1>10, <2>1
<1> QED
  BY <1>1, <1>2, <1>3, <1>8, <1>11

-----------------------------------------------------------------------------
(***************************************************************************)
(* What a step of a handler does to a row and its counter                  *)
(***************************************************************************)

\* Neither a row nor a count changes, and none is on its way.
Looks(w) ==
    /\ work[w] \notin {"tang", "giam"} /\ work'[w] \notin {"tang", "giam"}
    /\ UNCHANGED <<dangKy, counter, failures>>

\* A row is written, and its count is on its way.
WritesRow(w) ==
    /\ UNCHANGED <<counter, failures>>
    /\ \/ /\ work[w] = "them" /\ work'[w] = "tang"
          /\ dangKy' = [dangKy EXCEPT ![Sv(w)][Lhp(w)] = w]
       \/ /\ work[w] = "xoa" /\ work'[w] = "giam"
          /\ dangKy' = [dangKy EXCEPT ![Sv(w)][Lhp(w)] = NoId]

\* The count arrives.
CountsRow(w) ==
    /\ UNCHANGED dangKy /\ work'[w] = "none"
    /\ \/ work[w] = "tang" /\ counter' = [counter EXCEPT ![Lhp(w)] = counter[Lhp(w)] + 1]
       \/ work[w] = "giam" /\ counter' = [counter EXCEPT ![Lhp(w)] = counter[Lhp(w)] - 1]

\* The handler ends too early, with the effect of its statement or without.
Breaks(w) ==
    /\ work'[w] = "none" /\ failures' = failures + 1
    /\ \/ UNCHANGED tables
       \/ /\ UNCHANGED counter /\ work[w] = "them"
          /\ dangKy' = [dangKy EXCEPT ![Sv(w)][Lhp(w)] = w]
       \/ /\ UNCHANGED counter /\ work[w] = "xoa"
          /\ dangKy' = [dangKy EXCEPT ![Sv(w)][Lhp(w)] = NoId]
       \/ CountsRow(w)

\* A handler passes the check of the counter while a seat is free.
Passes(w) ==
    /\ work[w] = "dem" /\ work'[w] = "trung"
    /\ UNCHANGED counter
    /\ counter[Lhp(w)] < SoLuongToiDa[Lhp(w)]
    /\ crowd' = [crowd EXCEPT ![Lhp(w)] =
                    Larger(crowd[Lhp(w)], Cardinality(Handlers(Lhp(w))) + 1)]

\* A look at the row comes before a cancellation behind the queue group.
SeesRow(w) ==
    work'[w] = "xoa" =>
        UNCHANGED dangKy /\ dangKy[Sv(w)][Lhp(w)] # NoId

\* Every action of a handler is one of these.
LEMMA LedgerSteps ==
    ASSUME TypeOK, NEW w \in Id, HandlerAction(w)
    PROVE  /\ Looks(w) \/ WritesRow(w) \/ (CountsRow(w) /\ UNCHANGED failures) \/ Breaks(w)
           /\ Passes(w) \/ (work'[w] # "trung" /\ UNCHANGED crowd)
           /\ SeesRow(w)
<1> USE DEF Goes, Answers, gateway, tables, Sv, Lhp, TypeOK
<1>1. CASE KiemTraSoLuong(w)
  <2>1. counter[Lhp(w)] \in Int /\ SoLuongToiDa[Lhp(w)] \in Nat
    BY OfRequest, SyncAssumption
  <2> QED
    BY <1>1, <2>1 DEF KiemTraSoLuong, Looks, Passes, SeesRow
<1>2. CASE KiemTraTrung(w)
  BY <1>2 DEF KiemTraTrung, Looks, SeesRow
<1>3. CASE DangKy(w)
  BY <1>3 DEF DangKy, Insert, WritesRow, SeesRow
<1>4. CASE TangCounter(w)
  BY <1>4 DEF TangCounter, Count, CountsRow, SeesRow
<1>5. CASE TimDangKy(w)
  BY <1>5 DEF TimDangKy, Looks, SeesRow
<1>6. CASE XoaDangKy(w)
  BY <1>6 DEF XoaDangKy, Delete, WritesRow, SeesRow
<1>7. CASE GiamCounter(w)
  BY <1>7 DEF GiamCounter, Count, CountsRow, SeesRow
<1>8. CASE Fails(w)
  BY <1>8 DEF Fails, Effect, Insert, Delete, Count, Breaks, CountsRow, SeesRow
<1>9. CASE Dies(w)
  BY <1>9 DEF Dies, Breaks, SeesRow
<1>10. CASE Lost(w)
  BY <1>10 DEF Lost, FirstStatement, Looks, SeesRow
<1> QED
  BY <1>1, <1>2, <1>3, <1>4, <1>5, <1>6, <1>7, <1>8, <1>9, <1>10 DEF HandlerAction, Handle

\* The requests that are done, after a step of a handler.
LEMMA DoneAfter ==
    ASSUME IInv, NEW w \in Id, NEW next \in Statements \union {"none"}, StepOf(w, next),
           NEW kind \in Kinds, NEW lhp \in Sections
    PROVE  /\ UnitsFor(kind, lhp)' = UnitsFor(kind, lhp)
           /\ Done(kind, lhp)' =
                  IF /\ work[w] \in Early /\ next \notin Early
                     /\ kind = Ask[w[1]].kind /\ lhp = Lhp(w)
                  THEN Done(kind, lhp) \union {UnitOf(w)} ELSE Done(kind, lhp)
           /\ work[w] \in Early => UnitOf(w) \notin Done(kind, lhp)
<1> USE DEF IInv
<1>1. /\ UNCHANGED service /\ Follows(work[w], next) /\ work[w] # "none"
      /\ \A x \in Id : work'[x] = IF x = w THEN next ELSE work[x]
  BY DEF StepOf, TypeOK
<1>2. \A q \in Posts : posts'[q] # "new" <=> posts[q] # "new"
  <2>1. w[1] \in Posts /\ posts[w[1]] # "new"
    BY <1>1, OfRequest DEF Kinded
  <2> QED
    BY <2>1 DEF StepOf, Tells, gateway, TypeOK
<1>3. SentFor(kind, lhp)' = SentFor(kind, lhp)
  BY <1>2 DEF SentFor
<1>4. UnitsFor(kind, lhp)' = UnitsFor(kind, lhp) /\ \A x \in Id : UnitOf(x)' = UnitOf(x)
  BY <1>1, <1>3 DEF UnitsFor, UnitOf
<1>5. work[w] \in Early => UnitOf(w) \notin Done(kind, lhp)
  BY DEF Done
<1>6. \A x \in Id : work[x] # "none" /\ UnitOf(x) = UnitOf(w) => x = w
  <2> TAKE x \in Id
  <2>1. x = <<x[1], x[2]>> /\ w = <<w[1], w[2]>>
    BY OfRequest
  <2>2. CASE service = "js"
    BY <1>1, <2>2 DEF OneHandler, UnitOf
  <2>3. CASE service # "js"
    BY <2>1, <2>3 DEF UnitOf
  <2> QED
    BY <2>2, <2>3
<1>7. UnitOf(w) \in UnitsFor(kind, lhp) <=> kind = Ask[w[1]].kind /\ lhp = Lhp(w)
  <2>1. w[1] \in Posts /\ w[2] \in Pods /\ posts[w[1]] # "new"
    BY <1>1, OfRequest DEF Kinded
  <2> QED
    BY <2>1 DEF UnitsFor, UnitOf, SentFor, Lhp
<1>8. next \in Early => work[w] \in Early
  BY <1>1 DEF Follows, Early
<1> DEFINE Busy(u) == \E x \in Id : UnitOf(x) = u /\ work[x] \in Early
           BusyNow(u) == \E x \in Id : UnitOf(x) = u /\ work'[x] \in Early
<1>9. \A u : u # UnitOf(w) => (BusyNow(u) <=> Busy(u))
  BY <1>1
<1>10. work[w] \in Early => Busy(UnitOf(w))
  OBVIOUS
<1>11. BusyNow(UnitOf(w)) <=> next \in Early
  <2>1. "none" \notin Early
    BY DEF Early
  <2> QED
    BY <1>1, <1>6, <2>1
<1>12. work[w] \notin Early => ~Busy(UnitOf(w))
  <2>1. "none" \notin Early
    BY DEF Early
  <2> QED
    BY <1>6, <2>1
<1>13. Done(kind, lhp) = {u \in UnitsFor(kind, lhp) : ~Busy(u)}
  BY DEF Done
<1>14. Done(kind, lhp)' = {u \in UnitsFor(kind, lhp) : ~BusyNow(u)}
  BY <1>4 DEF Done
<1> HIDE DEF Busy, BusyNow
<1> QED
  BY <1>4, <1>5, <1>7, <1>8, <1>9, <1>10, <1>11, <1>12, <1>13, <1>14

\* A request that is sent is not done: every handler of it is yet to work.
LEMMA DoneSend ==
    ASSUME IInv, NEW q \in Posts, Send(q), NEW kind, NEW lhp
    PROVE  Done(kind, lhp)' = Done(kind, lhp)
<1> USE DEF IInv
<1>1. posts[q] = "new" /\ posts' = [posts EXCEPT ![q] = "waiting"] /\ UNCHANGED service
  BY DEF Send
<1>2. PICK ps \in Receivers : \A x \in Id :
          work'[x] = IF x[1] = q /\ x[2] \in ps THEN FirstStatement(q) ELSE work[x]
  BY DEF Send
<1>3. FirstStatement(q) \in Early
  BY DEF FirstStatement, Early
<1>4. \A x \in Id : x[1] = q => work[x] = "none"
  BY <1>1 DEF Kinded
<1>5. \A x \in Id : UnitOf(x)' = UnitOf(x) /\ UnitOf(x)[1] = x[1]
  BY <1>1 DEF UnitOf
<1>6. \A u : u[1] # q => (u \in UnitsFor(kind, lhp)' <=> u \in UnitsFor(kind, lhp))
  <2>1. \A x \in Posts \ {q} : posts'[x] = posts[x]
    BY <1>1 DEF TypeOK
  <2>2. \A x : x # q => (x \in SentFor(kind, lhp)' <=> x \in SentFor(kind, lhp))
    BY <2>1 DEF SentFor
  <2> QED
    BY <1>1, <2>2 DEF UnitsFor
<1>7. \A u : u[1] = q => u \notin UnitsFor(kind, lhp)
  BY <1>1 DEF UnitsFor, SentFor
<1>8. ASSUME NEW u \in UnitsFor(kind, lhp)', u[1] = q
      PROVE  \E x \in Id : UnitOf(x)' = u /\ work'[x] \in Early
  <2>1. CASE service = "js"
    <3>1. PICK p \in Pods : ps = {p}
      BY <1>2, <2>1 DEF Receivers
    <3>2. <<q, p>> \in Id /\ UnitOf(<<q, p>>)' = <<q, NoId>>
      BY <1>1, <2>1 DEF Id, UnitOf
    <3>3. u = <<q, NoId>>
      BY <1>1, <1>8, <2>1 DEF UnitsFor
    <3> QED
      BY <1>2, <1>3, <3>1, <3>2, <3>3
  <2>2. CASE service # "js"
    <3>1. ps = Pods
      BY <1>2, <2>2 DEF Receivers
    <3>2. u \in Id /\ u[2] \in Pods /\ UnitOf(u)' = <<u[1], u[2]>> /\ u = <<u[1], u[2]>>
      BY <1>1, <1>8, <2>2 DEF UnitsFor, Id, UnitOf
    <3> QED
      BY <1>2, <1>3, <1>8, <3>1, <3>2
  <2> QED
    BY <2>1, <2>2
<1>9. \A u : u[1] # q =>
          ((\E x \in Id : UnitOf(x)' = u /\ work'[x] \in Early)
              <=> \E x \in Id : UnitOf(x) = u /\ work[x] \in Early)
  BY <1>2, <1>5
<1>10. ASSUME NEW u PROVE u \in Done(kind, lhp)' <=> u \in Done(kind, lhp)
  <2>1. CASE u[1] = q
    BY <1>7, <1>8, <2>1 DEF Done
  <2>2. CASE u[1] # q
    BY <1>6, <1>9, <2>2 DEF Done
  <2> QED
    BY <2>1, <2>2
<1> QED
  BY <1>10

\* What a step of a handler spends.
LEMMA SpentAfter ==
    ASSUME IInv, NEW w \in Id, NEW next \in Statements \union {"none"}, StepOf(w, next),
           NEW kind \in Kinds, NEW lhp \in Sections
    PROVE  /\ Spent(kind, lhp) \in Nat /\ Spent(kind, lhp)' \in Nat
           /\ Spent(kind, lhp) <= Spent(kind, lhp)'
           /\ /\ work[w] \in Early /\ next \notin Early
              /\ kind = Ask[w[1]].kind /\ lhp = Lhp(w)
              /\ \/ service = "go" /\ kind = "HUY"
                 \/ Sv(w) \in StudentsOf(Done(kind, lhp))
              => Spent(kind, lhp)' = Spent(kind, lhp) + 1
<1> DEFINE D == Done(kind, lhp)
           E == Done(kind, lhp)'
           u == UnitOf(w)
           more == /\ work[w] \in Early /\ next \notin Early
                   /\ kind = Ask[w[1]].kind /\ lhp = Lhp(w)
<1>1. UNCHANGED service /\ service \in Services
  BY DEF IInv, TypeOK, StepOf
<1>2. /\ E = IF more THEN D \union {u} ELSE D
      /\ more => u \notin D
  BY DoneAfter
<1>3. /\ Spent(kind, lhp) = IF service = "go" /\ kind = "HUY" THEN Cardinality(D)
                            ELSE Cardinality(D) - Cardinality(StudentsOf(D))
      /\ Spent(kind, lhp)' = IF service = "go" /\ kind = "HUY" THEN Cardinality(E)
                             ELSE Cardinality(E) - Cardinality(StudentsOf(E))
  BY <1>1 DEF Spent, StudentsOf
<1>4. IsFiniteSet(D) /\ Spent(kind, lhp) \in Nat
  BY <1>1, UnitsFinite, SpentWithin
<1>5. /\ Cardinality(D) \in Nat /\ Cardinality(StudentsOf(D)) \in Nat
      /\ Cardinality(StudentsOf(D)) <= Cardinality(D)
  BY <1>4, StudentsFinite
<1>6. Sv(w) = Ask[u[1]].sv
  BY DEF Sv, UnitOf
<1>7. CASE ~more
  BY <1>2, <1>3, <1>4, <1>7
<1>8. CASE more
  <2>1. E = D \union {u} /\ u \notin D
    BY <1>2, <1>8
  <2> HIDE DEF D, E, u, more
  <2>2. /\ Cardinality(E) = Cardinality(D) + 1
        /\ Cardinality(StudentsOf(E)) \in Nat
        /\ Cardinality(StudentsOf(E)) <= Cardinality(StudentsOf(D)) + 1
        /\ Ask[u[1]].sv \in StudentsOf(D) => Cardinality(StudentsOf(E)) = Cardinality(StudentsOf(D))
    BY <1>4, <2>1, OneMore
  <2>3. /\ Spent(kind, lhp)' \in Nat /\ Spent(kind, lhp) <= Spent(kind, lhp)'
        /\ \/ service = "go" /\ kind = "HUY"
           \/ Sv(w) \in StudentsOf(D)
           => Spent(kind, lhp)' = Spent(kind, lhp) + 1
    BY <1>3, <1>4, <1>5, <1>6, <2>2
  <2> QED
    BY <1>4, <2>3 DEF D
<1> QED
  BY <1>7, <1>8

-----------------------------------------------------------------------------
(***************************************************************************)
(* Whose rows they are                                                     *)
(***************************************************************************)

\* A row was written by a handler for its student and section, which is done
\* with it.
RowsOwned ==
    \A sv \in Students, lhp \in Sections :
        dangKy[sv][lhp] # NoId =>
            /\ Sv(dangKy[sv][lhp]) = sv /\ Lhp(dangKy[sv][lhp]) = lhp
            /\ UnitOf(dangKy[sv][lhp]) \in Done("DANG_KY", lhp)

\* Behind the queue group a cancellation that has seen a row, and finds none
\* any more, comes after another one of the student.
XoaSeen ==
    service = "js" =>
        \A w \in Id :
            work[w] = "xoa" /\ dangKy[Sv(w)][Lhp(w)] = NoId =>
                Sv(w) \in StudentsOf(Done("HUY", Lhp(w)))

\* A cell after a step of a handler.
LEMMA CellAfter ==
    ASSUME TypeOK, NEW w \in Id, NEW next, StepOf(w, next), NEW sv \in Students, NEW lhp \in Sections
    PROVE  \/ dangKy'[sv][lhp] = dangKy[sv][lhp]
           \/ /\ work[w] = "them" /\ sv = Sv(w) /\ lhp = Lhp(w) /\ dangKy'[sv][lhp] = w
           \/ /\ work[w] = "xoa" /\ sv = Sv(w) /\ lhp = Lhp(w) /\ dangKy'[sv][lhp] = NoId
<1>1. Sv(w) \in Students /\ Lhp(w) \in Sections
  BY OfRequest
<1>2. w \in Id \union {NoId} /\ NoId \in Id \union {NoId}
  OBVIOUS
<1>3. \A c \in Id \union {NoId} :
          dangKy' = [dangKy EXCEPT ![Sv(w)][Lhp(w)] = c] =>
              dangKy'[sv][lhp] = IF sv = Sv(w) /\ lhp = Lhp(w) THEN c ELSE dangKy[sv][lhp]
  BY <1>1, PutCell DEF TypeOK
<1> QED
  BY <1>2, <1>3 DEF StepOf, Writes

\* Both, after a step of a handler.
LEMMA HandlerOwned ==
    ASSUME IInv, RowsOwned, XoaSeen, NEW w \in Id, NEW next \in Statements \union {"none"},
           StepOf(w, next), SeesRow(w)
    PROVE  RowsOwned' /\ XoaSeen'
<1> USE DEF IInv
<1>1. /\ UNCHANGED service /\ Follows(work[w], next)
      /\ \A x \in Id : work'[x] = IF x = w THEN next ELSE work[x]
      /\ \A x \in Id : UnitOf(x)' = UnitOf(x)
  BY DEF StepOf, TypeOK, UnitOf
<1>2. /\ Sv(w) \in Students /\ Lhp(w) \in Sections /\ Ask[w[1]].kind \in Kinds
      /\ \A x \in Id : Sv(x) \in Students /\ Lhp(x) \in Sections
  BY OfRequest
<1>3. \A kind \in Kinds, lhp \in Sections : Done(kind, lhp) \subseteq Done(kind, lhp)'
  BY DoneAfter
<1>4. "DANG_KY" \in Kinds /\ "HUY" \in Kinds
  BY DEF Kinds
<1>5. work[w] \in {"them", "xoa"} =>
          UnitOf(w) \in Done(Ask[w[1]].kind, Lhp(w))'
  <2>1. work[w] \in {"them", "xoa"} => work[w] \in Early /\ next \notin Early
    BY <1>1 DEF Follows, Early
  <2> QED
    BY <1>2, <2>1, DoneAfter
<1>6. /\ work[w] = "them" => Ask[w[1]].kind = "DANG_KY"
      /\ work[w] = "xoa" => Ask[w[1]].kind = "HUY"
  BY DEF Kinded
<1>7. RowsOwned'
  <2>1. ASSUME NEW sv \in Students, NEW lhp \in Sections, NEW x, x = dangKy'[sv][lhp], x # NoId
        PROVE  Sv(x) = sv /\ Lhp(x) = lhp /\ UnitOf(x) \in Done("DANG_KY", lhp)'
    <3>1. CASE x = dangKy[sv][lhp]
      BY <1>3, <1>4, <2>1, <3>1 DEF RowsOwned
    <3>2. CASE work[w] = "them" /\ sv = Sv(w) /\ lhp = Lhp(w) /\ x = w
      BY <1>5, <1>6, <3>2
    <3> QED
      BY <2>1, <3>1, <3>2, CellAfter
  <2> QED
    BY <1>1, <2>1 DEF RowsOwned, UnitOf, Sv, Lhp
<1>8. XoaSeen'
  <2> SUFFICES ASSUME service = "js", NEW x \in Id, work'[x] = "xoa", dangKy'[Sv(x)][Lhp(x)] = NoId
               PROVE  Sv(x) \in StudentsOf(Done("HUY", Lhp(x))')
    BY <1>1 DEF XoaSeen, Sv, Lhp, StudentsOf
  <2>1. x # w
    BY <1>1 DEF SeesRow
  <2>2. work[x] = "xoa"
    BY <1>1, <2>1
  <2>3. CASE dangKy[Sv(x)][Lhp(x)] = NoId
    <3>1. Sv(x) \in StudentsOf(Done("HUY", Lhp(x)))
      BY <2>2, <2>3 DEF XoaSeen
    <3> QED
      BY <1>2, <1>3, <1>4, <3>1 DEF StudentsOf
  <2>4. CASE dangKy[Sv(x)][Lhp(x)] # NoId
    <3>1. w # NoId
      BY SyncAssumption
    <3>2. work[w] = "xoa" /\ Sv(x) = Sv(w) /\ Lhp(x) = Lhp(w)
      BY <1>2, <2>4, <3>1, CellAfter
    <3>3. UnitOf(w) \in Done("HUY", Lhp(x))' /\ Ask[UnitOf(w)[1]].sv = Sv(x)
      BY <1>5, <1>6, <3>2 DEF UnitOf, Sv
    <3> QED
      BY <3>3 DEF StudentsOf
  <2> QED
    BY <2>3, <2>4
<1> QED
  BY <1>7, <1>8

\* Both, after a request is sent.
LEMMA SendOwned ==
    ASSUME IInv, RowsOwned, XoaSeen, NEW q \in Posts, Send(q)
    PROVE  RowsOwned' /\ XoaSeen'
<1> USE DEF IInv
<1>1. UNCHANGED <<service, dangKy>> /\ \A x \in Id : work'[x] = "xoa" => work[x] = "xoa" \/ service = "go"
  BY DEF Send, tables, FirstStatement, TypeOK, Services
<1>2. \A kind, lhp : Done(kind, lhp)' = Done(kind, lhp)
  BY DoneSend
<1>3. \A x : UnitOf(x)' = UnitOf(x)
  BY <1>1 DEF UnitOf
<1>4. RowsOwned'
  BY <1>1, <1>2, <1>3 DEF RowsOwned, Sv, Lhp
<1>5. XoaSeen'
  BY <1>1, <1>2 DEF XoaSeen, Sv, Lhp, StudentsOf
<1> QED
  BY <1>4, <1>5

\* A step that sends nothing and leaves the handlers where they are.
LEMMA RestOwned ==
    ASSUME UNCHANGED <<service, dangKy, work>>, \A q \in Posts : posts'[q] # "new" <=> posts[q] # "new"
    PROVE  /\ \A kind, lhp : UnitsFor(kind, lhp)' = UnitsFor(kind, lhp)
           /\ \A kind, lhp : Done(kind, lhp)' = Done(kind, lhp)
           /\ RowsOwned => RowsOwned'
           /\ XoaSeen => XoaSeen'
<1>1. \A kind, lhp : SentFor(kind, lhp)' = SentFor(kind, lhp)
  BY DEF SentFor
<1>2. \A kind, lhp : UnitsFor(kind, lhp)' = UnitsFor(kind, lhp)
  BY <1>1 DEF UnitsFor
<1>3. \A x : UnitOf(x)' = UnitOf(x)
  BY DEF UnitOf
<1>4. \A kind, lhp : Done(kind, lhp)' = Done(kind, lhp)
  BY <1>2, <1>3 DEF Done
<1> QED
  BY <1>2, <1>3, <1>4 DEF RowsOwned, XoaSeen, Sv, Lhp, StudentsOf

-----------------------------------------------------------------------------
(***************************************************************************)
(* Rows and counters                                                       *)
(***************************************************************************)

\* The students on file are finitely many: each row is of a handler of its own.
LEMMA RegisteredFinite ==
    ASSUME TypeOK, RowsOwned, NEW lhp \in Sections
    PROVE  IsFiniteSet(Registered(lhp)) /\ Cardinality(Registered(lhp)) \in Nat
<1> DEFINE f == [sv \in Registered(lhp) |-> dangKy[sv][lhp]]
<1>1. \A sv \in Registered(lhp) : dangKy[sv][lhp] \in Id /\ Sv(dangKy[sv][lhp]) = sv
  BY DEF Registered, RowsOwned, TypeOK
<1>2. f \in Injection(Registered(lhp), Id)
  BY <1>1 DEF Injection, IsInjective
<1>3. IsFiniteSet(Id)
  BY SyncAssumption, FS_Product DEF Id
<1> QED
  BY <1>2, <1>3, FS_Injection, FS_CardinalityType

\* Handlers are finitely many.
LEMMA HandlersFinite ==
    ASSUME NEW S \in SUBSET Id
    PROVE  IsFiniteSet(S) /\ Cardinality(S) \in Nat
<1>1. IsFiniteSet(Id)
  BY SyncAssumption, FS_Product DEF Id
<1> QED
  BY <1>1, FS_Subset, FS_CardinalityType

\* The handlers at a statement, after a step of one of them.
LEMMA AtAfter ==
    ASSUME TypeOK, NEW w \in Id, NEW next, StepOf(w, next), NEW statement, statement # "none",
           NEW lhp
    PROVE  /\ Cardinality(At(statement, lhp)) \in Nat
           /\ Cardinality(At(statement, lhp)') =
                  IF lhp = Lhp(w) /\ next = statement THEN Cardinality(At(statement, lhp)) + 1
                  ELSE IF lhp = Lhp(w) /\ work[w] = statement THEN Cardinality(At(statement, lhp)) - 1
                  ELSE Cardinality(At(statement, lhp))
<1> DEFINE A == At(statement, lhp)
           B == At(statement, lhp)'
<1>1. /\ work[w] # next
      /\ \A x \in Id : work'[x] = IF x = w THEN next ELSE work[x]
  BY DEF StepOf, TypeOK, Follows
<1>2. IsFiniteSet(A) /\ Cardinality(A) \in Nat
  BY HandlersFinite DEF At
<1>3. w \in A <=> work[w] = statement /\ lhp = Lhp(w)
  BY DEF At, Lhp
<1>4. CASE lhp = Lhp(w) /\ next = statement
  <2>1. B = A \union {w} /\ w \notin A
    BY <1>1, <1>3, <1>4 DEF At, Lhp
  <2> QED
    BY <1>2, <1>4, <2>1, FS_AddElement
<1>5. CASE ~(lhp = Lhp(w) /\ next = statement)
  <2>1. B = A \ {w}
    BY <1>1, <1>5 DEF At, Lhp
  <2> QED
    BY <1>2, <1>3, <1>5, <2>1, FS_RemoveElement
<1> QED
  BY <1>4, <1>5

\* The handlers past the check, after a step of one of them.
LEMMA PastAfter ==
    ASSUME TypeOK, NEW w \in Id, NEW next, StepOf(w, next), NEW lhp
    PROVE  /\ Cardinality(Handlers(lhp)) \in Nat
           /\ Cardinality(Handlers(lhp)') =
                  IF lhp = Lhp(w) /\ next = "trung" THEN Cardinality(Handlers(lhp)) + 1
                  ELSE IF lhp = Lhp(w) /\ next = "none" /\ work[w] \in PastCheck
                       THEN Cardinality(Handlers(lhp)) - 1
                  ELSE Cardinality(Handlers(lhp))
<1> DEFINE A == Handlers(lhp)
           B == Handlers(lhp)'
<1>1. \A x \in Id : work'[x] = IF x = w THEN next ELSE work[x]
  BY DEF StepOf, TypeOK
<1>2. IsFiniteSet(A) /\ Cardinality(A) \in Nat
  BY HandlersFinite DEF Handlers
<1>3. w \in A <=> work[w] \in PastCheck /\ lhp = Lhp(w)
  BY DEF Handlers, Lhp
<1>4. /\ next = "trung" => work[w] \notin PastCheck
      /\ next \in {"them", "tang"} => work[w] \in PastCheck
      /\ next \notin PastCheck /\ work[w] \in PastCheck => next = "none"
      /\ next \in PastCheck => next \in {"trung", "them", "tang"}
      /\ "none" \notin PastCheck /\ "trung" \in PastCheck
  BY DEF StepOf, Follows, PastCheck
<1>5. CASE lhp = Lhp(w) /\ next = "trung"
  <2>1. B = A \union {w} /\ w \notin A
    BY <1>1, <1>3, <1>4, <1>5 DEF Handlers, Lhp
  <2> QED
    BY <1>2, <1>5, <2>1, FS_AddElement
<1>6. CASE lhp = Lhp(w) /\ next = "none" /\ work[w] \in PastCheck
  <2>1. B = A \ {w} /\ w \in A
    BY <1>1, <1>3, <1>4, <1>6 DEF Handlers, Lhp
  <2> QED
    BY <1>2, <1>6, <2>1, FS_RemoveElement
<1>7. CASE ~(lhp = Lhp(w) /\ next = "trung") /\ ~(lhp = Lhp(w) /\ next = "none" /\ work[w] \in PastCheck)
  <2>1. B = A
    BY <1>1, <1>3, <1>4, <1>7 DEF Handlers, Lhp
  <2> QED
    BY <1>2, <1>7, <2>1
<1> QED
  BY <1>5, <1>6, <1>7

\* The students on file, after a step of a handler.
LEMMA RegisteredAfter ==
    ASSUME TypeOK, RowsOwned, NEW w \in Id, NEW lhp \in Sections
    PROVE  /\ UNCHANGED dangKy => Cardinality(Registered(lhp)') = Cardinality(Registered(lhp))
           /\ dangKy' = [dangKy EXCEPT ![Sv(w)][Lhp(w)] = w] =>
                  Cardinality(Registered(lhp)') =
                      IF lhp = Lhp(w) /\ dangKy[Sv(w)][Lhp(w)] = NoId
                      THEN Cardinality(Registered(lhp)) + 1 ELSE Cardinality(Registered(lhp))
           /\ dangKy' = [dangKy EXCEPT ![Sv(w)][Lhp(w)] = NoId] =>
                  Cardinality(Registered(lhp)') =
                      IF lhp = Lhp(w) /\ dangKy[Sv(w)][Lhp(w)] # NoId
                      THEN Cardinality(Registered(lhp)) - 1 ELSE Cardinality(Registered(lhp))
<1> DEFINE R == Registered(lhp)
           Q == Registered(lhp)'
           sv == Sv(w)
<1>1. IsFiniteSet(R) /\ Cardinality(R) \in Nat
  BY RegisteredFinite
<1>2. sv \in Students /\ Lhp(w) \in Sections
  BY OfRequest
<1>3. w \in Id \union {NoId} /\ NoId \in Id \union {NoId} /\ w # NoId
  BY SyncAssumption
<1>4. \A c \in Id \union {NoId} :
          dangKy' = [dangKy EXCEPT ![sv][Lhp(w)] = c] =>
              \A s \in Students :
                  dangKy'[s][lhp] = IF s = sv /\ lhp = Lhp(w) THEN c ELSE dangKy[s][lhp]
  BY <1>2, PutCell DEF TypeOK
<1>5. lhp = Lhp(w) => (sv \in R <=> dangKy[Sv(w)][Lhp(w)] # NoId)
  BY <1>2 DEF Registered
<1>6. UNCHANGED dangKy => Q = R
  BY DEF Registered
<1>7. ASSUME dangKy' = [dangKy EXCEPT ![Sv(w)][Lhp(w)] = w]
      PROVE  Q = IF lhp = Lhp(w) THEN R \union {sv} ELSE R
  <2>1. \A s \in Students : dangKy'[s][lhp] = IF s = sv /\ lhp = Lhp(w) THEN w ELSE dangKy[s][lhp]
    BY <1>3, <1>4, <1>7
  <2>2. \A s \in Students : dangKy'[s][lhp] # NoId <=> (s = sv /\ lhp = Lhp(w)) \/ dangKy[s][lhp] # NoId
    BY <1>3, <2>1
  <2> QED
    BY <1>2, <2>2 DEF Registered
<1>8. ASSUME dangKy' = [dangKy EXCEPT ![Sv(w)][Lhp(w)] = NoId]
      PROVE  Q = IF lhp = Lhp(w) THEN R \ {sv} ELSE R
  <2>1. \A s \in Students : dangKy'[s][lhp] = IF s = sv /\ lhp = Lhp(w) THEN NoId ELSE dangKy[s][lhp]
    BY <1>3, <1>4, <1>8
  <2>2. \A s \in Students : dangKy'[s][lhp] # NoId <=> ~(s = sv /\ lhp = Lhp(w)) /\ dangKy[s][lhp] # NoId
    BY <2>1
  <2> QED
    BY <1>2, <2>2 DEF Registered
<1>9. /\ Cardinality(R \union {sv}) = IF sv \in R THEN Cardinality(R) ELSE Cardinality(R) + 1
      /\ Cardinality(R \ {sv}) = IF sv \in R THEN Cardinality(R) - 1 ELSE Cardinality(R)
  BY <1>1, FS_AddElement, FS_RemoveElement
<1> HIDE DEF R, Q, sv
<1> QED
  BY <1>5, <1>6, <1>7, <1>8, <1>9 DEF R, Q

\* The rows of a section and its counter part by no more than this.
Drift(lhp) ==
    LET diff == Cardinality(Registered(lhp)) - CounterSoon(lhp)
    IN  /\ diff <= failures + Spent("HUY", lhp)
        /\ -diff <= failures + Spent("DANG_KY", lhp)

\* What is counted or past the check fits, but for those who passed together.
Crowded(lhp) ==
    service = "js" =>
        counter[lhp] + Cardinality(Handlers(lhp)) <= SoLuongToiDa[lhp] + Larger(crowd[lhp] - 1, 0)

LedgerInv ==
    /\ IInv /\ RowsOwned /\ XoaSeen
    /\ \A lhp \in Sections : Drift(lhp) /\ Crowded(lhp)

\* A row that is overwritten, or missing when it is deleted: a handler of the
\* same student was there before.
LEMMA RepeatSpends ==
    ASSUME IInv, RowsOwned, XoaSeen, NEW w \in Id, NEW next \in Statements \union {"none"},
           StepOf(w, next)
    PROVE  /\ work[w] = "them" /\ dangKy[Sv(w)][Lhp(w)] # NoId =>
                  Spent("DANG_KY", Lhp(w))' = Spent("DANG_KY", Lhp(w)) + 1
           /\ work[w] = "xoa" /\ dangKy[Sv(w)][Lhp(w)] = NoId =>
                  Spent("HUY", Lhp(w))' = Spent("HUY", Lhp(w)) + 1
<1>1. Sv(w) \in Students /\ Lhp(w) \in Sections /\ service \in {"js", "go"}
  BY OfRequest DEF IInv, TypeOK, Services
<1>2. work[w] \in {"them", "xoa"} => work[w] \in Early /\ next \notin Early
  BY DEF StepOf, Follows, Early
<1>3. /\ work[w] = "them" => Ask[w[1]].kind = "DANG_KY"
      /\ work[w] = "xoa" => Ask[w[1]].kind = "HUY"
  BY DEF IInv, Kinded
<1>4. "DANG_KY" \in Kinds /\ "HUY" \in Kinds
  BY DEF Kinds
<1>5. ASSUME work[w] = "them", dangKy[Sv(w)][Lhp(w)] # NoId
      PROVE  Spent("DANG_KY", Lhp(w))' = Spent("DANG_KY", Lhp(w)) + 1
  <2> DEFINE x == dangKy[Sv(w)][Lhp(w)]
  <2>1. Sv(x) = Sv(w) /\ UnitOf(x) \in Done("DANG_KY", Lhp(w))
    BY <1>1, <1>5 DEF RowsOwned
  <2>2. Ask[UnitOf(x)[1]].sv = Sv(w)
    BY <2>1 DEF UnitOf, Sv
  <2>3. Sv(w) \in StudentsOf(Done("DANG_KY", Lhp(w)))
    BY <2>1, <2>2 DEF StudentsOf
  <2> QED
    BY <1>1, <1>2, <1>3, <1>4, <1>5, <2>3, SpentAfter
<1>6. ASSUME work[w] = "xoa", dangKy[Sv(w)][Lhp(w)] = NoId
      PROVE  Spent("HUY", Lhp(w))' = Spent("HUY", Lhp(w)) + 1
  <2>1. service = "go" \/ Sv(w) \in StudentsOf(Done("HUY", Lhp(w)))
    BY <1>1, <1>6 DEF XoaSeen
  <2> QED
    BY <1>1, <1>2, <1>3, <1>4, <1>6, <2>1, SpentAfter
<1> QED
  BY <1>5, <1>6

\* The drift, after a step of a handler.
LEMMA HandlerDrift ==
    ASSUME LedgerInv, NEW w \in Id, NEW next \in Statements \union {"none"},
           StepOf(w, next), Counts(w), HandlerAction(w), NEW lhp \in Sections
    PROVE  Drift(lhp)'
<1> DEFINE R  == Cardinality(Registered(lhp))
           R1 == Cardinality(Registered(lhp)')
           T  == Cardinality(At("tang", lhp))
           T1 == Cardinality(At("tang", lhp)')
           G  == Cardinality(At("giam", lhp))
           G1 == Cardinality(At("giam", lhp)')
           H  == Spent("HUY", lhp)
           H1 == Spent("HUY", lhp)'
           D  == Spent("DANG_KY", lhp)
           D1 == Spent("DANG_KY", lhp)'
           c  == counter[lhp]
           c1 == counter'[lhp]
           absent == dangKy[Sv(w)][Lhp(w)] = NoId
<1>1. IInv /\ TypeOK /\ RowsOwned /\ XoaSeen
  BY DEF LedgerInv, IInv
<1>2. /\ next = work'[w] /\ Sv(w) \in Students /\ Lhp(w) \in Sections
      /\ counter \in [Sections -> Int] /\ failures \in Nat
  <2>1. failures \in Nat
    BY <1>1, SyncAssumption DEF TypeOK
  <2> QED
    BY <1>1, <2>1, OfRequest DEF StepOf, TypeOK
<1>3. /\ R - (c + T - G) <= failures + H
      /\ -(R - (c + T - G)) <= failures + D
  BY DEF LedgerInv, Drift, CounterSoon
<1>4. /\ R1 - (c1 + T1 - G1) <= failures' + H1
      /\ -(R1 - (c1 + T1 - G1)) <= failures' + D1
      => Drift(lhp)'
  BY DEF Drift, CounterSoon
<1>5. H \in Nat /\ H1 \in Nat /\ H <= H1 /\ D \in Nat /\ D1 \in Nat /\ D <= D1
  BY <1>1, SpentAfter DEF Kinds
<1>6. /\ T \in Nat /\ G \in Nat /\ R \in Nat /\ c \in Int
      /\ T1 = IF lhp = Lhp(w) /\ next = "tang" THEN T + 1
              ELSE IF lhp = Lhp(w) /\ work[w] = "tang" THEN T - 1 ELSE T
      /\ G1 = IF lhp = Lhp(w) /\ next = "giam" THEN G + 1
              ELSE IF lhp = Lhp(w) /\ work[w] = "giam" THEN G - 1 ELSE G
  BY <1>1, <1>2, AtAfter, RegisteredFinite
<1>7. /\ UNCHANGED dangKy => R1 = R
      /\ dangKy' = [dangKy EXCEPT ![Sv(w)][Lhp(w)] = w] =>
             R1 = IF lhp = Lhp(w) /\ absent THEN R + 1 ELSE R
      /\ dangKy' = [dangKy EXCEPT ![Sv(w)][Lhp(w)] = NoId] =>
             R1 = IF lhp = Lhp(w) /\ ~absent THEN R - 1 ELSE R
  BY <1>1, RegisteredAfter
<1>8. /\ UNCHANGED counter => c1 = c
      /\ counter' = [counter EXCEPT ![Lhp(w)] = counter[Lhp(w)] + 1] =>
             c1 = IF lhp = Lhp(w) THEN c + 1 ELSE c
      /\ counter' = [counter EXCEPT ![Lhp(w)] = counter[Lhp(w)] - 1] =>
             c1 = IF lhp = Lhp(w) THEN c - 1 ELSE c
  BY <1>2
<1>9. lhp = Lhp(w) =>
          /\ work[w] = "them" /\ ~absent => D1 = D + 1
          /\ work[w] = "xoa" /\ absent => H1 = H + 1
  BY <1>1, RepeatSpends
<1> HIDE DEF R, R1, T, T1, G, G1, H, H1, D, D1, c, c1, absent
<1>10. CASE Looks(w)
  <2>1. /\ R1 = R /\ c1 = c /\ failures' = failures
        /\ next \notin {"tang", "giam"} /\ work[w] \notin {"tang", "giam"}
    BY <1>2, <1>7, <1>8, <1>10 DEF Looks
  <2> QED
    BY <1>2, <1>3, <1>4, <1>5, <1>6, <2>1
<1>11. CASE WritesRow(w)
  <2>1. c1 = c /\ failures' = failures
    BY <1>8, <1>11 DEF WritesRow
  <2>2. CASE work[w] = "them" /\ next = "tang"
    <3>1. R1 = IF lhp = Lhp(w) /\ absent THEN R + 1 ELSE R
      BY <1>7, <1>11, <2>2 DEF WritesRow
    <3> QED
      BY <1>2, <1>3, <1>4, <1>5, <1>6, <1>9, <2>1, <2>2, <3>1
  <2>3. CASE work[w] = "xoa" /\ next = "giam"
    <3>1. R1 = IF lhp = Lhp(w) /\ ~absent THEN R - 1 ELSE R
      BY <1>7, <1>11, <2>3 DEF WritesRow
    <3> QED
      BY <1>2, <1>3, <1>4, <1>5, <1>6, <1>9, <2>1, <2>3, <3>1
  <2> QED
    BY <1>2, <1>11, <2>2, <2>3 DEF WritesRow
<1>12. CASE CountsRow(w) /\ UNCHANGED failures
  <2>1. R1 = R /\ next = "none"
    BY <1>2, <1>7, <1>12 DEF CountsRow
  <2>2. \/ work[w] = "tang" /\ c1 = IF lhp = Lhp(w) THEN c + 1 ELSE c
        \/ work[w] = "giam" /\ c1 = IF lhp = Lhp(w) THEN c - 1 ELSE c
    BY <1>8, <1>12 DEF CountsRow
  <2> QED
    BY <1>2, <1>3, <1>4, <1>5, <1>6, <1>12, <2>1, <2>2
<1>13. CASE Breaks(w)
  <2>1. next = "none" /\ failures' = failures + 1
    BY <1>2, <1>13 DEF Breaks
  <2>2. CASE UNCHANGED tables
    <3>1. R1 = R /\ c1 = c
      BY <1>7, <1>8, <2>2 DEF tables
    <3> QED
      BY <1>2, <1>3, <1>4, <1>5, <1>6, <2>1, <3>1
  <2>3. CASE UNCHANGED counter /\ work[w] \in {"them", "xoa"}
    <3>1. c1 = c /\ R1 \in {R - 1, R, R + 1}
      BY <1>7, <1>8, <1>13, <2>2, <2>3 DEF Breaks, CountsRow, tables
    <3> QED
      BY <1>2, <1>3, <1>4, <1>5, <1>6, <2>1, <2>3, <3>1
  <2>4. CASE CountsRow(w)
    <3>1. R1 = R
      BY <1>7, <2>4 DEF CountsRow
    <3>2. \/ work[w] = "tang" /\ c1 = IF lhp = Lhp(w) THEN c + 1 ELSE c
          \/ work[w] = "giam" /\ c1 = IF lhp = Lhp(w) THEN c - 1 ELSE c
      BY <1>8, <2>4 DEF CountsRow
    <3> QED
      BY <1>2, <1>3, <1>4, <1>5, <1>6, <2>1, <3>1, <3>2
  <2> QED
    BY <1>13, <2>2, <2>3, <2>4 DEF Breaks
<1> QED
  BY <1>1, <1>10, <1>11, <1>12, <1>13, LedgerSteps

\* The handlers past the check, after a step of a handler.
LEMMA HandlerCrowded ==
    ASSUME LedgerInv, NEW w \in Id, NEW next \in Statements \union {"none"},
           StepOf(w, next), HandlerAction(w), NEW lhp \in Sections
    PROVE  Crowded(lhp)'
<1> SUFFICES ASSUME service = "js"
             PROVE  counter'[lhp] + Cardinality(Handlers(lhp)')
                        <= SoLuongToiDa[lhp] + Larger(crowd'[lhp] - 1, 0)
  BY DEF Crowded, StepOf
<1> DEFINE P  == Cardinality(Handlers(lhp))
           P1 == Cardinality(Handlers(lhp)')
           c  == counter[lhp]
           c1 == counter'[lhp]
           max == SoLuongToiDa[lhp]
           most  == crowd[lhp]
           most1 == crowd'[lhp]
<1>1. TypeOK /\ next = work'[w] /\ Lhp(w) \in Sections
  BY OfRequest DEF LedgerInv, IInv, StepOf, TypeOK
<1>2. c + P <= max + Larger(most - 1, 0) /\ max \in Nat /\ c \in Int /\ most \in Nat
  BY <1>1, SyncAssumption DEF LedgerInv, Crowded, TypeOK
<1>3. /\ P \in Nat
      /\ P1 = IF lhp = Lhp(w) /\ next = "trung" THEN P + 1
              ELSE IF lhp = Lhp(w) /\ next = "none" /\ work[w] \in PastCheck THEN P - 1
              ELSE P
  BY <1>1, PastAfter
<1>4. CASE Passes(w)
  <2>1. c1 = c /\ next = "trung"
    BY <1>1, <1>4 DEF Passes
  <2>2. CASE lhp = Lhp(w)
    <3>1. c < max /\ most1 = Larger(most, P + 1)
      BY <1>1, <1>4, <2>2 DEF Passes, TypeOK
    <3> HIDE DEF P, P1, c, c1, max, most, most1
    <3>2. P1 = P + 1 /\ most1 >= P + 1 /\ most1 \in Nat
      BY <1>2, <1>3, <2>1, <2>2, <3>1 DEF Larger
    <3> QED
      BY <1>2, <1>3, <2>1, <3>1, <3>2 DEF Larger, P1, c1, max, most1
  <2>3. CASE lhp # Lhp(w)
    <3>1. most1 = most /\ P1 = P
      BY <1>1, <1>3, <1>4, <2>3 DEF Passes, TypeOK
    <3> QED
      BY <1>2, <2>1, <3>1
  <2> QED
    BY <2>2, <2>3
<1>5. CASE next # "trung" /\ UNCHANGED crowd
  <2>1. P1 <= P /\ most1 = most
    BY <1>3, <1>5
  <2>2. CASE c1 <= c /\ c1 \in Int
    <3> HIDE DEF P, P1, c, c1, max, most, most1
    <3>1. P1 \in Nat \/ P1 = P - 1
      BY <1>3
    <3>2. c1 + P1 <= max + Larger(most - 1, 0) /\ Larger(most - 1, 0) \in Int
      BY <1>2, <1>3, <2>1, <2>2, <3>1 DEF Larger
    <3> QED
      BY <2>1, <3>2 DEF P1, c1, max, most1
  <2>3. CASE CountsRow(w)
    <3>1. CASE work[w] = "tang" /\ lhp = Lhp(w)
      <4>1. c1 = c + 1 /\ P1 = P - 1
        BY <1>1, <1>3, <2>3, <3>1 DEF CountsRow, PastCheck, TypeOK
      <4> HIDE DEF P, P1, c, c1, max, most, most1
      <4>2. c1 + P1 <= max + Larger(most1 - 1, 0)
        BY <1>2, <1>3, <2>1, <4>1 DEF Larger
      <4> QED
        BY <4>2 DEF P1, c1, max, most1
    <3>2. CASE ~(work[w] = "tang" /\ lhp = Lhp(w))
      <4>1. c1 <= c /\ c1 \in Int
        BY <1>1, <2>3, <3>2 DEF CountsRow, TypeOK
      <4> QED
        BY <2>2, <4>1
    <3> QED
      BY <3>1, <3>2
  <2>4. CASE UNCHANGED counter
    BY <1>2, <2>2, <2>4
  <2> QED
    BY <1>1, <2>3, <2>4, LedgerSteps DEF Looks, WritesRow, Breaks, tables
<1> QED
  BY <1>1, <1>4, <1>5, LedgerSteps

\* The gateway changes no row and no counter.
LEMMA SendLedger ==
    ASSUME LedgerInv, NEW q \in Posts, Send(q), NEW lhp \in Sections
    PROVE  Drift(lhp)' /\ Crowded(lhp)'
<1>1. IInv /\ UNCHANGED <<service, dangKy, counter, crowd, failures>> /\ posts[q] = "new"
  BY DEF LedgerInv, Send, tables
<1>2. \A kind, l : Done(kind, l)' = Done(kind, l)
  BY <1>1, DoneSend
<1>3. \A kind, l : Spent(kind, l)' = Spent(kind, l)
  BY <1>1, <1>2 DEF Spent, StudentsOf
<1>4. \A x \in Id : /\ x[1] # q => work'[x] = work[x]
                    /\ x[1] = q => work[x] = "none" /\ work'[x] \in {"none", FirstStatement(q)}
  BY <1>1 DEF IInv, Kinded, Send
<1>5. /\ FirstStatement(q) \notin {"tang", "giam"}
      /\ service = "js" => FirstStatement(q) \notin PastCheck
  BY DEF FirstStatement, PastCheck
<1>6. At("tang", lhp)' = At("tang", lhp) /\ At("giam", lhp)' = At("giam", lhp)
  BY <1>4, <1>5 DEF At
<1>7. service = "js" => Handlers(lhp)' = Handlers(lhp)
  <2>1. "none" \notin PastCheck
    BY DEF PastCheck
  <2> QED
    BY <1>4, <1>5, <2>1 DEF Handlers
<1>8. Registered(lhp)' = Registered(lhp)
  BY <1>1 DEF Registered
<1> QED
  BY <1>1, <1>3, <1>6, <1>7, <1>8 DEF LedgerInv, Drift, CounterSoon, Crowded

\* Nor does a step of the gateway that sends nothing.
LEMMA RestLedger ==
    ASSUME LedgerInv, UNCHANGED <<service, dangKy, counter, work, crowd, failures>>,
           \A q \in Posts : posts'[q] # "new" <=> posts[q] # "new", NEW lhp \in Sections
    PROVE  Drift(lhp)' /\ Crowded(lhp)'
<1>1. \A kind, l : Done(kind, l)' = Done(kind, l)
  BY RestOwned
<1>2. \A kind, l : Spent(kind, l)' = Spent(kind, l)
  BY <1>1 DEF Spent, StudentsOf
<1>3. At("tang", lhp)' = At("tang", lhp) /\ At("giam", lhp)' = At("giam", lhp)
  BY DEF At
<1>4. Handlers(lhp)' = Handlers(lhp) /\ Registered(lhp)' = Registered(lhp)
  BY DEF Handlers, Registered
<1> QED
  BY <1>2, <1>3, <1>4 DEF LedgerInv, Drift, CounterSoon, Crowded

\* The bounds at the start and after every step.
LEMMA InitLedger == Init => LedgerInv
<1> SUFFICES ASSUME Init PROVE LedgerInv
  OBVIOUS
<1>1. /\ IInv /\ RowsOwned /\ XoaSeen
  BY InitInvariant DEF Init, RowsOwned, XoaSeen
<1>2. ASSUME NEW lhp \in Sections PROVE Drift(lhp) /\ Crowded(lhp)
  <2>1. Registered(lhp) = {} /\ At("tang", lhp) = {} /\ At("giam", lhp) = {} /\ Handlers(lhp) = {}
    BY DEF Init, Registered, At, Handlers, PastCheck
  <2>2. Cardinality({}) = 0 /\ counter[lhp] = 0 /\ crowd[lhp] = 0 /\ failures = 0
    BY FS_EmptySet DEF Init
  <2>3. Spent("HUY", lhp) \in Nat /\ Spent("DANG_KY", lhp) \in Nat /\ SoLuongToiDa[lhp] \in Nat
    BY <1>1, SpentWithin, SyncAssumption DEF IInv, TypeOK, Kinds
  <2>4. CounterSoon(lhp) = 0 /\ Cardinality(Registered(lhp)) = 0 /\ Cardinality(Handlers(lhp)) = 0
    BY <2>1, <2>2 DEF CounterSoon
  <2> QED
    BY <2>2, <2>3, <2>4 DEF Drift, Crowded, Larger
<1> QED
  BY <1>1, <1>2 DEF LedgerInv

\* Every step keeps them.
LEMMA LedgerStep == LedgerInv /\ [Next]_vars => LedgerInv'
<1> SUFFICES ASSUME LedgerInv, [Next]_vars PROVE LedgerInv'
  OBVIOUS
<1>1. IInv /\ TypeOK /\ RowsOwned /\ XoaSeen
  BY DEF LedgerInv, IInv
<1>2. IInv'
  BY <1>1, Steps, SendKeeps, TimeoutKeeps, HandlerKeeps, StutterKeeps
<1>3. ASSUME NEW q \in Posts, Send(q)
      PROVE  LedgerInv'
  BY <1>1, <1>2, <1>3, SendOwned, SendLedger DEF LedgerInv
<1>4. ASSUME UNCHANGED <<service, dangKy, counter, work, crowd, failures>>,
             \A q \in Posts : posts'[q] # "new" <=> posts[q] # "new"
      PROVE  LedgerInv'
  BY <1>1, <1>2, <1>4, RestOwned, RestLedger DEF LedgerInv
<1>5. ASSUME NEW q \in Posts, Timeout(q)
      PROVE  LedgerInv'
  BY <1>1, <1>4, <1>5 DEF Timeout, tables, TypeOK
<1>6. ASSUME UNCHANGED vars
      PROVE  LedgerInv'
  BY <1>4, <1>6 DEF vars, tables, gateway
<1>7. ASSUME NEW w \in Id, HandlerAction(w)
      PROVE  LedgerInv'
  <2>1. PICK next \in Statements \union {"none"} : StepOf(w, next)
    BY <1>1, <1>7, HandlerSteps
  <2>2. Counts(w) /\ SeesRow(w)
    BY <1>1, <1>7, HandlerSteps, LedgerSteps
  <2>3. RowsOwned' /\ XoaSeen'
    BY <1>1, <2>1, <2>2, HandlerOwned
  <2>4. \A lhp \in Sections : Drift(lhp)' /\ Crowded(lhp)'
    BY <1>7, <2>1, <2>2, HandlerDrift, HandlerCrowded
  <2> QED
    BY <1>2, <2>3, <2>4 DEF LedgerInv
<1> QED
  BY <1>3, <1>5, <1>6, <1>7 DEF Next, HandlerAction

\* The bounds on what one section has on file, for every section.
LEMMA LedgerHolds ==
    ASSUME LedgerInv, NEW lhp \in Sections
    PROVE  /\ Cardinality(Registered(lhp)) - CounterSoon(lhp) <= failures + Repeats("HUY", lhp)
           /\ CounterSoon(lhp) - Cardinality(Registered(lhp)) <= failures + Repeats("DANG_KY", lhp)
           /\ service = "js" =>
                  Cardinality(Registered(lhp)) <=
                      SoLuongToiDa[lhp] + Larger(crowd[lhp] - 1, 0) + failures + Repeats("HUY", lhp)
<1> DEFINE R == Cardinality(Registered(lhp))
           T == Cardinality(At("tang", lhp))
           G == Cardinality(At("giam", lhp))
           P == Cardinality(Handlers(lhp))
           c == counter[lhp]
           room == SoLuongToiDa[lhp] + Larger(crowd[lhp] - 1, 0)
           H == Spent("HUY", lhp)
           D == Spent("DANG_KY", lhp)
<1>1. TypeOK /\ RowsOwned
  BY DEF LedgerInv, IInv
<1>2. /\ R \in Nat /\ c \in Int /\ failures \in Nat
      /\ H \in Nat /\ D \in Nat
      /\ Repeats("HUY", lhp) \in Nat /\ Repeats("DANG_KY", lhp) \in Nat
      /\ H <= Repeats("HUY", lhp) /\ D <= Repeats("DANG_KY", lhp)
  <2>1. failures \in Nat /\ c \in Int /\ service \in Services
    BY <1>1, SyncAssumption DEF TypeOK
  <2> QED
    BY <1>1, <2>1, RegisteredFinite, SpentWithin DEF Kinds
<1>3. /\ R - (c + T - G) <= failures + H /\ -(R - (c + T - G)) <= failures + D
      /\ service = "js" => c + P <= room
  BY DEF LedgerInv, Drift, Crowded, CounterSoon
<1>4. T \in Nat /\ G \in Nat /\ P \in Nat /\ T <= P
  <2>1. At("tang", lhp) \in SUBSET Handlers(lhp) /\ Handlers(lhp) \in SUBSET Id
    BY DEF At, Handlers, PastCheck
  <2>2. At("giam", lhp) \in SUBSET Id /\ At("tang", lhp) \in SUBSET Id
    BY DEF At
  <2>3. IsFiniteSet(Handlers(lhp))
    BY <2>1, HandlersFinite
  <2> QED
    BY <2>1, <2>2, <2>3, HandlersFinite, FS_Subset
<1>5. room \in Int
  BY <1>1, SyncAssumption DEF TypeOK, Larger
<1>6. CounterSoon(lhp) = c + T - G
  BY DEF CounterSoon
<1> HIDE DEF R, T, G, P, c, room, H, D
<1>7. R - (c + T - G) <= failures + Repeats("HUY", lhp)
  BY <1>2, <1>3, <1>4
<1>8. (c + T - G) - R <= failures + Repeats("DANG_KY", lhp)
  BY <1>2, <1>3, <1>4
<1>9. service = "js" => R <= room + failures + Repeats("HUY", lhp)
  BY <1>2, <1>3, <1>4, <1>5, <1>7
<1> QED
  BY <1>6, <1>7, <1>8, <1>9 DEF R, room

\* For any clients, pods, faults and time-outs, in both services: the counter
\* of a section and its rows part by no more than the faults and the handlers
\* that repeat what another one of the same student did.
THEOREM DriftIsBounded == Spec => []LedgerDrift
<1>1. LedgerInv => LedgerDrift
  BY LedgerHolds DEF LedgerDrift
<1> QED
  BY <1>1, InitLedger, LedgerStep, PTL DEF Spec

\* With the check before the write, a section is oversold at most by the
\* handlers that passed the check together, but for one, and by the seats the
\* counter lost to faults and repeated cancellations.
THEOREM OversellIsBounded == Spec => []OversellBounded
<1>1. LedgerInv => OversellBounded
  BY LedgerHolds DEF OversellBounded
<1> QED
  BY <1>1, InitLedger, LedgerStep, PTL DEF Spec

=============================================================================
