----------------------------- MODULE NodeScoring -----------------------------
(***************************************************************************)
(* The score plugin RedisMetricPlugin of the custom kube-scheduler         *)
(* (pkg/redismetric: plugin.go and calculator.go) over the table its       *)
(* collectors fill.                                                        *)
(*                                                                         *)
(* For each pod kube-scheduler calls Score for all nodes in parallel.      *)
(* Every call reads the table, normalises and weighs the metrics, derives  *)
(* the worst and the best alternative and prefers the row that is closest  *)
(* to the best one.  The anchors of the normalisation and the two          *)
(* alternatives are package variables that all calls share: each access to *)
(* an anchor is a step, each write of an alternative, and the comparison   *)
(* of a row with one.                                                      *)
(*                                                                         *)
(* Metrics are natural numbers in units of 0.01, normalised ones in units  *)
(* of 1/Scale; the samples of a window are alike, so that maximum, mean    *)
(* and minimum of a metric are one number.                                 *)
(***************************************************************************)
EXTENDS MetricCollector

CONSTANTS
    Nodes,           \* the nodes kube-scheduler asks for: k stands for "node<k>"
    TokenOrder,      \* the position of a node_id in a scan of the table
    Total_Node,      \* 3 in the code, whatever the table holds
    Total_criteria,  \* 8 in the code
    Benefit,         \* the criteria that are better when larger: DiskFree
    Scale,
    Epsilon,         \* what stands in for a quotient that is 0
    MaxCalls,        \* bound on calls of Score
    Entropy_w(_)     \* the weights of the criteria, from a normalised table

Criteria == 1..Total_criteria
Ranked   == 1..Total_Node

ASSUME ScoringAssumption ==
    /\ Nodes \subseteq Nat
    /\ TokenOrder \in [NodeIds -> Nat]
    /\ \A a, b \in NodeIds : TokenOrder[a] = TokenOrder[b] => a = b
    /\ Total_Node \in Nat \ {0}
    /\ Total_criteria \in Nat \ {0}
    /\ Benefit \subseteq Criteria
    /\ Metrics \subseteq [Criteria -> Nat]
    /\ Scale \in Nat \ {0}
    /\ Epsilon \in Nat \ {0}
    /\ MaxCalls \in Nat

VARIABLES
    Gobal,       \* GobalMin_* and GobalMax_DiskFree, by criterion
    Aw,          \* the worst alternative, by criterion
    Ab,          \* the best alternative
    at,          \* where a call is: phase, row and criterion
    read,        \* the rows it read
    data,        \* its copy, normalised and weighed in place
    seenAw,      \* Aw as it was when each row was compared with it
    seenAb,
    top,         \* the row it preferred, 0 for none
    score,       \* what it gave its node
    overlapped,  \* history: another call was under way at the same time
    calls        \* the calls so far

shared == <<Gobal, Aw, Ab>>
local  == <<read, data, seenAw, seenAb>>
answer == <<top, score>>
ghosts == <<overlapped, calls>>
vars   == <<collectorVars, shared, at, local, answer, ghosts>>

Phases == {"idle", "anchor", "lower", "store", "zero", "fill", "normalise",
           "worst", "best", "diw", "dib", "rank"}

At(phase, i, j) == [phase |-> phase, i |-> i, j |-> j]

Zeros == [k \in Criteria |-> 0]
Blank == [i \in Ranked |-> Zeros]

Active(n) == at[n].phase # "idle"

\* The state at the start, but for the counters that bound the model.
Fresh ==
    /\ CollectorInit
    /\ Gobal = Zeros /\ Aw = Zeros /\ Ab = Zeros
    /\ at = [n \in Nodes |-> At("idle", 1, 1)]
    /\ read = [n \in Nodes |-> <<>>]
    /\ data = [n \in Nodes |-> <<>>]
    /\ seenAw = [n \in Nodes |-> Blank]
    /\ seenAb = [n \in Nodes |-> Blank]
    /\ top = [n \in Nodes |-> 0]
    /\ score = [n \in Nodes |-> 0]
    /\ overlapped = [n \in Nodes |-> FALSE]

Init == Fresh /\ clock = 0 /\ faults = 0 /\ calls = 0

-----------------------------------------------------------------------------
(***************************************************************************)
(* Where a call goes next                                                  *)
(***************************************************************************)

Goes(n, to) == at' = [at EXCEPT ![n] = to]

\* The next criterion of a loop over the criteria.
NextCriterion(a, phase, after) ==
    IF a.j < Total_criteria THEN At(phase, a.i, a.j + 1) ELSE after

\* Mutated form of NextCell: the loop runs one row too far.
NextCellPast(a, phase, after) ==
    NextCriterion(a, phase,
        IF a.i <= Total_Node THEN At(phase, a.i + 1, 1) ELSE after)

\* The next cell of a loop over rows and criteria.
NextCell(a, phase, after) ==
    NextCriterion(a, phase,
        IF a.i < Total_Node THEN At(phase, a.i + 1, 1) ELSE after)

-----------------------------------------------------------------------------
(***************************************************************************)
(* CalculateTopNodeFromScylla: the rows                                    *)
(***************************************************************************)

\* The order of a scan: by token of the node_id, then newest first.
Precedes(r, s) ==
    \/ TokenOrder[r.node_id] < TokenOrder[s.node_id]
    \/ r.node_id = s.node_id /\ r.id > s.id

Scan == {f \in [1..Cardinality(metricdata) -> metricdata] :
            \A a, b \in DOMAIN f : a < b => Precedes(f[a], f[b])}

\* The call begins with the SELECT.  Calls that are under way overlap it.
Begins(n) ==
    /\ ~Active(n)
    /\ calls < MaxCalls
    /\ calls' = calls + 1
    /\ overlapped' = [m \in Nodes |->
           IF m = n THEN \E o \in Nodes \ {n} : Active(o)
                    ELSE overlapped[m] \/ Active(m)]

Read(n) ==
    /\ Begins(n)
    /\ \E f \in Scan :
           /\ f # <<>>
           /\ read' = [read EXCEPT ![n] = [i \in DOMAIN f |-> f[i].agg]]
           /\ data' = [data EXCEPT ![n] = [i \in DOMAIN f |-> f[i].agg]]
    /\ Goes(n, At("anchor", 1, 1))
    /\ UNCHANGED <<collectorVars, shared, seenAw, seenAb, answer>>

\* No row, or a query that fails: Score answers 0.
ReadFails(n) ==
    /\ Begins(n)
    /\ read' = [read EXCEPT ![n] = <<>>]
    /\ data' = [data EXCEPT ![n] = <<>>]
    /\ top' = [top EXCEPT ![n] = 0]
    /\ score' = [score EXCEPT ![n] = 0]
    /\ UNCHANGED <<collectorVars, shared, at, seenAw, seenAb>>

-----------------------------------------------------------------------------
(***************************************************************************)
(* norm_matrix                                                             *)
(***************************************************************************)

\* Mutated form of Anchor: the anchors stay as the last call left them.
AnchorKept(n) ==
    /\ at[n].phase = "anchor"
    /\ Goes(n, NextCriterion(at[n], "anchor", At("lower", 1, 1)))
    /\ UNCHANGED <<collectorVars, shared, local, answer, ghosts>>

\* The anchors start with the values of the first row.
Anchor(n) ==
    /\ at[n].phase = "anchor"
    /\ Gobal' = [Gobal EXCEPT ![at[n].j] = data[n][1][at[n].j]]
    /\ Goes(n, NextCriterion(at[n], "anchor", At("lower", 1, 1)))
    /\ UNCHANGED <<collectorVars, Aw, Ab, local, answer, ghosts>>

Beyond(k, x, y) == IF k \in Benefit THEN x > y ELSE x < y

AfterLower(a) == NextCell(a, "lower", At("zero", 1, 1))

Lower(n) ==
    LET i == at[n].i
        j == at[n].j
    IN  /\ at[n].phase = "lower"
        /\ i \in DOMAIN data[n]
        /\ Goes(n, IF Beyond(j, data[n][i][j], Gobal[j]) THEN At("store", i, j)
                                                         ELSE AfterLower(at[n]))
        /\ UNCHANGED <<collectorVars, shared, local, answer, ghosts>>

Store(n) ==
    /\ at[n].phase = "store"
    /\ Gobal' = [Gobal EXCEPT ![at[n].j] = data[n][at[n].i][at[n].j]]
    /\ Goes(n, AfterLower(at[n]))
    /\ UNCHANGED <<collectorVars, Aw, Ab, local, answer, ghosts>>

\* Fewer than Total_Node rows: the index is out of range, kube-scheduler
\* goes down with all its calls and starts again.
Panic(n) ==
    /\ at[n].phase = "lower"
    /\ at[n].i \notin DOMAIN data[n]
    /\ Gobal' = Zeros /\ Aw' = Zeros /\ Ab' = Zeros
    /\ at' = [m \in Nodes |-> At("idle", 1, 1)]
    /\ read' = [m \in Nodes |-> <<>>]
    /\ data' = [m \in Nodes |-> <<>>]
    /\ seenAw' = [m \in Nodes |-> Blank]
    /\ seenAb' = [m \in Nodes |-> Blank]
    /\ top' = [m \in Nodes |-> 0]
    /\ score' = [m \in Nodes |-> 0]
    /\ overlapped' = [m \in Nodes |-> FALSE]
    /\ UNCHANGED <<collectorVars, calls>>

AfterZero(a) == NextCriterion(a, "zero", At("normalise", 1, 1))

\* An anchor of 0 becomes 0.01.
Zero(n) ==
    /\ at[n].phase = "zero"
    /\ Goes(n, IF Gobal[at[n].j] = 0 THEN At("fill", 1, at[n].j) ELSE AfterZero(at[n]))
    /\ UNCHANGED <<collectorVars, shared, local, answer, ghosts>>

Fill(n) ==
    /\ at[n].phase = "fill"
    /\ Gobal' = [Gobal EXCEPT ![at[n].j] = 1]
    /\ Goes(n, AfterZero(at[n]))
    /\ UNCHANGED <<collectorVars, Aw, Ab, local, answer, ghosts>>

\* A metric in relation to its anchor.  A cost of 0 stays 0; an anchor of 0
\* can only be met when calls overlap.
Normal(k, x, g) ==
    IF k \in Benefit
    THEN IF g > 0 THEN (Scale * x) \div g ELSE x
    ELSE IF x = 0 THEN 0 ELSE IF g = 0 THEN Epsilon ELSE (Scale * g) \div x

\* normlised_decision_matrix with the weights of Entropy_w.
Weighed(t) ==
    [i \in DOMAIN t |->
        IF i \in Ranked THEN [k \in Criteria |-> Entropy_w(t)[k] * t[i][k]] ELSE t[i]]

\* After the last cell the table is weighed, which touches nothing shared.
Normalise(n) ==
    LET i == at[n].i
        j == at[n].j
        t == [data[n] EXCEPT ![i] = [data[n][i] EXCEPT ![j] =
                 Normal(j, data[n][i][j], Gobal[j])]]
    IN  /\ at[n].phase = "normalise"
        /\ data' = [data EXCEPT ![n] =
               IF i = Total_Node /\ j = Total_criteria THEN Weighed(t) ELSE t]
        /\ Goes(n, NextCell(at[n], "normalise", At("worst", 1, 1)))
        /\ UNCHANGED <<collectorVars, shared, read, seenAw, seenAb, answer, ghosts>>

-----------------------------------------------------------------------------
(***************************************************************************)
(* worst_best_alternative and Score                                        *)
(***************************************************************************)

Column(t, k) == {t[i][k] : i \in DOMAIN t}

Least(S)    == CHOOSE x \in S : \A y \in S : x <= y
Greatest(S) == CHOOSE x \in S : \A y \in S : x >= y

\* Mutated form of Worst: the alternatives change places.
WorstSwapped(n) ==
    /\ at[n].phase = "worst"
    /\ Aw' = [Aw EXCEPT ![at[n].j] = Greatest(Column(data[n], at[n].j))]
    /\ Goes(n, At("best", 1, at[n].j))
    /\ UNCHANGED <<collectorVars, Gobal, Ab, local, answer, ghosts>>

Worst(n) ==
    /\ at[n].phase = "worst"
    /\ Aw' = [Aw EXCEPT ![at[n].j] = Least(Column(data[n], at[n].j))]
    /\ Goes(n, At("best", 1, at[n].j))
    /\ UNCHANGED <<collectorVars, Gobal, Ab, local, answer, ghosts>>

Best(n) ==
    /\ at[n].phase = "best"
    /\ Ab' = [Ab EXCEPT ![at[n].j] = Greatest(Column(data[n], at[n].j))]
    /\ Goes(n, NextCriterion(at[n], "worst", At("diw", 1, 1)))
    /\ UNCHANGED <<collectorVars, Gobal, Aw, local, answer, ghosts>>

\* Diw_Sigma_Tij_Twj: the row against the worst alternative.
Diw(n) ==
    /\ at[n].phase = "diw"
    /\ seenAw' = [seenAw EXCEPT ![n] = [seenAw[n] EXCEPT ![at[n].i] = Aw]]
    /\ Goes(n, At("dib", at[n].i, 1))
    /\ UNCHANGED <<collectorVars, shared, read, data, seenAb, answer, ghosts>>

\* Dib_Sigma_Tij_Tbj: the row against the best alternative.
Dib(n) ==
    LET i == at[n].i
    IN  /\ at[n].phase = "dib"
        /\ seenAb' = [seenAb EXCEPT ![n] = [seenAb[n] EXCEPT ![i] = Ab]]
        /\ Goes(n, IF i < Total_Node THEN At("diw", i + 1, 1) ELSE At("rank", 1, 1))
        /\ UNCHANGED <<collectorVars, shared, read, data, seenAw, answer, ghosts>>

\* The square of the distance of two rows.
Distance(r, s) ==
    LET squares[k \in 0..Total_criteria] ==
            IF k = 0 THEN 0 ELSE squares[k - 1] + (r[k] - s[k]) * (r[k] - s[k])
    IN  squares[Total_criteria]

\* Siw of row a is larger than that of row b: Dw / (Dw + Db), as a product
\* of squares.  A row with two distances of 0 has no closeness (NaN), which
\* is larger than none.
Closer(t, w, b, x, y) ==
    Distance(t[x], w[x]) * Distance(t[y], b[y]) > Distance(t[y], w[y]) * Distance(t[x], b[x])

\* The first of the closest rows; the first row when no closeness is above 0.
TopRow(t, w, b) ==
    LET above == {x \in Ranked : Distance(t[x], w[x]) > 0}
        best  == {x \in above : \A y \in above : ~Closer(t, w, b, y, x)}
    IN  IF above = {} THEN 1 ELSE Least(best)

\* calculateScore: row i is taken for "node<i - 1>".
ScoreOf(n, i) == IF n = i - 1 THEN 100 ELSE 0

Rank(n) ==
    LET i == TopRow(data[n], seenAw[n], seenAb[n])
    IN  /\ at[n].phase = "rank"
        /\ top' = [top EXCEPT ![n] = i]
        /\ score' = [score EXCEPT ![n] = ScoreOf(n, i)]
        /\ data' = [data EXCEPT ![n] = <<>>]
        /\ seenAw' = [seenAw EXCEPT ![n] = Blank]
        /\ seenAb' = [seenAb EXCEPT ![n] = Blank]
        /\ Goes(n, At("idle", 1, 1))
        /\ UNCHANGED <<collectorVars, shared, read, ghosts>>

Score(n) ==
    \/ Read(n) \/ ReadFails(n) \/ Anchor(n) \/ Lower(n) \/ Store(n) \/ Panic(n)
    \/ Zero(n) \/ Fill(n) \/ Normalise(n) \/ Worst(n) \/ Best(n) \/ Diw(n)
    \/ Dib(n) \/ Rank(n)

CollectStep(c) ==
    /\ Collect(c)
    /\ UNCHANGED <<shared, at, local, answer, ghosts>>

Next ==
    \/ \E c \in Collectors : CollectStep(c)
    \/ \E n \in Nodes : Score(n)

Spec == Init /\ [][Next]_vars

-----------------------------------------------------------------------------
(***************************************************************************)
(* Properties                                                              *)
(***************************************************************************)

IsTable(t) == t \in [DOMAIN t -> [Criteria -> Nat]]

\* Every part of the state has its type.
TypeOK ==
    /\ CollectorTypeOK
    /\ Gobal \in [Criteria -> Nat] /\ Aw \in [Criteria -> Nat] /\ Ab \in [Criteria -> Nat]
    /\ at \in [Nodes -> [phase : Phases, i : Ranked, j : Criteria]]
    /\ \A n \in Nodes : IsTable(read[n]) /\ IsTable(data[n])
    /\ seenAw \in [Nodes -> [Ranked -> [Criteria -> Nat]]]
    /\ seenAb \in [Nodes -> [Ranked -> [Criteria -> Nat]]]
    /\ top \in [Nodes -> 0..Total_Node]
    /\ score \in [Nodes -> {0, 100}]
    /\ overlapped \in [Nodes -> BOOLEAN]
    /\ calls \in 0..MaxCalls

(***************************************************************************)
(* TOPSIS on a table in one piece, as the comments of calculator.go        *)
(* describe it.                                                            *)
(***************************************************************************)
AnchorOf(t, k) ==
    LET column == {t[i][k] : i \in Ranked}
        extreme == IF k \in Benefit THEN Greatest(column) ELSE Least(column)
    IN  IF extreme = 0 THEN 1 ELSE extreme

Normalised(t) ==
    [i \in DOMAIN t |->
        IF i \in Ranked THEN [k \in Criteria |-> Normal(k, t[i][k], AnchorOf(t, k))] ELSE t[i]]

Topsis(t) ==
    LET m == Weighed(Normalised(t))
    IN  TopRow(m, [i \in Ranked |-> [k \in Criteria |-> Least(Column(m, k))]],
                  [i \in Ranked |-> [k \in Criteria |-> Greatest(Column(m, k))]])

PositiveCosts(t) == \A i \in Ranked, k \in Criteria \ Benefit : t[i][k] > 0

\* Neither rounding nor a weight of 0 hides a difference between two rows.
Separates(t) ==
    LET m == Weighed(Normalised(t))
    IN  \A i, j \in Ranked, k \in Criteria : t[i][k] # t[j][k] => m[i][k] # m[j][k]

\* A call that no other call overlapped prefers the top row of TOPSIS over
\* the rows it read: nothing of an earlier call, finished or cut off, is
\* left in the package variables.
AloneIsRight ==
    \A n \in Nodes :
        (top[n] # 0 /\ ~Active(n) /\ ~overlapped[n]) =>
            /\ top[n] = Topsis(read[n])
            /\ score[n] = ScoreOf(n, Topsis(read[n]))

\* "Tinh toan truc tiep tu ScyllaDB moi lan goi": every call prefers what the
\* rows it read give, also when another call works in the same package
\* variables.
EveryCallIsRight ==
    \A n \in Nodes : top[n] # 0 /\ ~Active(n) => top[n] = Topsis(read[n])

\* Row x is at least as good as row y by every criterion, and better by one.
Dominates(x, y) ==
    /\ \A k \in Criteria : x[k] = y[k] \/ Beyond(k, x[k], y[k])
    /\ x # y

Dominated(n) == \E i \in Ranked : Dominates(read[n][i], read[n][top[n]])

Alone(n) == top[n] # 0 /\ ~Active(n) /\ ~overlapped[n] /\ DOMAIN read[n] = Ranked

\* No node does at least as well by every criterion, and better by one, than
\* the one that a call preferred that was alone, if no cost is 0.
PreferredIsBest ==
    \A n \in Nodes : Alone(n) /\ PositiveCosts(read[n]) => ~Dominated(n)

\* "cang nho cang tot -> normalize ve [0,1] voi 1 la tot nhat": the smallest
\* cost is the best one, 0 included.
SmallestIsBest == \A n \in Nodes : Alone(n) => ~Dominated(n)

=============================================================================
