-------------------------- MODULE NodeScoringProofs --------------------------
(***************************************************************************)
(* Theorems about the table of node metrics and the plugin that ranks      *)
(* nodes by it: one row per node, a call of Score that no other overlaps   *)
(* answers with TOPSIS over the rows it read, and the types.               *)
(***************************************************************************)
EXTENDS NodeScoring, FiniteSetTheorems, SequenceTheorems, WellFoundedInduction, TLAPS

-----------------------------------------------------------------------------
(***************************************************************************)
(* The collectors                                                          *)
(***************************************************************************)

\* A collector deletes rows of its own node_id only, and has attempts left
\* while it is under way.
OwnRows ==
    \A c \in Collectors : /\ \A r \in old[c] : r.node_id = NodeId[c]
                          /\ step[c] # "sample" => attempt[c] < Attempts

\* A collector alone with its node_id: at most one row, no other rows than
\* those it is going to delete, and its aggregate once that is stored.
SoleRow ==
    \A c \in Collectors :
        Sole(c) => /\ \A r, s \in RowsOf(NodeId[c]) : r = s
                   /\ step[c] = "delete" => RowsOf(NodeId[c]) \subseteq old[c]
                   /\ stored[c] => /\ step[c] = "sample"
                                   /\ \E r \in RowsOf(NodeId[c]) : r.agg = agg[c]

CollectorInv == CollectorTypeOK /\ IsFiniteSet(metricdata) /\ OwnRows /\ SoleRow

\* What a step of a collector does to the table: it deletes a row it has
\* selected, or inserts its new row when it has nothing to delete.
TableStep(c) ==
    \/ UNCHANGED <<metricdata, clock>>
    \/ /\ step[c] = "delete"
       /\ \E r \in old[c] : metricdata' = metricdata \ {r}
       /\ UNCHANGED clock
    \/ /\ step[c] = "delete"
       /\ old[c] = {}
       /\ Insert(c)

\* Every step of a collector is such a step and leaves the others alone.
LEMMA CollectEffect ==
    ASSUME CollectorTypeOK, NEW c \in Collectors, Collect(c)
    PROVE  /\ TableStep(c)
           /\ \A d \in Collectors \ {c} :
                  /\ step'[d] = step[d] /\ agg'[d] = agg[d] /\ old'[d] = old[d]
                  /\ attempt'[d] = attempt[d] /\ stored'[d] = stored[d]
<1>1. CASE Aggregate(c)
    BY <1>1 DEF Aggregate, TableStep, CollectorTypeOK
<1>2. CASE SelectOld(c)
    BY <1>2 DEF SelectOld, TableStep, CollectorTypeOK
<1>3. CASE DeleteOld(c)
    BY <1>3 DEF DeleteOld, TableStep, CollectorTypeOK
<1>4. CASE InsertData(c)
    BY <1>4 DEF InsertData, TableStep, CollectorTypeOK
<1>5. CASE Transient(c)
    BY <1>5 DEF Transient, Effect, TableStep, CollectorTypeOK
<1>6. CASE GiveUp(c)
    BY <1>6 DEF GiveUp, Effect, TableStep, CollectorTypeOK
<1> QED BY <1>1, <1>2, <1>3, <1>4, <1>5, <1>6 DEF Collect

\* The table keeps its type and stays finite.
LEMMA TableType ==
    ASSUME CollectorTypeOK, IsFiniteSet(metricdata), NEW c \in Collectors, TableStep(c)
    PROVE  metricdata' \in SUBSET Rows /\ clock' \in 0..MaxInserts /\ IsFiniteSet(metricdata')
<1>1. CASE UNCHANGED <<metricdata, clock>>
    BY <1>1 DEF CollectorTypeOK
<1>2. ASSUME NEW r \in old[c], metricdata' = metricdata \ {r}, clock' = clock
      PROVE  metricdata' \in SUBSET Rows /\ clock' \in 0..MaxInserts /\ IsFiniteSet(metricdata')
    BY <1>2, FS_RemoveElement DEF CollectorTypeOK
<1>3. CASE Insert(c)
    <2>1. clock + 1 \in 1..MaxInserts
        BY <1>3, CollectorAssumption DEF Insert, CollectorTypeOK
    <2>2. NewRow(c) \in Rows
        BY <2>1, CollectorAssumption DEF NewRow, Rows, CollectorTypeOK
    <2>3. clock' \in 0..MaxInserts
        BY <1>3, <2>1, CollectorAssumption DEF Insert
    <2> QED BY <1>3, <2>2, <2>3, FS_AddElement DEF Insert, CollectorTypeOK
<1> QED BY <1>1, <1>2, <1>3 DEF TableStep

\* The rest of a collector's state keeps its type.
LEMMA CollectType ==
    ASSUME CollectorTypeOK, OwnRows, IsFiniteSet(metricdata), NEW c \in Collectors, Collect(c)
    PROVE  CollectorTypeOK' /\ OwnRows' /\ IsFiniteSet(metricdata')
<1>1. /\ TableStep(c)
      /\ metricdata' \in SUBSET Rows /\ clock' \in 0..MaxInserts /\ IsFiniteSet(metricdata')
    BY CollectEffect, TableType
<1>2. /\ Attempts \in Nat \ {0} /\ MaxFaults \in Nat /\ NodeId \in [Collectors -> NodeIds]
    BY CollectorAssumption
<1>3. /\ faults' \in 0..MaxFaults
      /\ step' \in [Collectors -> {"sample", "select", "delete"}]
      /\ agg' \in [Collectors -> Metrics]
      /\ old' \in [Collectors -> SUBSET Rows]
      /\ attempt' \in [Collectors -> 0..Attempts]
      /\ stored' \in [Collectors -> BOOLEAN]
      /\ OwnRows'
    <2>1. CASE Aggregate(c)
        BY <1>2, <2>1 DEF Aggregate, CollectorTypeOK, OwnRows
    <2>2. CASE SelectOld(c)
        BY <1>2, <2>2 DEF SelectOld, RowsOf, CollectorTypeOK, OwnRows
    <2>3. CASE DeleteOld(c)
        BY <1>2, <2>3 DEF DeleteOld, CollectorTypeOK, OwnRows
    <2>4. CASE InsertData(c)
        BY <1>2, <2>4 DEF InsertData, CollectorTypeOK, OwnRows
    <2>5. CASE Transient(c)
        <3>1. attempt[c] + 1 \in 0..Attempts
            BY <1>2, <2>5 DEF Transient, CollectorTypeOK, OwnRows
        <3> QED BY <1>2, <2>5, <3>1 DEF Transient, CollectorTypeOK, OwnRows
    <2>6. CASE GiveUp(c)
        BY <1>2, <2>6 DEF GiveUp, CollectorTypeOK, OwnRows
    <2> QED BY <2>1, <2>2, <2>3, <2>4, <2>5, <2>6 DEF Collect
<1> QED BY <1>1, <1>3 DEF CollectorTypeOK

\* Rows of a node that nobody else writes change only by steps of its own
\* collector.
LEMMA OthersRows ==
    ASSUME OwnRows, NEW c \in Collectors, Sole(c), NEW d \in Collectors \ {c}, TableStep(d)
    PROVE  RowsOf(NodeId[c])' = RowsOf(NodeId[c])
<1>1. NodeId[d] # NodeId[c]
    BY DEF Sole
<1>2. CASE \E r \in old[d] : metricdata' = metricdata \ {r}
    BY <1>1, <1>2 DEF RowsOf, OwnRows
<1>3. CASE Insert(d)
    BY <1>1, <1>3 DEF RowsOf, Insert, NewRow
<1> QED BY <1>2, <1>3 DEF TableStep, RowsOf

\* The one row of a collector that is alone with its node_id, after a step
\* of its own.
LEMMA OwnStep ==
    ASSUME CollectorInv, NEW c \in Collectors, Sole(c), Collect(c)
    PROVE  /\ \A r, s \in RowsOf(NodeId[c])' : r = s
           /\ step'[c] = "delete" => RowsOf(NodeId[c])' \subseteq old'[c]
           /\ stored'[c] => /\ step'[c] = "sample"
                            /\ \E r \in RowsOf(NodeId[c])' : r.agg = agg'[c]
<1> DEFINE own == RowsOf(NodeId[c])
           new == RowsOf(NodeId[c])'
<1>1. /\ \A r, s \in own : r = s
      /\ step[c] = "delete" => own \subseteq old[c]
      /\ stored[c] => step[c] = "sample" /\ \E r \in own : r.agg = agg[c]
    BY DEF CollectorInv, SoleRow
<1>2. \A r, s \in new : r = s
    <2>1. TableStep(c)
        BY CollectEffect DEF CollectorInv
    <2>2. CASE metricdata' \subseteq metricdata
        BY <1>1, <2>2 DEF RowsOf
    <2>3. CASE step[c] = "delete" /\ old[c] = {} /\ Insert(c)
        <3>1. own = {}
            BY <1>1, <2>3
        <3> QED BY <2>3, <3>1 DEF RowsOf, Insert
    <2> QED BY <2>1, <2>2, <2>3 DEF TableStep
<1>3. CASE Aggregate(c)
    BY <1>2, <1>3 DEF Aggregate, CollectorInv, CollectorTypeOK
<1>4. CASE SelectOld(c)
    BY <1>1, <1>2, <1>4 DEF SelectOld, RowsOf, CollectorInv, CollectorTypeOK
<1>5. CASE DeleteOld(c)
    BY <1>1, <1>2, <1>5 DEF DeleteOld, RowsOf, CollectorInv, CollectorTypeOK
<1>6. CASE InsertData(c)
    <2>1. NewRow(c) \in new /\ NewRow(c).agg = agg'[c]
        BY <1>6 DEF InsertData, Insert, NewRow, RowsOf
    <2> QED BY <1>2, <1>6, <2>1 DEF InsertData, CollectorInv, CollectorTypeOK
<1>7. CASE Transient(c)
    BY <1>1, <1>2, <1>7 DEF Transient, CollectorInv, CollectorTypeOK
<1>8. CASE GiveUp(c)
    BY <1>1, <1>2, <1>8 DEF GiveUp, CollectorInv, CollectorTypeOK
<1> QED BY <1>3, <1>4, <1>5, <1>6, <1>7, <1>8 DEF Collect

\* The invariant of the table at the start.
LEMMA CollectorInvInit == Init => CollectorInv
<1> SUFFICES ASSUME Init PROVE CollectorInv
    OBVIOUS
<1>1. (CHOOSE m \in Metrics : TRUE) \in Metrics
    BY CollectorAssumption
<1>2. CollectorTypeOK
    BY <1>1, CollectorAssumption DEF Init, Fresh, CollectorInit, CollectorTypeOK
<1>3. OwnRows
    BY DEF Init, Fresh, CollectorInit, OwnRows
<1>4. SoleRow
    BY DEF Init, Fresh, CollectorInit, SoleRow, RowsOf
<1>5. IsFiniteSet(metricdata)
    BY FS_EmptySet DEF Init, Fresh, CollectorInit
<1> QED BY <1>2, <1>3, <1>4, <1>5 DEF CollectorInv

\* The invariant of the table after every step of a collector.
LEMMA CollectorInvStep ==
    ASSUME CollectorInv, NEW c \in Collectors, Collect(c)
    PROVE  CollectorInv'
<1>1. CollectorTypeOK' /\ OwnRows' /\ IsFiniteSet(metricdata')
    BY CollectType DEF CollectorInv
<1>2. SoleRow'
    <2> SUFFICES ASSUME NEW d \in Collectors, Sole(d)
                 PROVE  /\ \A r, s \in RowsOf(NodeId[d])' : r = s
                        /\ step'[d] = "delete" => RowsOf(NodeId[d])' \subseteq old'[d]
                        /\ stored'[d] => /\ step'[d] = "sample"
                                         /\ \E r \in RowsOf(NodeId[d])' : r.agg = agg'[d]
        BY DEF SoleRow, Sole, RowsOf
    <2>1. CASE d = c
        BY <2>1, OwnStep
    <2>2. CASE d # c
        <3>1. RowsOf(NodeId[d])' = RowsOf(NodeId[d])
            BY <2>2, CollectEffect, OthersRows DEF CollectorInv
        <3>2. /\ step'[d] = step[d] /\ agg'[d] = agg[d] /\ old'[d] = old[d]
              /\ stored'[d] = stored[d]
            BY <2>2, CollectEffect DEF CollectorInv
        <3> QED BY <3>1, <3>2 DEF CollectorInv, SoleRow
    <2> QED BY <2>1, <2>2
<1> QED BY <1>1, <1>2 DEF CollectorInv

\* Calls of Score only read the table.
LEMMA ScoreReads ==
    ASSUME NEW n \in Nodes, Score(n)
    PROVE  UNCHANGED collectorVars
BY DEF Score, Read, ReadFails, Anchor, Lower, Store, Panic, Zero, Fill, Normalise, Worst, Best,
       Diw, Dib, Rank

\* The invariant of the table for every step.
LEMMA CollectorInvNext ==
    ASSUME CollectorInv, [Next]_vars
    PROVE  CollectorInv'
<1>1. ASSUME UNCHANGED collectorVars PROVE CollectorInv'
    BY <1>1 DEF CollectorInv, CollectorTypeOK, OwnRows, SoleRow, Sole, RowsOf, collectorVars
<1>2. ASSUME NEW c \in Collectors, CollectStep(c) PROVE CollectorInv'
    BY <1>2, CollectorInvStep DEF CollectStep
<1>3. ASSUME NEW n \in Nodes, Score(n) PROVE CollectorInv'
    BY <1>1, <1>3, ScoreReads
<1>4. CASE UNCHANGED vars
    BY <1>1, <1>4 DEF vars
<1> QED BY <1>2, <1>3, <1>4 DEF Next

\* The table of node metrics never holds two rows of a node, through failed
\* statements, repeated attempts and collectors that stop, and an aggregate
\* that was stored is the row: for any number of collectors, rows and
\* attempts, as long as no two collectors write the same node_id.
THEOREM NodesHaveOneRow == Spec => []OneRowPerNode
<1>1. CollectorInv => OneRowPerNode
    BY DEF CollectorInv, SoleRow, OneRowPerNode
<1> QED BY <1>1, CollectorInvInit, CollectorInvNext, PTL DEF Spec

-----------------------------------------------------------------------------
(***************************************************************************)
(* Calls of Score                                                          *)
(***************************************************************************)

FunctionOn(f, S) == f = [x \in S |-> f[x]]

\* What the proofs need of the types, for calls that overlap as well.
CallsShape ==
    /\ Gobal \in [Criteria -> Nat]
    /\ FunctionOn(Aw, Criteria) /\ FunctionOn(Ab, Criteria)
    /\ at \in [Nodes -> [phase : Phases, i : Ranked, j : Criteria]]
    /\ FunctionOn(read, Nodes) /\ FunctionOn(data, Nodes)
    /\ FunctionOn(seenAw, Nodes) /\ FunctionOn(seenAb, Nodes)
    /\ \A n \in Nodes : FunctionOn(seenAw[n], Ranked) /\ FunctionOn(seenAb[n], Ranked)
    /\ FunctionOn(top, Nodes) /\ FunctionOn(score, Nodes)
    /\ overlapped \in [Nodes -> BOOLEAN]

\* The phases before the table is normalised.
RawPhases == {"anchor", "lower", "store", "zero", "fill"}

\* The copy of a call is the table it read until it is normalised.
RawTable(n) ==
    /\ read[n] \in Seq([Criteria -> Nat])
    /\ Active(n) => read[n] # <<>>
    /\ at[n].phase \in RawPhases => data[n] = read[n]
    /\ at[n].phase = "store" => at[n].i \in DOMAIN read[n]

\* While a call is under way that no other overlapped, there is no other.
Solo ==
    \A n \in Nodes : Active(n) /\ ~overlapped[n] => \A m \in Nodes \ {n} : ~Active(m)

\* g is the value of one of the rows X, and none is beyond it.
Extreme(t, k, X, g) ==
    /\ \E x \in X : g = t[x][k]
    /\ \A x \in X : ~Beyond(k, t[x][k], g)

\* A call at a is done with the cell of row x and criterion k.
Before(a, x, k) == x < a.i \/ (x = a.i /\ k < a.j)

\* The rows that a call at a has compared with the anchor of criterion k.
Scanned(a, k) == {1} \union {x \in Ranked : Before(a, x, k)}

Lowered(n) ==
    \A k \in Criteria : /\ Scanned(at[n], k) \subseteq DOMAIN read[n]
                        /\ Extreme(read[n], k, Scanned(at[n], k), Gobal[k])

Zeroed(n) ==
    /\ Ranked \subseteq DOMAIN read[n]
    /\ \A k \in Criteria : IF k < at[n].j THEN Gobal[k] = AnchorOf(read[n], k)
                                          ELSE Extreme(read[n], k, Ranked, Gobal[k])

\* The table of a call at a: the cells before a are normalised.
NormalisedTo(t, a) ==
    [x \in DOMAIN t |-> [k \in Criteria |->
        IF Before(a, x, k) THEN Normal(k, t[x][k], AnchorOf(t, k)) ELSE t[x][k]]]

Normalising(n) ==
    /\ Ranked \subseteq DOMAIN read[n]
    /\ \A k \in Criteria : Gobal[k] = AnchorOf(read[n], k)
    /\ data[n] = NormalisedTo(read[n], at[n])

Final(n)    == Weighed(Normalised(read[n]))
WorstRow(m) == [k \in Criteria |-> Least(Column(m, k))]
BestRow(m)  == [k \in Criteria |-> Greatest(Column(m, k))]

Choosing(n) ==
    /\ data[n] = Final(n)
    /\ \A k \in Criteria : k < at[n].j => /\ Aw[k] = WorstRow(Final(n))[k]
                                          /\ Ab[k] = BestRow(Final(n))[k]

Comparing(n) ==
    /\ data[n] = Final(n)
    /\ Aw = WorstRow(Final(n)) /\ Ab = BestRow(Final(n))
    /\ \A x \in Ranked :
           (at[n].phase = "rank" \/ x < at[n].i) => /\ seenAw[n][x] = Aw
                                                    /\ seenAb[n][x] = Ab

\* How far a call is that no other overlaps.
Progress(n) ==
    LET p == at[n].phase
        i == at[n].i
        j == at[n].j
    IN  /\ p = "anchor" => \A k \in Criteria : k < j => Gobal[k] = read[n][1][k]
        /\ p \in {"lower", "store"} => Lowered(n)
        /\ p = "store" => Beyond(j, read[n][i][j], Gobal[j])
        /\ p \in {"zero", "fill"} => Zeroed(n)
        /\ p = "fill" => Gobal[j] = 0
        /\ p = "normalise" => Normalising(n)
        /\ p \in {"worst", "best"} => Choosing(n)
        /\ p = "best" => Aw[j] = WorstRow(Final(n))[j]
        /\ p \in {"diw", "dib", "rank"} => Comparing(n)
        /\ p = "dib" => seenAw[n][i] = Aw

\* The calls: what is true of all of them, how far one is that no other
\* overlaps, and its answer.
ScoringInv ==
    /\ CallsShape
    /\ \A n \in Nodes : RawTable(n)
    /\ Solo
    /\ \A n \in Nodes : Active(n) /\ ~overlapped[n] => Progress(n)
    /\ AloneIsRight

\* An entry of a function is replaced.
LEMMA ExceptOn ==
    ASSUME NEW S, NEW f, FunctionOn(f, S), NEW x \in S, NEW v
    PROVE  /\ FunctionOn([f EXCEPT ![x] = v], S)
           /\ [f EXCEPT ![x] = v][x] = v
           /\ \A y \in S \ {x} : [f EXCEPT ![x] = v][y] = f[y]
BY DEF FunctionOn

\* A function written as one.
LEMMA MapOn ==
    ASSUME NEW S, NEW f, FunctionOn(f, S), NEW g, FunctionOn(g, S), \A x \in S : f[x] = g[x]
    PROVE  f = g
BY DEF FunctionOn

Place == [phase : Phases, i : Ranked, j : Criteria]

\* The parts of a place.
LEMMA AtParts ==
    ASSUME NEW p \in Phases, NEW i \in Ranked, NEW j \in Criteria
    PROVE  /\ At(p, i, j) \in Place
           /\ At(p, i, j).phase = p /\ At(p, i, j).i = i /\ At(p, i, j).j = j
BY DEF At, Place

\* Row 1 and criterion 1 exist.
LEMMA FirstCell == 1 \in Ranked /\ 1 \in Criteria /\ Total_Node \in Ranked /\ Total_criteria \in Criteria
BY ScoringAssumption DEF Ranked, Criteria

\* Where a loop over the criteria goes next.
LEMMA NextCriterionCases ==
    ASSUME NEW a \in Place, NEW p \in Phases, NEW after
    PROVE  LET b == NextCriterion(a, p, after)
           IN  \/ /\ a.j + 1 \in Criteria
                  /\ b = At(p, a.i, a.j + 1) /\ b \in Place
                  /\ b.phase = p /\ b.i = a.i /\ b.j = a.j + 1
               \/ a.j = Total_criteria /\ b = after
<1>1. a.i \in Ranked /\ a.j \in Criteria /\ Total_criteria \in Nat
    BY ScoringAssumption DEF Place
<1>2. CASE a.j < Total_criteria
    <2>1. a.j + 1 \in Criteria
        BY <1>1, <1>2 DEF Criteria
    <2> QED BY <1>1, <1>2, <2>1, AtParts DEF NextCriterion
<1>3. CASE ~(a.j < Total_criteria)
    BY <1>1, <1>3 DEF NextCriterion, Criteria
<1> QED BY <1>2, <1>3

\* Where a loop over rows and criteria goes next.
LEMMA NextCellCases ==
    ASSUME NEW a \in Place, NEW p \in Phases, NEW after
    PROVE  LET b == NextCell(a, p, after)
           IN  \/ /\ a.j + 1 \in Criteria
                  /\ b \in Place /\ b.phase = p /\ b.i = a.i /\ b.j = a.j + 1
               \/ /\ a.j = Total_criteria /\ a.i + 1 \in Ranked
                  /\ b \in Place /\ b.phase = p /\ b.i = a.i + 1 /\ b.j = 1
               \/ a.j = Total_criteria /\ a.i = Total_Node /\ b = after
<1>1. a.i \in Ranked /\ Total_Node \in Nat
    BY ScoringAssumption DEF Place
<1>2. CASE a.i < Total_Node
    <2>1. a.i + 1 \in Ranked
        BY <1>1, <1>2 DEF Ranked
    <2>2. /\ At(p, a.i + 1, 1) \in Place
          /\ At(p, a.i + 1, 1).phase = p /\ At(p, a.i + 1, 1).i = a.i + 1 /\ At(p, a.i + 1, 1).j = 1
        BY <2>1, FirstCell, AtParts
    <2> QED BY <1>2, <2>1, <2>2, NextCriterionCases DEF NextCell
<1>3. CASE ~(a.i < Total_Node)
    <2>1. a.i = Total_Node
        BY <1>1, <1>3 DEF Ranked
    <2> QED BY <1>3, <2>1, NextCriterionCases DEF NextCell
<1> QED BY <1>2, <1>3

\* Every step of a call leads to a place, and only ReadFails, Rank and Panic
\* leave none of the loops.
LEMMA PlacesNext ==
    ASSUME NEW a \in Place
    PROVE  /\ NextCriterion(a, "anchor", At("lower", 1, 1)) \in Place
           /\ AfterLower(a) \in Place
           /\ AfterZero(a) \in Place
           /\ NextCell(a, "normalise", At("worst", 1, 1)) \in Place
           /\ NextCriterion(a, "worst", At("diw", 1, 1)) \in Place
<1>1. \A p \in Phases : At(p, 1, 1) \in Place
    BY FirstCell, AtParts
<1>2. {"anchor", "lower", "zero", "normalise", "worst", "diw"} \subseteq Phases
    BY DEF Phases
<1> QED BY <1>1, <1>2, NextCriterionCases, NextCellCases DEF AfterLower, AfterZero

\* A call that reads the table.
LEMMA ScanIsTable ==
    ASSUME CollectorInv, NEW f \in Scan, f # <<>>
    PROVE  /\ [i \in DOMAIN f |-> f[i].agg] \in Seq([Criteria -> Nat])
           /\ [i \in DOMAIN f |-> f[i].agg] # <<>>
<1> DEFINE k == Cardinality(metricdata)
           g == [i \in DOMAIN f |-> f[i].agg]
<1>1. k \in Nat
    BY FS_CardinalityType DEF CollectorInv
<1>2. f \in [1..k -> metricdata]
    BY DEF Scan
<1> HIDE DEF k
<1>3. f \in Seq(metricdata) /\ Len(f) = k /\ DOMAIN f = 1..k
    BY <1>1, <1>2
<1>4. k # 0
    BY <1>3, EmptySeq
<1>5. \A i \in 1..k : f[i].agg \in [Criteria -> Nat]
    <2>1. \A r \in metricdata : r.agg \in Metrics
        BY DEF CollectorInv, CollectorTypeOK, Rows
    <2>2. Metrics \subseteq [Criteria -> Nat]
        BY ScoringAssumption
    <2> QED BY <1>2, <2>1, <2>2
<1>6. g \in [1..k -> [Criteria -> Nat]]
    BY <1>3, <1>5
<1>7. g \in Seq([Criteria -> Nat]) /\ Len(g) = k
    BY <1>1, <1>6
<1> QED BY <1>1, <1>4, <1>7, EmptySeq

\* A call that moves leaves the places of the others alone.
LEMMA Moves ==
    ASSUME CallsShape, NEW n \in Nodes, NEW to \in Place, Goes(n, to)
    PROVE  /\ at' \in [Nodes -> Place]
           /\ at'[n] = to
           /\ \A m \in Nodes \ {n} : at'[m] = at[m]
BY DEF CallsShape, Place, Goes

\* The first row of a call that is under way, and the value of a cell.
LEMMA Cells ==
    ASSUME NEW n \in Nodes, RawTable(n)
    PROVE  /\ Active(n) => 1 \in DOMAIN read[n]
           /\ \A x \in DOMAIN read[n], k \in Criteria : read[n][x][k] \in Nat
           /\ \A x \in DOMAIN read[n] : read[n][x] \in [Criteria -> Nat] /\ x \in Nat \ {0}
<1>1. read[n] \in Seq([Criteria -> Nat])
    BY DEF RawTable, RawPhases
<1>2. Active(n) => Len(read[n]) \in Nat \ {0}
    BY <1>1, EmptySeq DEF RawTable, RawPhases
<1>3. DOMAIN read[n] = 1..Len(read[n]) /\ Len(read[n]) \in Nat
    BY <1>1
<1>4. \A x \in DOMAIN read[n] : read[n][x] \in [Criteria -> Nat]
    BY <1>1, <1>3
<1> QED BY <1>2, <1>3, <1>4

\* What a step of a call does to the places and to its own tables; Panic,
\* which stops all calls, is looked at by itself.
LEMMA CallEffect ==
    ASSUME CollectorInv, CallsShape, NEW n \in Nodes, RawTable(n), Score(n), ~Panic(n)
    PROVE  /\ at' \in [Nodes -> Place]
           /\ FunctionOn(read', Nodes) /\ FunctionOn(data', Nodes)
           /\ FunctionOn(seenAw', Nodes) /\ FunctionOn(seenAb', Nodes)
           /\ FunctionOn(top', Nodes) /\ FunctionOn(score', Nodes)
           /\ FunctionOn(seenAw'[n], Ranked) /\ FunctionOn(seenAb'[n], Ranked)
           /\ \A m \in Nodes \ {n} :
                  /\ at'[m] = at[m] /\ read'[m] = read[m] /\ data'[m] = data[m]
                  /\ seenAw'[m] = seenAw[m] /\ seenAb'[m] = seenAb[m]
                  /\ top'[m] = top[m] /\ score'[m] = score[m]
<1> DEFINE a == at[n]
           Kept(f) == f' = f \/ \E v : f' = [f EXCEPT ![n] = v]
<1>1. a \in Place /\ a.i \in Ranked /\ a.j \in Criteria
    BY DEF CallsShape, Place
<1>2. \A p \in Phases, i \in Ranked, j \in Criteria : At(p, i, j) \in Place
    BY AtParts
<1>3. \E to \in Place : Goes(n, to) \/ at' = at
    <2>1. CASE Lower(n)
        <3>1. At("store", a.i, a.j) \in Place
            BY <1>1, <1>2 DEF Phases
        <3> QED BY <1>1, <2>1, <3>1, PlacesNext DEF Lower
    <2>2. CASE Zero(n)
        <3>1. At("fill", 1, a.j) \in Place
            BY <1>1, <1>2, FirstCell DEF Phases
        <3> QED BY <1>1, <2>2, <3>1, PlacesNext DEF Zero
    <2>3. CASE Dib(n)
        <3>1. At("rank", 1, 1) \in Place
            BY <1>2, FirstCell DEF Phases
        <3>2. a.i < Total_Node => At("diw", a.i + 1, 1) \in Place
            <4>1. a.i < Total_Node => a.i + 1 \in Ranked
                BY <1>1, ScoringAssumption DEF Ranked
            <4> QED BY <1>2, <4>1, FirstCell DEF Phases
        <3> QED BY <2>3, <3>1, <3>2 DEF Dib
    <2>4. CASE Read(n) \/ Worst(n) \/ Diw(n) \/ Rank(n)
        <3>1. {At("anchor", 1, 1), At("best", 1, a.j), At("dib", a.i, 1), At("idle", 1, 1)} \subseteq Place
            BY <1>1, <1>2, FirstCell DEF Phases
        <3> QED BY <2>4, <3>1 DEF Read, Worst, Diw, Rank
    <2>5. CASE Anchor(n) \/ Store(n) \/ Fill(n) \/ Normalise(n) \/ Best(n)
        BY <1>1, <2>5, PlacesNext DEF Anchor, Store, Fill, Normalise, Best
    <2>6. CASE ReadFails(n)
        BY <1>1, <2>6 DEF ReadFails
    <2> QED BY <2>1, <2>2, <2>3, <2>4, <2>5, <2>6 DEF Score
<1>4. at' \in [Nodes -> Place] /\ \A m \in Nodes \ {n} : at'[m] = at[m]
    <2>1. at \in [Nodes -> Place]
        BY DEF CallsShape, Place
    <2> QED BY <1>3, <2>1, Moves
<1>5. Kept(read) /\ Kept(data) /\ Kept(top) /\ Kept(score) /\ Kept(seenAw) /\ Kept(seenAb)
    <2>1. CASE Read(n)
        BY <2>1 DEF Read, answer
    <2>2. CASE ReadFails(n)
        BY <2>2 DEF ReadFails
    <2>3. CASE Anchor(n) \/ Lower(n) \/ Store(n) \/ Zero(n) \/ Fill(n) \/ Worst(n) \/ Best(n)
        BY <2>3 DEF Anchor, Lower, Store, Zero, Fill, Worst, Best, local, answer
    <2>4. CASE Normalise(n)
        BY <2>4 DEF Normalise, answer
    <2>5. CASE Diw(n)
        BY <2>5 DEF Diw, answer
    <2>6. CASE Dib(n)
        BY <2>6 DEF Dib, answer
    <2>7. CASE Rank(n)
        BY <2>7 DEF Rank
    <2> QED BY <2>1, <2>2, <2>3, <2>4, <2>5, <2>6, <2>7 DEF Score
<1>6. ASSUME NEW f, FunctionOn(f, Nodes), NEW g, g = f \/ \E v : g = [f EXCEPT ![n] = v]
      PROVE  FunctionOn(g, Nodes) /\ \A m \in Nodes \ {n} : g[m] = f[m]
    BY <1>6, ExceptOn
<1>7. FunctionOn(seenAw'[n], Ranked) /\ FunctionOn(seenAb'[n], Ranked)
    <2>1. FunctionOn(Blank, Ranked)
        BY DEF FunctionOn, Blank
    <2>2. FunctionOn(seenAw, Nodes) /\ FunctionOn(seenAb, Nodes)
          /\ FunctionOn(seenAw[n], Ranked) /\ FunctionOn(seenAb[n], Ranked)
        BY DEF CallsShape
    <2>3. CASE UNCHANGED <<seenAw, seenAb>>
        BY <2>2, <2>3
    <2>4. CASE Diw(n)
        <3>1. FunctionOn([seenAw[n] EXCEPT ![a.i] = Aw], Ranked)
            BY <1>1, <2>2, ExceptOn
        <3> QED BY <2>2, <2>4, <3>1, ExceptOn DEF Diw
    <2>5. CASE Dib(n)
        <3>1. FunctionOn([seenAb[n] EXCEPT ![a.i] = Ab], Ranked)
            BY <1>1, <2>2, ExceptOn
        <3> QED BY <2>2, <2>5, <3>1, ExceptOn DEF Dib
    <2>6. CASE Rank(n)
        BY <2>1, <2>2, <2>6, ExceptOn DEF Rank
    <2>7. UNCHANGED <<seenAw, seenAb>> \/ Diw(n) \/ Dib(n) \/ Rank(n)
        BY DEF Score, Read, ReadFails, Anchor, Lower, Store, Zero, Fill, Worst, Best, Normalise, local
    <2> QED BY <2>3, <2>4, <2>5, <2>6, <2>7
<1> HIDE DEF a
<1>8. /\ FunctionOn(read, Nodes) /\ FunctionOn(data, Nodes) /\ FunctionOn(top, Nodes)
      /\ FunctionOn(score, Nodes) /\ FunctionOn(seenAw, Nodes) /\ FunctionOn(seenAb, Nodes)
    BY DEF CallsShape
<1>9. /\ FunctionOn(read', Nodes) /\ \A m \in Nodes \ {n} : read'[m] = read[m]
    BY <1>5, <1>6, <1>8
<1>10. /\ FunctionOn(data', Nodes) /\ \A m \in Nodes \ {n} : data'[m] = data[m]
    BY <1>5, <1>6, <1>8
<1>11. /\ FunctionOn(top', Nodes) /\ \A m \in Nodes \ {n} : top'[m] = top[m]
    BY <1>5, <1>6, <1>8
<1>12. /\ FunctionOn(score', Nodes) /\ \A m \in Nodes \ {n} : score'[m] = score[m]
    BY <1>5, <1>6, <1>8
<1>13. /\ FunctionOn(seenAw', Nodes) /\ \A m \in Nodes \ {n} : seenAw'[m] = seenAw[m]
    BY <1>5, <1>6, <1>8
<1>14. /\ FunctionOn(seenAb', Nodes) /\ \A m \in Nodes \ {n} : seenAb'[m] = seenAb[m]
    BY <1>5, <1>6, <1>8
<1> HIDE DEF Kept
<1> QED BY <1>4, <1>7, <1>9, <1>10, <1>11, <1>12, <1>13, <1>14

\* What a step of a call does to the package variables.
LEMMA SharedEffect ==
    ASSUME CallsShape, NEW n \in Nodes, RawTable(n), Score(n)
    PROVE  /\ Gobal' \in [Criteria -> Nat]
           /\ FunctionOn(Aw', Criteria) /\ FunctionOn(Ab', Criteria)
<1> DEFINE a == at[n]
<1>1. /\ a.i \in Ranked /\ a.j \in Criteria /\ Gobal \in [Criteria -> Nat]
      /\ FunctionOn(Aw, Criteria) /\ FunctionOn(Ab, Criteria)
    BY DEF CallsShape, Place
<1>2. Zeros \in [Criteria -> Nat] /\ FunctionOn(Zeros, Criteria)
    BY DEF Zeros, FunctionOn
<1>3. CASE Anchor(n)
    <2>1. Active(n) /\ data[n] = read[n]
        BY <1>3 DEF Anchor, Active, RawTable, RawPhases
    <2>2. data[n][1][a.j] \in Nat
        BY <1>1, <2>1, Cells
    <2> QED BY <1>1, <1>3, <2>2 DEF Anchor
<1>4. CASE Store(n)
    <2>1. data[n] = read[n] /\ a.i \in DOMAIN read[n]
        BY <1>4 DEF Store, RawTable, RawPhases
    <2>2. data[n][a.i][a.j] \in Nat
        BY <1>1, <2>1, Cells
    <2> QED BY <1>1, <1>4, <2>2 DEF Store
<1>5. CASE Fill(n)
    BY <1>1, <1>5 DEF Fill
<1>6. CASE Worst(n)
    BY <1>1, <1>6, ExceptOn DEF Worst
<1>7. CASE Best(n)
    BY <1>1, <1>7, ExceptOn DEF Best
<1>8. CASE Panic(n)
    BY <1>2, <1>8 DEF Panic
<1>9. CASE UNCHANGED shared
    BY <1>1, <1>9 DEF shared
<1> QED BY <1>3, <1>4, <1>5, <1>6, <1>7, <1>8, <1>9
        DEF Score, Read, ReadFails, Lower, Zero, Normalise, Diw, Dib, Rank

\* The history: a call that begins overlaps all that are under way.
LEMMA OverlapEffect ==
    ASSUME CallsShape, NEW n \in Nodes, Score(n)
    PROVE  /\ overlapped' \in [Nodes -> BOOLEAN]
           /\ ~Panic(n) => \A m \in Nodes : m # n /\ overlapped[m] => overlapped'[m]
           /\ Active(n) /\ ~Panic(n) => overlapped' = overlapped
           /\ ~Active(n) => Begins(n) /\ (Read(n) \/ ReadFails(n))
<1>1. overlapped \in [Nodes -> BOOLEAN]
    BY DEF CallsShape
<1>2. CASE Read(n) \/ ReadFails(n)
    <2>1. Begins(n)
        BY <1>2 DEF Read, ReadFails
    <2>2. overlapped' = [m \in Nodes |->
               IF m = n THEN \E o \in Nodes \ {n} : Active(o) ELSE overlapped[m] \/ Active(m)]
        BY <2>1 DEF Begins
    <2>3. overlapped' \in [Nodes -> BOOLEAN] /\ \A m \in Nodes : m # n /\ overlapped[m] => overlapped'[m]
        BY <2>2
    <2> QED BY <1>2, <2>1, <2>3 DEF Begins
<1>3. CASE Panic(n)
    <2>1. Active(n) /\ overlapped' = [m \in Nodes |-> FALSE]
        BY <1>3 DEF Panic, Active
    <2> QED BY <1>3, <2>1
<1>4. CASE ~Read(n) /\ ~ReadFails(n) /\ ~Panic(n)
    <2>1. overlapped' = overlapped
        BY <1>4 DEF Score, Anchor, Lower, Store, Zero, Fill, Normalise, Worst, Best, Diw, Dib, Rank,
                    ghosts
    <2>2. Active(n)
        BY <1>4 DEF Score, Anchor, Lower, Store, Zero, Fill, Normalise, Worst, Best, Diw, Dib, Rank,
                    Active
    <2> QED BY <1>1, <2>1, <2>2
<1> QED BY <1>2, <1>3, <1>4

\* Panic leaves the state of a fresh kube-scheduler.
LEMMA PanicEffect ==
    ASSUME CollectorInv, CallsShape, NEW n \in Nodes, \A m \in Nodes : RawTable(m), Panic(n)
    PROVE  CallsShape' /\ \A m \in Nodes : RawTable(m)' /\ ~Active(m)' /\ top'[m] = 0
<1>1. At("idle", 1, 1) \in Place /\ At("idle", 1, 1).phase = "idle"
    BY FirstCell, AtParts DEF Phases
<1>2. Zeros \in [Criteria -> Nat] /\ FunctionOn(Zeros, Criteria) /\ FunctionOn(Blank, Ranked)
    BY DEF Zeros, Blank, FunctionOn
<1>3. at' \in [Nodes -> Place] /\ \A m \in Nodes : at'[m].phase = "idle"
    BY <1>1 DEF Panic
<1>4. CallsShape'
    BY <1>2, <1>3 DEF Panic, CallsShape, FunctionOn, Place
<1>5. \A m \in Nodes : RawTable(m)' /\ ~Active(m)' /\ top'[m] = 0
    <2> SUFFICES ASSUME NEW m \in Nodes
                 PROVE  RawTable(m)' /\ ~Active(m)' /\ top'[m] = 0
        OBVIOUS
    <2>1. read'[m] = <<>> /\ top'[m] = 0 /\ at'[m].phase = "idle"
        BY <1>3 DEF Panic
    <2>2. read'[m] \in Seq([Criteria -> Nat])
        BY <2>1, EmptySeq
    <2> QED BY <2>1, <2>2 DEF RawTable, Active, RawPhases
<1> QED BY <1>4, <1>5

\* A call keeps its copy until it begins to normalise it.
LEMMA RawStep ==
    ASSUME CollectorInv, CallsShape, NEW n \in Nodes, RawTable(n), Score(n), ~Panic(n)
    PROVE  RawTable(n)'
<1> DEFINE a == at[n]
<1>1. /\ a \in Place /\ a.i \in Ranked /\ a.j \in Criteria
      /\ FunctionOn(read, Nodes) /\ FunctionOn(data, Nodes)
    BY DEF CallsShape, Place
<1>2. CASE Read(n)
    <2>1. PICK f \in Scan : /\ f # <<>>
                            /\ read' = [read EXCEPT ![n] = [i \in DOMAIN f |-> f[i].agg]]
                            /\ data' = [data EXCEPT ![n] = [i \in DOMAIN f |-> f[i].agg]]
        BY <1>2 DEF Read
    <2> DEFINE g == [i \in DOMAIN f |-> f[i].agg]
    <2>2. g \in Seq([Criteria -> Nat]) /\ g # <<>>
        BY <2>1, ScanIsTable
    <2>3. read' = [read EXCEPT ![n] = g] /\ data' = [data EXCEPT ![n] = g]
        BY <2>1
    <2> HIDE DEF g
    <2>4. read'[n] = g
        BY <1>1, <2>3, ExceptOn
    <2>5. data'[n] = g
        BY <1>1, <2>3, ExceptOn
    <2>6. at'[n].phase = "anchor"
        <3>1. At("anchor", 1, 1) \in Place /\ At("anchor", 1, 1).phase = "anchor"
            BY FirstCell, AtParts DEF Phases
        <3> QED BY <1>2, <3>1, Moves DEF Read
    <2> QED BY <2>2, <2>4, <2>5, <2>6 DEF RawTable, RawPhases
<1>3. CASE ReadFails(n)
    <2> DEFINE empty == <<>>
    <2>1. read' = [read EXCEPT ![n] = empty]
        BY <1>3 DEF ReadFails
    <2> HIDE DEF empty
    <2>2. read'[n] = empty
        BY <1>1, <2>1, ExceptOn
    <2>3. read'[n] = <<>>
        BY <2>2 DEF empty
    <2>4. read'[n] \in Seq([Criteria -> Nat])
        BY <2>3, EmptySeq
    <2>5. at'[n].phase = "idle"
        BY <1>3 DEF ReadFails, Begins, Active
    <2> QED BY <2>4, <2>5 DEF RawTable, Active, RawPhases
<1>4. CASE ~Read(n) /\ ~ReadFails(n)
    <2>1. read' = read /\ Active(n)
        BY <1>4 DEF Score, Anchor, Lower, Store, Zero, Fill, Normalise, Worst, Best, Diw, Dib, Rank,
                    local, Active
    <2>2. read[n] \in Seq([Criteria -> Nat]) /\ read[n] # <<>>
        BY <2>1 DEF RawTable
    <2>3. at'[n].phase \in RawPhases =>
              /\ a.phase \in RawPhases
              /\ data' = data
              /\ at'[n].phase = "store" => a.phase = "lower" /\ a.i \in DOMAIN data[n] /\ at'[n].i = a.i
        <3>1. \A p \in Phases, i \in Ranked, j \in Criteria :
                  At(p, i, j) \in Place /\ At(p, i, j).phase = p /\ At(p, i, j).i = i
            BY AtParts
        <3>2. {"idle", "anchor", "lower", "store", "zero", "fill", "normalise",
               "worst", "best", "diw", "dib", "rank"} \subseteq Phases
            BY DEF Phases
        <3>3. AfterLower(a).phase \in {"lower", "zero"}
            BY <1>1, <3>1, <3>2, FirstCell, NextCellCases DEF AfterLower
        <3>4. AfterZero(a).phase \in {"zero", "normalise"}
            BY <1>1, <3>1, <3>2, FirstCell, NextCriterionCases DEF AfterZero
        <3>5. CASE Anchor(n)
            <4>1. NextCriterion(a, "anchor", At("lower", 1, 1)).phase \in {"anchor", "lower"}
                BY <1>1, <3>1, <3>2, FirstCell, NextCriterionCases
            <4> QED BY <1>1, <3>5, <4>1, PlacesNext, Moves DEF Anchor, local, RawPhases
        <3>6. CASE Lower(n)
            <4>1. CASE Goes(n, At("store", a.i, a.j))
                <5>1. at'[n] = At("store", a.i, a.j)
                    BY <1>1, <3>1, <3>2, <4>1, Moves
                <5> QED BY <1>1, <3>1, <3>2, <3>6, <5>1 DEF Lower, local, RawPhases
            <4>2. CASE Goes(n, AfterLower(a))
                <5>1. at'[n] = AfterLower(a)
                    BY <1>1, <4>2, PlacesNext, Moves
                <5> QED BY <3>3, <3>6, <5>1 DEF Lower, local, RawPhases
            <4> QED BY <3>6, <4>1, <4>2 DEF Lower, RawPhases
        <3>7. CASE Store(n)
            BY <1>1, <3>3, <3>7, PlacesNext, Moves DEF Store, local, RawPhases
        <3>8. CASE Zero(n)
            <4>1. at'[n] = At("fill", 1, a.j) \/ at'[n] = AfterZero(a)
                BY <1>1, <3>1, <3>2, <3>8, FirstCell, PlacesNext, Moves DEF Zero
            <4> QED BY <1>1, <3>1, <3>2, <3>4, <3>8, <4>1, FirstCell DEF Zero, local, RawPhases
        <3>9. CASE Fill(n)
            BY <1>1, <3>4, <3>9, PlacesNext, Moves DEF Fill, local, RawPhases
        <3>10. CASE Normalise(n)
            <4>1. NextCell(a, "normalise", At("worst", 1, 1)).phase \in {"normalise", "worst"}
                BY <1>1, <3>1, <3>2, FirstCell, NextCellCases
            <4> QED BY <1>1, <3>10, <4>1, PlacesNext, Moves DEF Normalise, RawPhases
        <3>11. CASE Worst(n)
            <4>1. at'[n] = At("best", 1, a.j)
                BY <1>1, <3>1, <3>2, <3>11, FirstCell, Moves DEF Worst
            <4> QED BY <1>1, <3>1, <3>2, <4>1, FirstCell DEF RawPhases
        <3>12. CASE Best(n)
            <4>1. NextCriterion(a, "worst", At("diw", 1, 1)).phase \in {"worst", "diw"}
                BY <1>1, <3>1, <3>2, FirstCell, NextCriterionCases
            <4> QED BY <1>1, <3>12, <4>1, PlacesNext, Moves DEF Best, RawPhases
        <3>13. CASE Diw(n)
            <4>1. at'[n] = At("dib", a.i, 1)
                BY <1>1, <3>1, <3>2, <3>13, FirstCell, Moves DEF Diw
            <4> QED BY <1>1, <3>1, <3>2, <4>1, FirstCell DEF RawPhases
        <3>14. CASE Dib(n)
            <4>1. a.i < Total_Node => a.i + 1 \in Ranked
                BY <1>1, ScoringAssumption DEF Ranked
            <4>2. at'[n] = At("rank", 1, 1) \/ (a.i + 1 \in Ranked /\ at'[n] = At("diw", a.i + 1, 1))
                BY <1>1, <3>1, <3>2, <3>14, <4>1, FirstCell, Moves DEF Dib
            <4> QED BY <3>1, <3>2, <4>2, FirstCell DEF RawPhases
        <3>15. CASE Rank(n)
            <4>1. at'[n] = At("idle", 1, 1)
                BY <3>1, <3>2, <3>15, FirstCell, Moves DEF Rank
            <4> QED BY <3>1, <3>2, <4>1, FirstCell DEF RawPhases
        <3> QED BY <1>4, <3>5, <3>6, <3>7, <3>8, <3>9, <3>10, <3>11, <3>12, <3>13, <3>14, <3>15
                DEF Score
    <2> QED BY <2>1, <2>2, <2>3 DEF RawTable, RawPhases
<1> QED BY <1>2, <1>3, <1>4

\* Shapes and tables after a step of a call.
LEMMA ShapeStep ==
    ASSUME CollectorInv, CallsShape, \A m \in Nodes : RawTable(m), NEW n \in Nodes, Score(n)
    PROVE  CallsShape' /\ \A m \in Nodes : RawTable(m)'
<1>1. CASE Panic(n)
    BY <1>1, PanicEffect
<1>2. CASE ~Panic(n)
    <2>1. \A m \in Nodes \ {n} : RawTable(m)'
        BY <1>2, CallEffect DEF RawTable, Active
    <2>2. RawTable(n)'
        BY <1>2, RawStep
    <2>3. \A m \in Nodes : FunctionOn(seenAw'[m], Ranked) /\ FunctionOn(seenAb'[m], Ranked)
        BY <1>2, CallEffect DEF CallsShape
    <2>4. CallsShape'
        BY <1>2, <2>3, CallEffect, SharedEffect, OverlapEffect DEF CallsShape, Place
    <2> QED BY <2>1, <2>2, <2>4
<1> QED BY <1>1, <1>2

-----------------------------------------------------------------------------
(***************************************************************************)
(* The anchors and the normalised table                                    *)
(***************************************************************************)

\* The greatest of a set of numbers is the element that none exceeds.
LEMMA GreatestIs ==
    ASSUME NEW S, S \subseteq Nat, NEW g \in S, \A y \in S : g >= y
    PROVE  Greatest(S) = g
<1> DEFINE l == CHOOSE x \in S : \A y \in S : x >= y
<1>1. l \in S /\ \A y \in S : l >= y
    OBVIOUS
<1> HIDE DEF l
<1>2. l >= g /\ g >= l /\ l \in Nat /\ g \in Nat
    BY <1>1
<1>3. l = g
    BY <1>2
<1> QED BY <1>3 DEF Greatest, l

\* The least of a set of numbers is the element that exceeds none.
LEMMA LeastIs ==
    ASSUME NEW S, S \subseteq Nat, NEW g \in S, \A y \in S : g <= y
    PROVE  Least(S) = g
<1> DEFINE l == CHOOSE x \in S : \A y \in S : x <= y
<1>1. l \in S /\ \A y \in S : l <= y
    OBVIOUS
<1> HIDE DEF l
<1>2. l <= g /\ g <= l /\ l \in Nat /\ g \in Nat
    BY <1>1
<1>3. l = g
    BY <1>2
<1> QED BY <1>3 DEF Least, l

\* The extreme of a column, with 1 in place of 0, is its anchor.
LEMMA AnchorIs ==
    ASSUME NEW t, NEW k \in Criteria, \A x \in Ranked : t[x][k] \in Nat,
           NEW g, Extreme(t, k, Ranked, g)
    PROVE  AnchorOf(t, k) = IF g = 0 THEN 1 ELSE g
<1> DEFINE column == {t[x][k] : x \in Ranked}
<1>1. column \subseteq Nat /\ g \in column
    BY DEF Extreme
<1>2. \A y \in column : ~Beyond(k, y, g)
    BY DEF Extreme
<1>3. (IF k \in Benefit THEN Greatest(column) ELSE Least(column)) = g
    <2> HIDE DEF column
    <2>1. CASE k \in Benefit
        <3>1. \A y \in column : g >= y
            <4>1. \A y \in column : y \in Nat /\ ~(y > g)
                BY <1>1, <1>2, <2>1 DEF Beyond
            <4> QED BY <1>1, <4>1
        <3> QED BY <1>1, <2>1, <3>1, GreatestIs
    <2>2. CASE k \notin Benefit
        <3>1. \A y \in column : g <= y
            <4>1. \A y \in column : y \in Nat /\ ~(y < g)
                BY <1>1, <1>2, <2>2 DEF Beyond
            <4> QED BY <1>1, <4>1
        <3> QED BY <1>1, <2>2, <3>1, LeastIs
    <2> QED BY <2>1, <2>2
<1> QED BY <1>3 DEF AnchorOf

\* One more row, which is beyond the extreme or not.
LEMMA ExtremeNext ==
    ASSUME NEW t, NEW k \in Criteria, NEW X, NEW g, Extreme(t, k, X, g), NEW y,
           \A x \in X \union {y} : t[x][k] \in Nat
    PROVE  /\ ~Beyond(k, t[y][k], g) => Extreme(t, k, X \union {y}, g)
           /\ Beyond(k, t[y][k], g) => Extreme(t, k, X \union {y}, t[y][k])
<1>1. \A x \in X \union {y} : t[x][k] \in Nat
    OBVIOUS
<1>2. g \in Nat /\ (\E x \in X : g = t[x][k]) /\ (\A x \in X : ~Beyond(k, t[x][k], g))
    BY <1>1 DEF Extreme
<1>3. ~Beyond(k, t[y][k], g) => Extreme(t, k, X \union {y}, g)
    BY <1>2 DEF Extreme
<1>4. ASSUME Beyond(k, t[y][k], g) PROVE \A x \in X \union {y} : ~Beyond(k, t[x][k], t[y][k])
    BY <1>1, <1>2, <1>4 DEF Beyond
<1> QED BY <1>3, <1>4 DEF Extreme

\* The loop over rows and criteria meets every cell once.
LEMMA CellByCell ==
    ASSUME NEW a \in Place, NEW p \in Phases, NEW after
    PROVE  LET b == NextCell(a, p, after)
               Met(x, k) == Before(a, x, k) \/ (x = a.i /\ k = a.j)
           IN  \/ /\ b \in Place /\ b.phase = p
                  /\ ~(a.i = Total_Node /\ a.j = Total_criteria)
                  /\ \A x \in Nat \ {0}, k \in Criteria : Before(b, x, k) <=> Met(x, k)
               \/ /\ b = after
                  /\ a.i = Total_Node /\ a.j = Total_criteria
                  /\ \A x \in Nat \ {0}, k \in Criteria : x \in Ranked <=> Met(x, k)
<1> DEFINE b == NextCell(a, p, after)
           Met(x, k) == Before(a, x, k) \/ (x = a.i /\ k = a.j)
           i == a.i
           j == a.j
           bi == b.i
           bj == b.j
<1>1. i \in Ranked /\ j \in Criteria
    BY DEF Place
<1>2. \/ j + 1 \in Criteria /\ b \in Place /\ b.phase = p /\ bi = i /\ bj = j + 1
      \/ j = Total_criteria /\ i + 1 \in Ranked /\ b \in Place /\ b.phase = p /\ bi = i + 1 /\ bj = 1
      \/ j = Total_criteria /\ i = Total_Node /\ b = after
    BY NextCellCases
<1>3. \A x, k : Met(x, k) <=> (x < i \/ (x = i /\ k < j) \/ (x = i /\ k = j))
    BY DEF Before
<1>4. \A x, k : Before(b, x, k) <=> (x < bi \/ (x = bi /\ k < bj))
    BY DEF Before
<1> HIDE DEF b, Met, i, j, bi, bj
<1>5. CASE j + 1 \in Criteria /\ b \in Place /\ b.phase = p /\ bi = i /\ bj = j + 1
    <2>1. j # Total_criteria
        BY <1>5, ScoringAssumption DEF Criteria
    <2>2. \A x \in Nat \ {0}, k \in Criteria : Before(b, x, k) <=> Met(x, k)
        BY <1>1, <1>3, <1>4, <1>5 DEF Ranked, Criteria
    <2> QED BY <1>5, <2>1, <2>2 DEF b, Met, i, j
<1>6. CASE j = Total_criteria /\ i + 1 \in Ranked /\ b \in Place /\ b.phase = p /\ bi = i + 1 /\ bj = 1
    <2>1. i # Total_Node
        BY <1>6, ScoringAssumption DEF Ranked
    <2>2. \A x \in Nat \ {0}, k \in Criteria : Before(b, x, k) <=> Met(x, k)
        BY <1>1, <1>3, <1>4, <1>6 DEF Ranked, Criteria
    <2> QED BY <1>6, <2>1, <2>2 DEF b, Met, i, j
<1>7. CASE j = Total_criteria /\ i = Total_Node /\ b = after
    <2>1. \A x \in Nat \ {0}, k \in Criteria : x \in Ranked <=> Met(x, k)
        BY <1>1, <1>3, <1>7 DEF Ranked, Criteria
    <2> QED BY <1>7, <2>1 DEF b, Met, i, j
<1> QED BY <1>2, <1>5, <1>6, <1>7

\* After the comparison of a cell with its anchor: the next cell, or every
\* row has been compared.
LEMMA LowerAdvance ==
    ASSUME NEW a \in Place, NEW t, NEW g,
           \A k \in Criteria \ {a.j} : /\ Scanned(a, k) \subseteq DOMAIN t
                                       /\ Extreme(t, k, Scanned(a, k), g[k]),
           Scanned(a, a.j) \union {a.i} \subseteq DOMAIN t,
           Extreme(t, a.j, Scanned(a, a.j) \union {a.i}, g[a.j])
    PROVE  LET b == AfterLower(a)
           IN  \/ /\ b \in Place /\ b.phase = "lower"
                  /\ \A k \in Criteria : /\ Scanned(b, k) \subseteq DOMAIN t
                                         /\ Extreme(t, k, Scanned(b, k), g[k])
               \/ /\ b = At("zero", 1, 1)
                  /\ Ranked \subseteq DOMAIN t
                  /\ \A k \in Criteria : Extreme(t, k, Ranked, g[k])
<1> DEFINE b == AfterLower(a)
           Met(x, k) == Before(a, x, k) \/ (x = a.i /\ k = a.j)
           done(k) == {1} \union {x \in Ranked : Met(x, k)}
<1>1. a.i \in Ranked /\ Ranked \subseteq Nat \ {0} /\ 1 \in Ranked
    BY FirstCell DEF Place, Ranked
<1>2. \A k \in Criteria : done(k) \subseteq DOMAIN t /\ Extreme(t, k, done(k), g[k])
    <2>1. done(a.j) = Scanned(a, a.j) \union {a.i}
        BY <1>1 DEF Scanned
    <2>2. \A k \in Criteria \ {a.j} : done(k) = Scanned(a, k)
        BY DEF Scanned
    <2> QED BY <2>1, <2>2
<1>3. \/ /\ b \in Place /\ b.phase = "lower"
         /\ \A x \in Nat \ {0}, k \in Criteria : Before(b, x, k) <=> Met(x, k)
      \/ /\ b = At("zero", 1, 1)
         /\ \A x \in Nat \ {0}, k \in Criteria : x \in Ranked <=> Met(x, k)
    <2>1. "lower" \in Phases
        BY DEF Phases
    <2> QED BY <2>1, CellByCell DEF AfterLower
<1> HIDE DEF b, Met
<1>4. CASE /\ b \in Place /\ b.phase = "lower"
           /\ \A x \in Nat \ {0}, k \in Criteria : Before(b, x, k) <=> Met(x, k)
    <2>1. \A k \in Criteria : Scanned(b, k) = done(k)
        BY <1>1, <1>4 DEF Scanned
    <2> QED BY <1>2, <1>4, <2>1 DEF b
<1>5. CASE /\ b = At("zero", 1, 1)
           /\ \A x \in Nat \ {0}, k \in Criteria : x \in Ranked <=> Met(x, k)
    <2>1. \A k \in Criteria : done(k) = Ranked
        BY <1>1, <1>5
    <2> QED BY <1>2, <1>5, <2>1, FirstCell DEF b
<1> QED BY <1>3, <1>4, <1>5

\* One more cell of the table is normalised.
LEMMA NormaliseCell ==
    ASSUME NEW a \in Place, NEW t, t = [x \in DOMAIN t |-> [k \in Criteria |-> t[x][k]]],
           Ranked \subseteq DOMAIN t, DOMAIN t \subseteq Nat \ {0}
    PROVE  LET d == NormalisedTo(t, a)
               e == [d EXCEPT ![a.i] = [d[a.i] EXCEPT ![a.j] =
                        Normal(a.j, d[a.i][a.j], AnchorOf(t, a.j))]]
               b == NextCell(a, "normalise", At("worst", 1, 1))
           IN  \/ /\ b \in Place /\ b.phase = "normalise"
                  /\ ~(a.i = Total_Node /\ a.j = Total_criteria)
                  /\ e = NormalisedTo(t, b)
               \/ /\ b = At("worst", 1, 1)
                  /\ a.i = Total_Node /\ a.j = Total_criteria
                  /\ e = Normalised(t)
<1> DEFINE d == NormalisedTo(t, a)
           cell(x, k) == Normal(k, t[x][k], AnchorOf(t, k))
           i == a.i
           j == a.j
           e == [d EXCEPT ![i] = [d[i] EXCEPT ![j] = Normal(j, d[i][j], AnchorOf(t, j))]]
           b == NextCell(a, "normalise", At("worst", 1, 1))
           Met(x, k) == Before(a, x, k) \/ (x = i /\ k = j)
           row(x) == [k \in Criteria |-> IF Met(x, k) THEN cell(x, k) ELSE t[x][k]]
<1>1. i \in Ranked /\ j \in Criteria /\ i \in DOMAIN t
    BY DEF Place
<1>2. \A x \in DOMAIN t : d[x] = [k \in Criteria |-> IF Before(a, x, k) THEN cell(x, k) ELSE t[x][k]]
    BY DEF NormalisedTo
<1>3. ~Before(a, i, j)
    BY <1>1, ScoringAssumption DEF Before, Ranked, Criteria
<1>4. d = [x \in DOMAIN t |-> d[x]]
    BY DEF NormalisedTo
<1>5. \/ /\ b \in Place /\ b.phase = "normalise"
         /\ ~(i = Total_Node /\ j = Total_criteria)
         /\ \A x \in Nat \ {0}, k \in Criteria : Before(b, x, k) <=> Met(x, k)
      \/ /\ b = At("worst", 1, 1)
         /\ i = Total_Node /\ j = Total_criteria
         /\ \A x \in Nat \ {0}, k \in Criteria : x \in Ranked <=> Met(x, k)
    <2>1. "normalise" \in Phases
        BY DEF Phases
    <2> QED BY <2>1, CellByCell
<1>6. e = [x \in DOMAIN t |-> row(x)]
    <2> HIDE DEF cell, d, i, j
    <2>5. d[i] = [k \in Criteria |-> IF Before(a, i, k) THEN cell(i, k) ELSE t[i][k]]
        BY <1>1, <1>2
    <2>6. row(i) = [k \in Criteria |-> IF Before(a, i, k) \/ k = j THEN cell(i, k) ELSE t[i][k]]
        OBVIOUS
    <2> HIDE DEF row, Met
    <2>1. d[i][j] = t[i][j]
        BY <1>1, <1>3, <2>5
    <2>2. [d[i] EXCEPT ![j] = cell(i, j)] = row(i)
        BY <1>1, <2>5, <2>6
    <2> USE DEF row, Met
    <2>3. \A x \in DOMAIN t : x # i => d[x] = row(x)
        BY <1>2
    <2>4. [d[i] EXCEPT ![j] = Normal(j, d[i][j], AnchorOf(t, j))] = row(i)
        BY <2>1, <2>2 DEF cell
    <2> HIDE DEF row
    <2> QED BY <1>1, <1>4, <2>3, <2>4
<1> HIDE DEF b, e, Met
<1>7. CASE /\ b \in Place /\ b.phase = "normalise"
           /\ ~(i = Total_Node /\ j = Total_criteria)
           /\ \A x \in Nat \ {0}, k \in Criteria : Before(b, x, k) <=> Met(x, k)
    <2>1. e = NormalisedTo(t, b)
        BY <1>6, <1>7 DEF NormalisedTo
    <2> QED BY <1>7, <2>1 DEF b, e
<1>8. CASE /\ b = At("worst", 1, 1)
           /\ i = Total_Node /\ j = Total_criteria
           /\ \A x \in Nat \ {0}, k \in Criteria : x \in Ranked <=> Met(x, k)
    <2>1. \A x \in DOMAIN t : row(x) = IF x \in Ranked THEN [k \in Criteria |-> cell(x, k)] ELSE t[x]
        <3> HIDE DEF cell
        <3>1. ASSUME NEW x \in Ranked PROVE row(x) = [k \in Criteria |-> cell(x, k)]
            <4>1. \A k \in Criteria : Met(x, k)
                BY <1>8, <3>1 DEF Ranked
            <4> QED BY <4>1
        <3>2. ASSUME NEW x \in DOMAIN t, x \notin Ranked PROVE row(x) = t[x]
            <4>1. \A k \in Criteria : ~Met(x, k)
                BY <1>8, <3>2
            <4>2. t[x] = [k \in Criteria |-> t[x][k]]
                BY <3>2
            <4> QED BY <4>1, <4>2
        <3> QED BY <3>1, <3>2
    <2>2. e = Normalised(t)
        <3> HIDE DEF row
        <3> QED BY <1>6, <2>1 DEF Normalised
    <2> QED BY <1>8, <2>2 DEF b, e
<1> QED BY <1>5, <1>7, <1>8

-----------------------------------------------------------------------------
(***************************************************************************)
(* A call that no other overlaps, step by step                             *)
(***************************************************************************)

\* The call begins.
LEMMA ReadProgress ==
    ASSUME CallsShape, NEW n \in Nodes, Read(n)
    PROVE  Active(n)' /\ Progress(n)'
<1>1. At("anchor", 1, 1) \in Place /\ At("anchor", 1, 1).phase = "anchor" /\ At("anchor", 1, 1).j = 1
    BY FirstCell, AtParts DEF Phases
<1>2. at'[n].phase = "anchor" /\ at'[n].j = 1
    BY <1>1, Moves DEF Read
<1>3. \A k \in Criteria : ~(k < 1)
    BY DEF Criteria
<1> QED BY <1>2, <1>3 DEF Progress, Active

\* The anchors start with the first row.
LEMMA AnchorProgress ==
    ASSUME CallsShape, NEW n \in Nodes, RawTable(n), Progress(n), Anchor(n)
    PROVE  Active(n)' /\ Progress(n)'
<1> DEFINE a == at[n]
           b == NextCriterion(a, "anchor", At("lower", 1, 1))
<1>1. a \in Place /\ a.j \in Criteria /\ Gobal \in [Criteria -> Nat]
    BY DEF CallsShape, Place
<1>2. at'[n] = b /\ read' = read
    BY <1>1, PlacesNext, Moves DEF Anchor, local
<1>3. Active(n) /\ data[n] = read[n]
    BY DEF Anchor, Active, RawTable, RawPhases
<1>4. Gobal' = [Gobal EXCEPT ![a.j] = read[n][1][a.j]]
    BY <1>3 DEF Anchor
<1>5. \A k \in Criteria : k < a.j => Gobal[k] = read[n][1][k]
    BY DEF Progress, Anchor
<1>6. \A k \in Criteria : k < a.j \/ k = a.j => Gobal'[k] = read[n][1][k]
    BY <1>1, <1>4, <1>5
<1>7. \/ b.phase = "anchor" /\ b.j = a.j + 1
      \/ a.j = Total_criteria /\ b = At("lower", 1, 1)
    BY <1>1, NextCriterionCases DEF Phases
<1> HIDE DEF b
<1>8. CASE b.phase = "anchor" /\ b.j = a.j + 1
    <2>1. \A k \in Criteria : k < b.j => k < a.j \/ k = a.j
        BY <1>1, <1>8 DEF Criteria
    <2> QED BY <1>2, <1>6, <1>8, <2>1 DEF Progress, Active
<1>9. CASE a.j = Total_criteria /\ b = At("lower", 1, 1)
    <2>1. b.phase = "lower" /\ b.i = 1 /\ b.j = 1
        BY <1>9, FirstCell, AtParts DEF Phases
    <2>2. \A k \in Criteria : k < a.j \/ k = a.j
        BY <1>9, ScoringAssumption DEF Criteria
    <2>3. \A k \in Criteria : Scanned(b, k) = {1}
        BY <2>1 DEF Scanned, Before, Ranked, Criteria
    <2>4. \A k \in Criteria : Extreme(read[n], k, {1}, Gobal'[k])
        <3>1. \A k \in Criteria : read[n][1][k] \in Nat
            BY <1>3, Cells
        <3>2. \A k \in Criteria : ~Beyond(k, read[n][1][k], read[n][1][k])
            BY <3>1 DEF Beyond
        <3> QED BY <1>6, <2>2, <3>2 DEF Extreme
    <2>5. 1 \in DOMAIN read[n]
        BY <1>3, Cells
    <2>6. Lowered(n)'
        BY <1>2, <2>3, <2>4, <2>5 DEF Lowered
    <2> QED BY <1>2, <2>1, <2>6 DEF Progress, Active
<1> QED BY <1>7, <1>8, <1>9

\* All rows are compared with the anchor: zeros come next.
LEMMA AfterLowerProgress ==
    ASSUME CallsShape, NEW n \in Nodes, RawTable(n), at[n].i \in DOMAIN read[n], Lowered(n),
           \A k \in Criteria : k # at[n].j => Gobal'[k] = Gobal[k],
           Gobal'[at[n].j] =
               IF Beyond(at[n].j, read[n][at[n].i][at[n].j], Gobal[at[n].j])
               THEN read[n][at[n].i][at[n].j] ELSE Gobal[at[n].j],
           read' = read, at'[n] = AfterLower(at[n])
    PROVE  Active(n)' /\ Progress(n)'
<1> DEFINE a == at[n]
           b == AfterLower(a)
           t == read[n]
           g == Gobal'
<1>1. a \in Place /\ a.i \in Ranked /\ a.j \in Criteria
    BY DEF CallsShape, Place
<1>2. \A k \in Criteria : Scanned(a, k) \subseteq DOMAIN t /\ Extreme(t, k, Scanned(a, k), Gobal[k])
    BY DEF Lowered
<1>3. Scanned(a, a.j) \union {a.i} \subseteq DOMAIN t
    BY <1>1, <1>2
<1>4. \A x \in Scanned(a, a.j) \union {a.i} : t[x][a.j] \in Nat
    BY <1>1, <1>3, Cells
<1>5. Extreme(t, a.j, Scanned(a, a.j) \union {a.i}, g[a.j])
    <2>1. Extreme(t, a.j, Scanned(a, a.j), Gobal[a.j])
        BY <1>1, <1>2
    <2> HIDE DEF a, t, g
    <2>2. /\ ~Beyond(a.j, t[a.i][a.j], Gobal[a.j]) =>
                 Extreme(t, a.j, Scanned(a, a.j) \union {a.i}, Gobal[a.j])
          /\ Beyond(a.j, t[a.i][a.j], Gobal[a.j]) =>
                 Extreme(t, a.j, Scanned(a, a.j) \union {a.i}, t[a.i][a.j])
        BY <1>1, <1>4, <2>1, ExtremeNext
    <2>3. g[a.j] = IF Beyond(a.j, t[a.i][a.j], Gobal[a.j]) THEN t[a.i][a.j] ELSE Gobal[a.j]
        BY DEF a, t, g
    <2> QED BY <2>2, <2>3
<1>6. \A k \in Criteria \ {a.j} : /\ Scanned(a, k) \subseteq DOMAIN t
                                  /\ Extreme(t, k, Scanned(a, k), g[k])
    BY <1>2
<1>7. \/ /\ b \in Place /\ b.phase = "lower"
         /\ \A k \in Criteria : /\ Scanned(b, k) \subseteq DOMAIN t
                                /\ Extreme(t, k, Scanned(b, k), g[k])
      \/ /\ b = At("zero", 1, 1)
         /\ Ranked \subseteq DOMAIN t
         /\ \A k \in Criteria : Extreme(t, k, Ranked, g[k])
    <2> HIDE DEF a, t, g
    <2> QED BY <1>1, <1>3, <1>5, <1>6, LowerAdvance
<1> HIDE DEF b
<1>8. CASE /\ b \in Place /\ b.phase = "lower"
           /\ \A k \in Criteria : /\ Scanned(b, k) \subseteq DOMAIN t
                                  /\ Extreme(t, k, Scanned(b, k), g[k])
    <2>1. Lowered(n)'
        BY <1>8 DEF Lowered, b
    <2> QED BY <1>8, <2>1 DEF Progress, Active, b
<1>9. CASE /\ b = At("zero", 1, 1)
           /\ Ranked \subseteq DOMAIN t
           /\ \A k \in Criteria : Extreme(t, k, Ranked, g[k])
    <2>1. b.phase = "zero" /\ b.j = 1
        BY <1>9, FirstCell, AtParts DEF Phases
    <2>2. at'[n].phase = "zero" /\ at'[n].j = 1
        BY <2>1 DEF b
    <2>3. \A k \in Criteria : ~(k < 1)
        BY DEF Criteria
    <2>4. Zeroed(n)'
        BY <1>9, <2>2, <2>3 DEF Zeroed
    <2> QED BY <2>2, <2>4 DEF Progress, Active
<1> QED BY <1>7, <1>8, <1>9

\* A comparison with the anchor.
LEMMA LowerProgress ==
    ASSUME CallsShape, NEW n \in Nodes, RawTable(n), Progress(n), Lower(n)
    PROVE  Active(n)' /\ Progress(n)'
<1> DEFINE a == at[n]
           v == read[n][a.i][a.j]
<1>1. a \in Place /\ a.i \in Ranked /\ a.j \in Criteria
    BY DEF CallsShape, Place
<1>2. data[n] = read[n] /\ Lowered(n) /\ a.i \in DOMAIN read[n]
    BY DEF Lower, RawTable, RawPhases, Progress
<1>3. Gobal' = Gobal /\ read' = read
    BY DEF Lower, shared, local
<1>4. Goes(n, IF Beyond(a.j, v, Gobal[a.j]) THEN At("store", a.i, a.j) ELSE AfterLower(a))
    BY <1>2 DEF Lower
<1>5. CASE Beyond(a.j, v, Gobal[a.j])
    <2>1. /\ At("store", a.i, a.j) \in Place /\ At("store", a.i, a.j).phase = "store"
          /\ At("store", a.i, a.j).i = a.i /\ At("store", a.i, a.j).j = a.j
        BY <1>1, AtParts DEF Phases
    <2>2. at'[n] = At("store", a.i, a.j)
        BY <1>4, <1>5, <2>1, Moves
    <2>3. at'[n].phase = "store" /\ at'[n].i = a.i /\ at'[n].j = a.j
        BY <2>1, <2>2
    <2>4. \A k \in Criteria : Scanned(at'[n], k) = Scanned(a, k)
        BY <2>3 DEF Scanned, Before
    <2>5. Lowered(n)'
        BY <1>2, <1>3, <2>4 DEF Lowered
    <2> QED BY <1>3, <1>5, <2>3, <2>5 DEF Progress, Active
<1>6. CASE ~Beyond(a.j, v, Gobal[a.j])
    <2>1. at'[n] = AfterLower(a)
        BY <1>1, <1>4, <1>6, PlacesNext, Moves
    <2> QED BY <1>2, <1>3, <1>6, <2>1, AfterLowerProgress
<1> QED BY <1>5, <1>6

\* The anchor takes the value that is beyond it.
LEMMA StoreProgress ==
    ASSUME CallsShape, NEW n \in Nodes, RawTable(n), Progress(n), Store(n)
    PROVE  Active(n)' /\ Progress(n)'
<1> DEFINE a == at[n]
           v == read[n][a.i][a.j]
<1>1. a \in Place /\ a.i \in Ranked /\ a.j \in Criteria /\ Gobal \in [Criteria -> Nat]
    BY DEF CallsShape, Place
<1>2. data[n] = read[n] /\ Lowered(n) /\ a.i \in DOMAIN read[n] /\ Beyond(a.j, v, Gobal[a.j])
    BY DEF Store, RawTable, RawPhases, Progress
<1>3. Gobal' = [Gobal EXCEPT ![a.j] = v] /\ read' = read
    BY <1>2 DEF Store, local
<1>4. at'[n] = AfterLower(a)
    BY <1>1, PlacesNext, Moves DEF Store
<1>5. Gobal'[a.j] = v /\ \A k \in Criteria : k # a.j => Gobal'[k] = Gobal[k]
    BY <1>1, <1>3
<1> QED BY <1>2, <1>3, <1>4, <1>5, AfterLowerProgress

\* The next anchor is looked at, or the table is normalised with all anchors.
LEMMA AfterZeroProgress ==
    ASSUME CallsShape, NEW n \in Nodes, RawTable(n), Zeroed(n), data[n] = read[n],
           \A k \in Criteria : k # at[n].j => Gobal'[k] = Gobal[k],
           Gobal'[at[n].j] = IF Gobal[at[n].j] = 0 THEN 1 ELSE Gobal[at[n].j],
           read' = read, data' = data, at'[n] = AfterZero(at[n])
    PROVE  Active(n)' /\ Progress(n)'
<1> DEFINE a == at[n]
           b == AfterZero(a)
           t == read[n]
<1>1. a \in Place /\ a.j \in Criteria /\ Gobal \in [Criteria -> Nat]
    BY DEF CallsShape, Place
<1>2. /\ Ranked \subseteq DOMAIN t
      /\ \A k \in Criteria : IF k < a.j THEN Gobal[k] = AnchorOf(t, k)
                                        ELSE Extreme(t, k, Ranked, Gobal[k])
    BY DEF Zeroed
<1>3. \A k \in Criteria : k < a.j \/ k = a.j => Gobal'[k] = AnchorOf(t, k)
    <2>1. Extreme(t, a.j, Ranked, Gobal[a.j])
        BY <1>1, <1>2 DEF Criteria
    <2>2. \A x \in Ranked : t[x][a.j] \in Nat
        BY <1>1, <1>2, Cells
    <2>3. AnchorOf(t, a.j) = IF Gobal[a.j] = 0 THEN 1 ELSE Gobal[a.j]
        <3> HIDE DEF a, t
        <3> QED BY <1>1, <2>1, <2>2, AnchorIs
    <2>4. \A k \in Criteria : k < a.j => k # a.j
        BY <1>1 DEF Criteria
    <2> QED BY <1>2, <2>3, <2>4
<1>4. \/ b.phase = "zero" /\ b.j = a.j + 1
      \/ a.j = Total_criteria /\ b = At("normalise", 1, 1)
    BY <1>1, NextCriterionCases DEF AfterZero, Phases
<1> HIDE DEF b
<1>5. CASE b.phase = "zero" /\ b.j = a.j + 1
    <2>1. \A k \in Criteria : IF k < b.j THEN k < a.j \/ k = a.j ELSE k # a.j /\ ~(k < a.j)
        BY <1>1, <1>5 DEF Criteria
    <2>2. \A k \in Criteria : IF k < b.j THEN Gobal'[k] = AnchorOf(t, k)
                                         ELSE Extreme(t, k, Ranked, Gobal'[k])
        BY <1>2, <1>3, <2>1
    <2>3. at'[n] = b
        BY DEF b
    <2>4. Zeroed(n)'
        BY <1>2, <2>2, <2>3 DEF Zeroed
    <2> QED BY <1>5, <2>3, <2>4 DEF Progress, Active
<1>6. CASE a.j = Total_criteria /\ b = At("normalise", 1, 1)
    <2>1. b.phase = "normalise" /\ b.i = 1 /\ b.j = 1
        BY <1>6, FirstCell, AtParts DEF Phases
    <2>2. \A k \in Criteria : k < a.j \/ k = a.j
        BY <1>6, ScoringAssumption DEF Criteria
    <2>3. \A x \in DOMAIN t, k \in Criteria : ~Before(b, x, k)
        BY <2>1, Cells DEF Before, Criteria
    <2>4. \A x \in DOMAIN t : t[x] = [k \in Criteria |-> t[x][k]]
        BY Cells
    <2>5. t = [x \in DOMAIN t |-> t[x]]
        BY DEF RawTable
    <2>6. NormalisedTo(t, b) = t
        <3>1. NormalisedTo(t, b) = [x \in DOMAIN t |-> [k \in Criteria |-> t[x][k]]]
            BY <2>3 DEF NormalisedTo
        <3> QED BY <2>4, <2>5, <3>1
    <2>7. at'[n] = b
        BY DEF b
    <2>8. Normalising(n)'
        BY <1>2, <1>3, <2>2, <2>6, <2>7 DEF Normalising
    <2> QED BY <2>1, <2>7, <2>8 DEF Progress, Active
<1> QED BY <1>4, <1>5, <1>6

\* An anchor is compared with 0.
LEMMA ZeroProgress ==
    ASSUME CallsShape, NEW n \in Nodes, RawTable(n), Progress(n), Zero(n)
    PROVE  Active(n)' /\ Progress(n)'
<1> DEFINE a == at[n]
<1>1. a \in Place /\ a.j \in Criteria
    BY DEF CallsShape, Place
<1>2. Zeroed(n) /\ data[n] = read[n]
    BY DEF Zero, Progress, RawTable, RawPhases
<1>3. Gobal' = Gobal /\ read' = read /\ data' = data
    BY DEF Zero, shared, local
<1>4. CASE Gobal[a.j] = 0
    <2>1. /\ At("fill", 1, a.j) \in Place
          /\ At("fill", 1, a.j).phase = "fill" /\ At("fill", 1, a.j).j = a.j
        BY <1>1, FirstCell, AtParts DEF Phases
    <2>2. at'[n] = At("fill", 1, a.j)
        BY <1>4, <2>1, Moves DEF Zero
    <2>3. at'[n].phase = "fill" /\ at'[n].j = a.j
        BY <2>1, <2>2
    <2>4. Zeroed(n)'
        BY <1>2, <1>3, <2>3 DEF Zeroed
    <2> QED BY <1>3, <1>4, <2>3, <2>4 DEF Progress, Active
<1>5. CASE Gobal[a.j] # 0
    <2>1. at'[n] = AfterZero(a)
        BY <1>1, <1>5, PlacesNext, Moves DEF Zero
    <2> QED BY <1>2, <1>3, <1>5, <2>1, AfterZeroProgress
<1> QED BY <1>4, <1>5

\* An anchor of 0 becomes 1.
LEMMA FillProgress ==
    ASSUME CallsShape, NEW n \in Nodes, RawTable(n), Progress(n), Fill(n)
    PROVE  Active(n)' /\ Progress(n)'
<1> DEFINE a == at[n]
<1>1. a \in Place /\ a.j \in Criteria /\ Gobal \in [Criteria -> Nat]
    BY DEF CallsShape, Place
<1>2. Zeroed(n) /\ Gobal[a.j] = 0 /\ data[n] = read[n]
    BY DEF Fill, Progress, RawTable, RawPhases
<1>3. Gobal' = [Gobal EXCEPT ![a.j] = 1] /\ read' = read /\ data' = data
    BY DEF Fill, local
<1>4. at'[n] = AfterZero(a)
    BY <1>1, PlacesNext, Moves DEF Fill
<1>5. Gobal'[a.j] = 1 /\ \A k \in Criteria : k # a.j => Gobal'[k] = Gobal[k]
    BY <1>1, <1>3
<1> QED BY <1>2, <1>3, <1>4, <1>5, AfterZeroProgress

\* A cell is normalised; after the last one the table is weighed.
LEMMA NormaliseProgress ==
    ASSUME CallsShape, NEW n \in Nodes, RawTable(n), Progress(n), Normalise(n)
    PROVE  Active(n)' /\ Progress(n)'
<1> DEFINE a == at[n]
           t == read[n]
           d == NormalisedTo(t, a)
           e == [d EXCEPT ![a.i] = [d[a.i] EXCEPT ![a.j] =
                     Normal(a.j, d[a.i][a.j], AnchorOf(t, a.j))]]
           b == NextCell(a, "normalise", At("worst", 1, 1))
           last == a.i = Total_Node /\ a.j = Total_criteria
<1>1. a \in Place /\ a.j \in Criteria /\ FunctionOn(data, Nodes)
    BY DEF CallsShape, Place
<1>2. /\ Ranked \subseteq DOMAIN t
      /\ \A k \in Criteria : Gobal[k] = AnchorOf(t, k)
      /\ data[n] = d
    BY DEF Normalise, Progress, Normalising
<1>3. Gobal' = Gobal /\ read' = read
    BY DEF Normalise, shared
<1>4. data' = [data EXCEPT ![n] = IF last THEN Weighed(e) ELSE e]
    BY <1>1, <1>2 DEF Normalise
<1>5. data'[n] = IF last THEN Weighed(e) ELSE e
    <2> HIDE DEF e
    <2> QED BY <1>1, <1>4, ExceptOn
<1>6. at'[n] = b
    BY <1>1, PlacesNext, Moves DEF Normalise
<1>7. \/ b \in Place /\ b.phase = "normalise" /\ ~last /\ e = NormalisedTo(t, b)
      \/ b = At("worst", 1, 1) /\ last /\ e = Normalised(t)
    <2>1. t = [x \in DOMAIN t |-> [k \in Criteria |-> t[x][k]]]
        <3>1. \A x \in DOMAIN t : t[x] = [k \in Criteria |-> t[x][k]]
            BY Cells
        <3>2. t = [x \in DOMAIN t |-> t[x]]
            BY DEF RawTable
        <3> QED BY <3>1, <3>2
    <2>2. DOMAIN t \subseteq Nat \ {0}
        BY Cells
    <2> HIDE DEF a, t
    <2> QED BY <1>1, <1>2, <2>1, <2>2, NormaliseCell
<1> HIDE DEF b, e
<1>8. CASE b \in Place /\ b.phase = "normalise" /\ ~last /\ e = NormalisedTo(t, b)
    <2>1. Normalising(n)'
        BY <1>2, <1>3, <1>5, <1>6, <1>8 DEF Normalising
    <2> QED BY <1>6, <1>8, <2>1 DEF Progress, Active
<1>9. CASE b = At("worst", 1, 1) /\ last /\ e = Normalised(t)
    <2>1. at'[n].phase = "worst" /\ at'[n].j = 1
        BY <1>6, <1>9, FirstCell, AtParts DEF Phases
    <2>2. data'[n] = Final(n)'
        BY <1>3, <1>5, <1>9 DEF Final
    <2>3. \A k \in Criteria : ~(k < 1)
        BY DEF Criteria
    <2>4. Choosing(n)'
        BY <2>1, <2>2, <2>3 DEF Choosing
    <2> QED BY <2>1, <2>4 DEF Progress, Active
<1> QED BY <1>7, <1>8, <1>9

\* The worst value of a criterion.
LEMMA WorstProgress ==
    ASSUME CallsShape, NEW n \in Nodes, Progress(n), Worst(n)
    PROVE  Active(n)' /\ Progress(n)'
<1> DEFINE a == at[n]
           m == Final(n)
           v == Least(Column(data[n], a.j))
<1>1. a.j \in Criteria /\ FunctionOn(Aw, Criteria)
    BY DEF CallsShape, Place
<1>2. /\ data[n] = m
      /\ \A k \in Criteria : k < a.j => Aw[k] = WorstRow(m)[k] /\ Ab[k] = BestRow(m)[k]
    BY DEF Worst, Progress, Choosing
<1>3. Ab' = Ab /\ read' = read /\ data' = data /\ Aw' = [Aw EXCEPT ![a.j] = v]
    BY DEF Worst, local
<1>4. at'[n].phase = "best" /\ at'[n].j = a.j
    <2>1. /\ At("best", 1, a.j) \in Place
          /\ At("best", 1, a.j).phase = "best" /\ At("best", 1, a.j).j = a.j
        BY <1>1, FirstCell, AtParts DEF Phases
    <2> QED BY <2>1, Moves DEF Worst
<1>5. v = WorstRow(m)[a.j]
    BY <1>1, <1>2 DEF WorstRow
<1>6. Final(n)' = m
    BY <1>3 DEF Final
<1> HIDE DEF v, m
<1>7. Aw'[a.j] = v /\ \A k \in Criteria : k # a.j => Aw'[k] = Aw[k]
    BY <1>1, <1>3, ExceptOn
<1>8. \A k \in Criteria : k < a.j => k # a.j
    BY <1>1 DEF Criteria
<1>9. Choosing(n)'
    BY <1>2, <1>3, <1>4, <1>6, <1>7, <1>8 DEF Choosing
<1> QED BY <1>4, <1>5, <1>6, <1>7, <1>9 DEF Progress, Active

\* The best value of a criterion.
LEMMA BestProgress ==
    ASSUME CallsShape, NEW n \in Nodes, Progress(n), Best(n)
    PROVE  Active(n)' /\ Progress(n)'
<1> DEFINE a == at[n]
           m == Final(n)
           v == Greatest(Column(data[n], a.j))
           b == NextCriterion(a, "worst", At("diw", 1, 1))
<1>1. a \in Place /\ a.j \in Criteria /\ FunctionOn(Aw, Criteria) /\ FunctionOn(Ab, Criteria)
    BY DEF CallsShape, Place
<1>2. /\ data[n] = m /\ Aw[a.j] = WorstRow(m)[a.j]
      /\ \A k \in Criteria : k < a.j => Aw[k] = WorstRow(m)[k] /\ Ab[k] = BestRow(m)[k]
    BY DEF Best, Progress, Choosing
<1>3. Aw' = Aw /\ read' = read /\ data' = data /\ Ab' = [Ab EXCEPT ![a.j] = v]
    BY DEF Best, local
<1>4. at'[n] = b
    BY <1>1, PlacesNext, Moves DEF Best
<1>5. v = BestRow(m)[a.j]
    BY <1>1, <1>2 DEF BestRow
<1>6. Final(n)' = m
    BY <1>3 DEF Final
<1>7. FunctionOn(WorstRow(m), Criteria) /\ FunctionOn(BestRow(m), Criteria)
    BY DEF FunctionOn, WorstRow, BestRow
<1>8. \/ b.phase = "worst" /\ b.j = a.j + 1
      \/ a.j = Total_criteria /\ b = At("diw", 1, 1)
    BY <1>1, NextCriterionCases DEF Phases
<1> HIDE DEF v, m, b
<1>9. Ab'[a.j] = v /\ (\A k \in Criteria : k # a.j => Ab'[k] = Ab[k]) /\ FunctionOn(Ab', Criteria)
    <2> DEFINE next == [Ab EXCEPT ![a.j] = v]
    <2>1. /\ FunctionOn(next, Criteria) /\ next[a.j] = v
          /\ \A k \in Criteria \ {a.j} : next[k] = Ab[k]
        BY <1>1, ExceptOn
    <2> HIDE DEF next
    <2>2. Ab' = next
        BY <1>3 DEF next
    <2> QED BY <2>1, <2>2
<1>10. \A k \in Criteria : k < a.j \/ k = a.j => Aw'[k] = WorstRow(m)[k] /\ Ab'[k] = BestRow(m)[k]
    <2>1. \A k \in Criteria : k < a.j => k # a.j
        BY <1>1 DEF Criteria
    <2> QED BY <1>2, <1>3, <1>5, <1>9, <2>1
<1>11. CASE b.phase = "worst" /\ b.j = a.j + 1
    <2>1. \A k \in Criteria : k < b.j => k < a.j \/ k = a.j
        BY <1>1, <1>11 DEF Criteria
    <2>2. Choosing(n)'
        BY <1>2, <1>3, <1>4, <1>6, <1>10, <2>1 DEF Choosing
    <2> QED BY <1>4, <1>11, <2>2 DEF Progress, Active
<1>12. CASE a.j = Total_criteria /\ b = At("diw", 1, 1)
    <2>1. at'[n].phase = "diw" /\ at'[n].i = 1
        BY <1>4, <1>12, FirstCell, AtParts DEF Phases
    <2>2. \A k \in Criteria : k < a.j \/ k = a.j
        BY <1>12, ScoringAssumption DEF Criteria
    <2>3. Aw' = WorstRow(m)
        BY <1>1, <1>3, <1>7, <1>10, <2>2, MapOn
    <2>4. Ab' = BestRow(m)
        BY <1>7, <1>9, <1>10, <2>2, MapOn
    <2>5. \A x \in Ranked : ~(x < 1)
        BY DEF Ranked
    <2>6. Comparing(n)'
        BY <1>2, <1>3, <1>6, <2>1, <2>3, <2>4, <2>5 DEF Comparing
    <2> QED BY <2>1, <2>6 DEF Progress, Active
<1> QED BY <1>8, <1>11, <1>12

\* A row against the worst alternative.
LEMMA DiwProgress ==
    ASSUME CallsShape, NEW n \in Nodes, Progress(n), Diw(n)
    PROVE  Active(n)' /\ Progress(n)'
<1> DEFINE a == at[n]
           row == [seenAw[n] EXCEPT ![a.i] = Aw]
<1>1. a.i \in Ranked /\ FunctionOn(seenAw, Nodes) /\ FunctionOn(seenAw[n], Ranked)
    BY DEF CallsShape, Place
<1>2. /\ data[n] = Final(n) /\ Aw = WorstRow(Final(n)) /\ Ab = BestRow(Final(n))
      /\ \A x \in Ranked : x < a.i => seenAw[n][x] = Aw /\ seenAb[n][x] = Ab
    BY DEF Diw, Progress, Comparing
<1>3. /\ UNCHANGED <<Aw, Ab, read, data, seenAb>>
      /\ seenAw' = [seenAw EXCEPT ![n] = row]
    BY DEF Diw, shared
<1>4. at'[n].phase = "dib" /\ at'[n].i = a.i
    <2>1. /\ At("dib", a.i, 1) \in Place
          /\ At("dib", a.i, 1).phase = "dib" /\ At("dib", a.i, 1).i = a.i
        BY <1>1, FirstCell, AtParts DEF Phases
    <2> QED BY <2>1, Moves DEF Diw
<1>5. row[a.i] = Aw /\ \A x \in Ranked : x # a.i => row[x] = seenAw[n][x]
    <2> DEFINE seen == seenAw[n]
               i == a.i
    <2>1. row = [seen EXCEPT ![i] = Aw] /\ FunctionOn(seen, Ranked) /\ i \in Ranked
        BY <1>1
    <2> HIDE DEF row, seen, i
    <2>2. row[i] = Aw /\ \A x \in Ranked \ {i} : row[x] = seen[x]
        BY <2>1, ExceptOn
    <2> QED BY <2>2 DEF seen, i
<1> HIDE DEF row
<1>6. seenAw'[n] = row
    BY <1>1, <1>3, ExceptOn
<1>7. \A x \in Ranked : x < a.i => x # a.i
    BY <1>1 DEF Ranked
<1>8. Final(n)' = Final(n)
    BY <1>3 DEF Final
<1>9. Comparing(n)'
    BY <1>2, <1>3, <1>4, <1>5, <1>6, <1>7, <1>8 DEF Comparing
<1> QED BY <1>3, <1>4, <1>5, <1>6, <1>9 DEF Progress, Active

\* A row against the best alternative.
LEMMA DibProgress ==
    ASSUME CallsShape, NEW n \in Nodes, Progress(n), Dib(n)
    PROVE  Active(n)' /\ Progress(n)'
<1> DEFINE a == at[n]
           row == [seenAb[n] EXCEPT ![a.i] = Ab]
           b == IF a.i < Total_Node THEN At("diw", a.i + 1, 1) ELSE At("rank", 1, 1)
<1>1. a.i \in Ranked /\ FunctionOn(seenAb, Nodes) /\ FunctionOn(seenAb[n], Ranked)
    BY DEF CallsShape, Place
<1>2. /\ data[n] = Final(n) /\ Aw = WorstRow(Final(n)) /\ Ab = BestRow(Final(n))
      /\ \A x \in Ranked : x < a.i => seenAw[n][x] = Aw /\ seenAb[n][x] = Ab
      /\ seenAw[n][a.i] = Aw
    BY DEF Dib, Progress, Comparing
<1>3. /\ UNCHANGED <<Aw, Ab, read, data, seenAw>>
      /\ seenAb' = [seenAb EXCEPT ![n] = row]
    BY DEF Dib, shared
<1>4. /\ b \in Place /\ b.phase \in {"diw", "rank"}
      /\ b.phase = "diw" => b.i = a.i + 1
      /\ b.phase = "rank" => ~(a.i < Total_Node)
    <2>1. a.i < Total_Node => a.i + 1 \in Ranked
        BY <1>1, ScoringAssumption DEF Ranked
    <2> QED BY <2>1, FirstCell, AtParts DEF Phases
<1>5. at'[n] = b
    BY <1>4, Moves DEF Dib
<1>6. row[a.i] = Ab /\ \A x \in Ranked : x # a.i => row[x] = seenAb[n][x]
    <2> DEFINE seen == seenAb[n]
               i == a.i
    <2>1. row = [seen EXCEPT ![i] = Ab] /\ FunctionOn(seen, Ranked) /\ i \in Ranked
        BY <1>1
    <2> HIDE DEF row, seen, i
    <2>2. row[i] = Ab /\ \A x \in Ranked \ {i} : row[x] = seen[x]
        BY <2>1, ExceptOn
    <2> QED BY <2>2 DEF seen, i
<1> HIDE DEF row, b
<1>7. seenAb'[n] = row
    BY <1>1, <1>3, ExceptOn
<1>8. \A x \in Ranked : (b.phase = "rank" \/ x < b.i) => x < a.i \/ x = a.i
    BY <1>1, <1>4, ScoringAssumption DEF Ranked
<1>9. \A x \in Ranked : x < a.i => x # a.i
    BY <1>1 DEF Ranked
<1>10. Final(n)' = Final(n)
    BY <1>3 DEF Final
<1>11. \A x \in Ranked : x < a.i \/ x = a.i => seenAw'[n][x] = Aw /\ seenAb'[n][x] = Ab
    BY <1>2, <1>3, <1>6, <1>7, <1>9
<1>12. Comparing(n)'
    BY <1>2, <1>3, <1>5, <1>8, <1>10, <1>11 DEF Comparing
<1> QED BY <1>4, <1>5, <1>12 DEF Progress, Active

\* The call answers with TOPSIS over the rows it read.
LEMMA RankAnswers ==
    ASSUME CallsShape, NEW n \in Nodes, Progress(n), Rank(n)
    PROVE  /\ ~Active(n)' /\ read' = read
           /\ top'[n] = Topsis(read[n]) /\ score'[n] = ScoreOf(n, Topsis(read[n]))
<1> DEFINE i == TopRow(data[n], seenAw[n], seenAb[n])
<1>1. /\ FunctionOn(top, Nodes) /\ FunctionOn(score, Nodes)
      /\ FunctionOn(seenAw[n], Ranked) /\ FunctionOn(seenAb[n], Ranked)
    BY DEF CallsShape
<1>2. /\ data[n] = Final(n) /\ Aw = WorstRow(Final(n)) /\ Ab = BestRow(Final(n))
      /\ \A x \in Ranked : seenAw[n][x] = Aw /\ seenAb[n][x] = Ab
    BY DEF Rank, Progress, Comparing
<1>3. seenAw[n] = [x \in Ranked |-> Aw]
    BY <1>1, <1>2 DEF FunctionOn
<1>4. seenAb[n] = [x \in Ranked |-> Ab]
    BY <1>1, <1>2 DEF FunctionOn
<1>5. i = Topsis(read[n])
    BY <1>2, <1>3, <1>4 DEF Topsis, Final, WorstRow, BestRow
<1>6. /\ read' = read /\ top' = [top EXCEPT ![n] = i] /\ score' = [score EXCEPT ![n] = ScoreOf(n, i)]
    BY DEF Rank
<1>7. at'[n].phase = "idle"
    <2>1. At("idle", 1, 1) \in Place /\ At("idle", 1, 1).phase = "idle"
        BY FirstCell, AtParts DEF Phases
    <2> QED BY <2>1, Moves DEF Rank
<1> HIDE DEF i
<1>8. top'[n] = i
    BY <1>1, <1>6, ExceptOn
<1>9. score'[n] = ScoreOf(n, i)
    <2> DEFINE v == ScoreOf(n, i)
    <2>1. score' = [score EXCEPT ![n] = v]
        BY <1>6
    <2> HIDE DEF v
    <2>2. score'[n] = v
        BY <1>1, <2>1, ExceptOn
    <2> QED BY <2>2 DEF v
<1> QED BY <1>5, <1>6, <1>7, <1>8, <1>9 DEF Active

\* The answer of a call, which stays until its node is asked for again.
Answered(n) ==
    (top[n] # 0 /\ ~Active(n) /\ ~overlapped[n]) =>
        /\ top[n] = Topsis(read[n])
        /\ score[n] = ScoreOf(n, Topsis(read[n]))

\* A call under way that no other overlaps moves on, or answers.
LEMMA ActiveStep ==
    ASSUME CallsShape, NEW n \in Nodes, RawTable(n), Active(n), Progress(n), Score(n), ~Panic(n)
    PROVE  /\ Active(n)' => Progress(n)'
           /\ Answered(n)'
<1>1. CASE Rank(n)
    <2>1. /\ ~Active(n)' /\ read' = read
          /\ top'[n] = Topsis(read[n]) /\ score'[n] = ScoreOf(n, Topsis(read[n]))
        BY <1>1, RankAnswers
    <2> QED BY <2>1 DEF Answered
<1>2. CASE ~Rank(n)
    <2>1. ~Read(n) /\ ~ReadFails(n)
        BY DEF Read, ReadFails, Begins
    <2>2. Active(n)' /\ Progress(n)'
        BY <1>2, <2>1, AnchorProgress, LowerProgress, StoreProgress, ZeroProgress, FillProgress,
           NormaliseProgress, WorstProgress, BestProgress, DiwProgress, DibProgress DEF Score
    <2> QED BY <2>2 DEF Answered
<1> QED BY <1>1, <1>2

\* The calls at the start.
LEMMA ScoringInvInit == Init => ScoringInv
<1> SUFFICES ASSUME Init PROVE ScoringInv
    OBVIOUS
<1>1. At("idle", 1, 1) \in Place /\ At("idle", 1, 1).phase = "idle"
    BY FirstCell, AtParts DEF Phases
<1>2. /\ Zeros \in [Criteria -> Nat] /\ FunctionOn(Zeros, Criteria)
      /\ FunctionOn(Blank, Ranked)
    BY DEF Zeros, Blank, FunctionOn
<1>3. at \in [Nodes -> Place] /\ \A n \in Nodes : at[n].phase = "idle"
    BY <1>1 DEF Init, Fresh
<1>4. CallsShape
    BY <1>2, <1>3 DEF Init, Fresh, CallsShape, FunctionOn, Place
<1>5. \A n \in Nodes : RawTable(n)
    <2>1. \A n \in Nodes : read[n] \in Seq([Criteria -> Nat])
        BY EmptySeq DEF Init, Fresh
    <2> QED BY <1>3, <2>1 DEF RawTable, Active, RawPhases
<1>6. \A n \in Nodes : ~Active(n) /\ top[n] = 0
    BY <1>3 DEF Init, Fresh, Active
<1> QED BY <1>4, <1>5, <1>6 DEF ScoringInv, Solo, AloneIsRight

\* The calls when nothing of them changes.
LEMMA ScoringInvStutter ==
    ASSUME ScoringInv, UNCHANGED <<shared, at, local, answer, ghosts>>
    PROVE  ScoringInv'
<1>1. UNCHANGED <<Gobal, Aw, Ab, at, read, data, seenAw, seenAb, top, score, overlapped>>
    BY DEF shared, local, answer, ghosts
<1>2. CallsShape' /\ Solo' /\ AloneIsRight'
    BY <1>1 DEF ScoringInv, CallsShape, Solo, AloneIsRight, Active
<1>3. \A n \in Nodes : RawTable(n)'
    BY <1>1 DEF ScoringInv, RawTable, Active
<1>4. ASSUME NEW n \in Nodes PROVE Active(n)' /\ ~overlapped'[n] => Progress(n)'
    <2>1. Active(n)' = Active(n) /\ overlapped' = overlapped
        BY <1>1 DEF Active
    <2>2. Progress(n)' = Progress(n)
        BY <1>1 DEF Progress, Lowered, Zeroed, Normalising, Choosing, Comparing, Final
    <2> QED BY <2>1, <2>2 DEF ScoringInv
<1> QED BY <1>2, <1>3, <1>4 DEF ScoringInv

\* The calls after a step of one of them.
LEMMA ScoringInvStep ==
    ASSUME CollectorInv, ScoringInv, NEW n \in Nodes, Score(n)
    PROVE  ScoringInv'
<1>1. CallsShape' /\ \A m \in Nodes : RawTable(m)'
    BY ShapeStep DEF ScoringInv
<1>2. CASE Panic(n)
    <2>1. \A m \in Nodes : ~Active(m)' /\ top'[m] = 0
        BY <1>2, PanicEffect DEF ScoringInv
    <2> QED BY <1>1, <2>1 DEF ScoringInv, Solo, AloneIsRight
<1>3. CASE ~Panic(n)
    <2>1. /\ CallsShape /\ RawTable(n)
          /\ \A m \in Nodes : Active(m) /\ ~overlapped[m] =>
                 Progress(m) /\ \A o \in Nodes \ {m} : ~Active(o)
        BY DEF ScoringInv, Solo
    <2>2. \A m \in Nodes \ {n} :
              /\ at'[m] = at[m] /\ read'[m] = read[m] /\ top'[m] = top[m] /\ score'[m] = score[m]
              /\ Active(m)' <=> Active(m)
        BY <1>3, <2>1, CallEffect DEF Active
    <2>3. \A m \in Nodes : m # n /\ overlapped[m] => overlapped'[m]
        BY <1>3, <2>1, OverlapEffect
    <2>4. CASE Active(n)
        <3>1. overlapped' = overlapped
            BY <1>3, <2>1, <2>4, OverlapEffect
        <3>2. \A m \in Nodes \ {n} : Active(m)' => overlapped'[m]
            BY <2>1, <2>2, <2>4, <3>1
        <3>3. ~overlapped'[n] => /\ Active(n)' => Progress(n)'
                                 /\ Answered(n)'
                                 /\ \A m \in Nodes \ {n} : ~Active(m)'
            BY <1>3, <2>1, <2>2, <2>4, <3>1, ActiveStep
        <3>4. Solo'
            BY <3>2, <3>3 DEF Solo
        <3>5. \A m \in Nodes : Active(m)' /\ ~overlapped'[m] => Progress(m)'
            BY <3>2, <3>3
        <3>6. Answered(n)'
            BY <3>3 DEF Answered
        <3>7. \A m \in Nodes \ {n} : Answered(m)'
            BY <2>2, <3>1 DEF ScoringInv, AloneIsRight, Answered
        <3>8. AloneIsRight'
            BY <3>6, <3>7 DEF AloneIsRight, Answered
        <3> QED BY <1>1, <3>4, <3>5, <3>8 DEF ScoringInv
    <2>5. CASE ~Active(n)
        <3>1. Begins(n) /\ (Read(n) \/ ReadFails(n))
            BY <2>1, <2>5, OverlapEffect
        <3>2. \A m \in Nodes : overlapped'[m] = IF m = n THEN \E o \in Nodes \ {n} : Active(o)
                                                        ELSE overlapped[m] \/ Active(m)
            BY <3>1 DEF Begins
        <3>3. \A m \in Nodes \ {n} : Active(m)' => overlapped'[m]
            BY <2>2, <3>2
        <3>4. ~overlapped'[n] => \A m \in Nodes \ {n} : ~Active(m)'
            BY <2>2, <3>2
        <3>5. (Active(n)' => Progress(n)') /\ Answered(n)'
            <4>1. CASE Read(n)
                <5>1. Active(n)' /\ Progress(n)'
                    BY <2>1, <4>1, ReadProgress
                <5> QED BY <5>1 DEF Answered
            <4>2. CASE ReadFails(n)
                <5>1. at' = at /\ top' = [top EXCEPT ![n] = 0] /\ FunctionOn(top, Nodes)
                    BY <2>1, <4>2 DEF ReadFails, CallsShape
                <5>2. top'[n] = 0
                    BY <5>1, ExceptOn
                <5>3. ~Active(n)'
                    BY <2>5, <5>1 DEF Active
                <5> QED BY <5>2, <5>3 DEF Answered
            <4> QED BY <3>1, <4>1, <4>2
        <3>6. Solo'
            BY <3>3, <3>4 DEF Solo
        <3>7. \A m \in Nodes : Active(m)' /\ ~overlapped'[m] => Progress(m)'
            BY <3>3, <3>5
        <3>8. \A m \in Nodes \ {n} : Answered(m)'
            BY <2>2, <2>3 DEF ScoringInv, AloneIsRight, Answered
        <3>9. AloneIsRight'
            BY <3>5, <3>8 DEF AloneIsRight, Answered
        <3> QED BY <1>1, <3>6, <3>7, <3>9 DEF ScoringInv
    <2> QED BY <2>4, <2>5
<1> QED BY <1>2, <1>3

\* The invariant of the calls for every step.
LEMMA ScoringInvNext ==
    ASSUME CollectorInv, ScoringInv, [Next]_vars
    PROVE  ScoringInv'
<1>1. ASSUME NEW c \in Collectors, CollectStep(c) PROVE ScoringInv'
    BY <1>1, ScoringInvStutter DEF CollectStep
<1>2. ASSUME NEW n \in Nodes, Score(n) PROVE ScoringInv'
    BY <1>2, ScoringInvStep
<1>3. ASSUME UNCHANGED vars PROVE ScoringInv'
    BY <1>3, ScoringInvStutter DEF vars
<1> QED BY <1>1, <1>2, <1>3 DEF Next

\* A call of Score that no other call overlapped prefers the row that TOPSIS,
\* computed in one piece over the rows it read, ranks first: the package
\* variables carry nothing over from an earlier call, for any number of
\* nodes, rows and criteria and any weights.
THEOREM AloneIsTopsis == Spec => []AloneIsRight
<1> DEFINE Inv == CollectorInv /\ ScoringInv
<1>1. Init => Inv
    BY CollectorInvInit, ScoringInvInit
<1>2. Inv /\ [Next]_vars => Inv'
    BY CollectorInvNext, ScoringInvNext
<1>3. Inv => AloneIsRight
    BY DEF ScoringInv
<1> HIDE DEF Inv
<1> QED BY <1>1, <1>2, <1>3, PTL DEF Spec

-----------------------------------------------------------------------------
(***************************************************************************)
(* Distances and the row that is preferred                                 *)
(***************************************************************************)

\* A set of natural numbers that is not empty has a least element.
LEMMA LeastNumber ==
    ASSUME NEW S, S \subseteq Nat, S # {}
    PROVE  \E n \in S : \A m \in S : n <= m
<1>1. PICK n \in S : \A m \in S : ~(<<m, n>> \in OpToRel(<, Nat))
    BY NatLessThanWellFounded, WFMin
<1>2. \A m \in S : ~(m < n)
    BY <1>1 DEF OpToRel
<1> QED BY <1>2

\* The sums of the squares of distances of two rows.
IsSquares(f, r, s, n) ==
    f = [k \in 0..n |-> IF k = 0 THEN 0 ELSE f[k - 1] + (r[k] - s[k]) * (r[k] - s[k])]

\* There are such sums for every number of criteria.
LEMMA SquaresExist ==
    ASSUME NEW r, NEW s
    PROVE  \A n \in Nat : \E f : IsSquares(f, r, s, n)
<1> DEFINE bad == {n \in Nat : ~\E f : IsSquares(f, r, s, n)}
<1> SUFFICES ASSUME bad # {} PROVE FALSE
    OBVIOUS
<1>1. PICK n \in bad : \A m \in bad : n <= m
    BY LeastNumber
<1>2. CASE n = 0
    <2>1. IsSquares([k \in 0..0 |-> 0], r, s, 0)
        BY DEF IsSquares
    <2> QED BY <1>2, <2>1
<1>3. CASE n # 0
    <2>1. n - 1 \in Nat /\ n - 1 \notin bad
        BY <1>1, <1>3
    <2>2. PICK f : IsSquares(f, r, s, n - 1)
        BY <2>1
    <2> DEFINE g == [k \in 0..n |-> IF k = n THEN f[n - 1] + (r[n] - s[n]) * (r[n] - s[n])
                                             ELSE f[k]]
    <2>3. \A k \in 0..(n - 1) : f[k] = IF k = 0 THEN 0 ELSE f[k - 1] + (r[k] - s[k]) * (r[k] - s[k])
        BY <2>2 DEF IsSquares
    <2>4. \A k \in 0..n : k # 0 => k - 1 \in 0..n /\ k - 1 # n
        OBVIOUS
    <2>5. \A k \in 0..n : k = n \/ k \in 0..(n - 1)
        OBVIOUS
    <2>6. \A k \in 0..n : g[k] = IF k = 0 THEN 0 ELSE g[k - 1] + (r[k] - s[k]) * (r[k] - s[k])
        <3> SUFFICES ASSUME NEW k \in 0..n
                     PROVE  g[k] = IF k = 0 THEN 0 ELSE g[k - 1] + (r[k] - s[k]) * (r[k] - s[k])
            OBVIOUS
        <3>1. CASE k = n
            <4>1. g[n - 1] = f[n - 1]
                BY <1>3, <2>4
            <4>2. g[n] = f[n - 1] + (r[n] - s[n]) * (r[n] - s[n])
                BY <3>1
            <4> QED BY <1>3, <3>1, <4>1, <4>2
        <3>2. CASE k # n
            <4>1. k \in 0..(n - 1)
                BY <2>5, <3>2
            <4>2. g[k] = f[k]
                BY <3>2
            <4>3. k # 0 => g[k - 1] = f[k - 1]
                BY <2>4
            <4> HIDE DEF g
            <4> QED BY <2>3, <4>1, <4>2, <4>3
        <3> QED BY <3>1, <3>2
    <2>7. g = [k \in 0..n |-> g[k]]
        OBVIOUS
    <2> HIDE DEF g
    <2>8. IsSquares(g, r, s, n)
        BY <2>6, <2>7 DEF IsSquares
    <2> QED BY <2>8
<1> QED BY <1>2, <1>3

\* The distance of two rows as the last of sums that grow by a square.
SumsUp(f, r, s) ==
    /\ Distance(r, s) = f[Total_criteria]
    /\ f[0] = 0
    /\ \A k \in Criteria : f[k] = f[k - 1] + (r[k] - s[k]) * (r[k] - s[k])
    /\ \A k \in 0..Total_criteria : f[k] \in Nat

\* There are such sums for every two rows.
LEMMA DistanceIsSum ==
    ASSUME NEW r \in [Criteria -> Nat], NEW s \in [Criteria -> Nat]
    PROVE  \E f : SumsUp(f, r, s)
<1> DEFINE f == CHOOSE f : IsSquares(f, r, s, Total_criteria)
           bad == {k \in 0..Total_criteria : f[k] \notin Nat}
<1>1. Total_criteria \in Nat
    BY ScoringAssumption
<1>2. IsSquares(f, r, s, Total_criteria)
    BY <1>1, SquaresExist
<1>3. Distance(r, s) = f[Total_criteria]
    BY DEF Distance, IsSquares
<1> HIDE DEF f
<1>4. \A k \in 0..Total_criteria :
          f[k] = IF k = 0 THEN 0 ELSE f[k - 1] + (r[k] - s[k]) * (r[k] - s[k])
    BY <1>2 DEF IsSquares
<1>5. bad = {}
    <2> SUFFICES ASSUME bad # {} PROVE FALSE
        OBVIOUS
    <2>8. bad \subseteq Nat
        BY <1>1
    <2>1. PICK k \in bad : \A m \in bad : k <= m
        <3> HIDE DEF bad
        <3> QED BY <2>8, LeastNumber
    <2>2. k # 0
        BY <1>1, <1>4, <2>1
    <2>3. k - 1 \in 0..Total_criteria /\ k \in Criteria
        BY <1>1, <2>2 DEF Criteria
    <2>4. f[k - 1] \in Nat
        BY <2>1, <2>3
    <2>5. (r[k] - s[k]) * (r[k] - s[k]) \in Nat
        <3> DEFINE x == r[k] - s[k]
        <3>1. x \in Int
            BY <2>3
        <3> HIDE DEF x
        <3>2. x * x \in Nat
            BY <3>1
        <3> QED BY <3>2 DEF x
    <2>6. f[k] = f[k - 1] + (r[k] - s[k]) * (r[k] - s[k])
        BY <1>4, <2>2
    <2> HIDE DEF bad
    <2>7. f[k] \in Nat
        BY <2>4, <2>5, <2>6
    <2> QED BY <2>1, <2>7 DEF bad
<1>6. f[0] = 0
    BY <1>1, <1>4
<1>7. \A k \in Criteria : f[k] = f[k - 1] + (r[k] - s[k]) * (r[k] - s[k])
    <2>1. \A k \in Criteria : k \in 0..Total_criteria /\ k # 0
        BY <1>1 DEF Criteria
    <2> QED BY <1>4, <2>1
<1>8. \A k \in 0..Total_criteria : f[k] \in Nat
    BY <1>5
<1> QED BY <1>3, <1>6, <1>7, <1>8 DEF SumsUp

\* The distance of two rows is a natural number.
LEMMA DistanceType ==
    ASSUME NEW r \in [Criteria -> Nat], NEW s \in [Criteria -> Nat]
    PROVE  Distance(r, s) \in Nat
<1>1. Total_criteria \in 0..Total_criteria
    BY ScoringAssumption
<1> QED BY <1>1, DistanceIsSum DEF SumsUp

\* A strict order on the first N rows, and a row of S that none of S is before.
StrictOrder(R, N) ==
    /\ \A x \in 1..N : <<x, x>> \notin R
    /\ \A x, y, z \in 1..N : <<x, y>> \in R /\ <<y, z>> \in R => <<x, z>> \in R

HasMaximal(R, S) == \E x \in S : \A y \in S : <<y, x>> \notin R

\* A strict order on the rows has a row that none is before.
LEMMA MaximalRow ==
    ASSUME NEW N \in Nat, NEW R, StrictOrder(R, N), NEW S \in SUBSET (1..N), S # {}
    PROVE  HasMaximal(R, S)
<1> DEFINE bad == {n \in 0..N : \E T \in SUBSET (1..n) : T # {} /\ ~HasMaximal(R, T)}
<1>1. bad = {}
    <2> SUFFICES ASSUME bad # {} PROVE FALSE
        OBVIOUS
    <2>1. bad \subseteq Nat
        OBVIOUS
    <2>2. PICK n \in bad : \A m \in bad : n <= m
        <3> HIDE DEF bad
        <3> QED BY <2>1, LeastNumber
    <2>3. n \in 0..N /\ n \in Nat
        OBVIOUS
    <2>4. PICK T \in SUBSET (1..n) : T # {} /\ ~HasMaximal(R, T)
        BY <2>2
    <2>5. n # 0
        <3> SUFFICES ASSUME n = 0 PROVE FALSE
            OBVIOUS
        <3>1. 1..n = {}
            OBVIOUS
        <3> QED BY <2>4, <3>1
    <2>6. n - 1 \in 0..N /\ n - 1 \notin bad
        <3>1. n - 1 \in 0..N /\ ~(n <= n - 1)
            BY <2>3, <2>5
        <3> HIDE DEF bad
        <3> QED BY <2>2, <3>1
    <2>7. \A U \in SUBSET (1..(n - 1)) : U # {} => HasMaximal(R, U)
        BY <2>6
    <2>8. T \subseteq 1..N /\ T \ {n} \in SUBSET (1..(n - 1))
        BY <2>3, <2>4
    <2> HIDE DEF bad
    <2>9. n \in T
        BY <2>4, <2>7, <2>8
    <2>10. CASE T \ {n} = {}
        <3>1. <<n, n>> \notin R
            BY <2>8, <2>9 DEF StrictOrder
        <3>2. \A y \in T : y = n
            BY <2>10
        <3> QED BY <2>4, <2>9, <3>1, <3>2 DEF HasMaximal
    <2>11. CASE T \ {n} # {}
        <3>1. PICK x \in T \ {n} : \A y \in T \ {n} : <<y, x>> \notin R
            BY <2>7, <2>8, <2>11 DEF HasMaximal
        <3>2. CASE <<n, x>> \notin R
            BY <2>4, <3>1, <3>2 DEF HasMaximal
        <3>3. CASE <<n, x>> \in R
            <4>1. \A y \in T : <<y, n>> \notin R
                BY <2>8, <2>9, <3>1, <3>3 DEF StrictOrder
            <4> QED BY <2>4, <2>9, <4>1 DEF HasMaximal
        <3> QED BY <3>2, <3>3
    <2> QED BY <2>10, <2>11
<1>2. N \in 0..N
    OBVIOUS
<1>3. ASSUME ~HasMaximal(R, S) PROVE FALSE
    <2>1. \E T \in SUBSET (1..N) : T # {} /\ ~HasMaximal(R, T)
        BY <1>3
    <2>2. N \in bad
        BY <1>2, <2>1
    <2> QED BY <1>1, <2>2
<1> QED BY <1>3

\* Comparing quotients by their products is transitive.
LEMMA QuotientsOrdered ==
    ASSUME NEW p1 \in Nat, NEW p2 \in Nat, NEW p3 \in Nat, p1 > 0, p2 > 0, p3 > 0,
           NEW q1 \in Nat, NEW q2 \in Nat, NEW q3 \in Nat,
           p3 * q2 > p2 * q3, p2 * q1 > p1 * q2
    PROVE  p3 * q1 > p1 * q3
<1> DEFINE l == p3 * q1
           r == p1 * q3
<1>1. q1 > 0 /\ q2 > 0
    <2>1. p1 * q2 >= 0 /\ p2 * q3 >= 0
        OBVIOUS
    <2>2. q1 # 0
        BY <2>1
    <2>3. q2 # 0
        BY <2>1
    <2> QED BY <2>2, <2>3
<1>2. (p3 * q2) * q1 > (p2 * q3) * q1
    BY <1>1
<1>3. (p2 * q1) * q3 >= (p1 * q2) * q3
    OBVIOUS
<1>4. q2 * l > q2 * r
    BY <1>2, <1>3
<1>5. l \in Nat /\ r \in Nat
    OBVIOUS
<1> HIDE DEF l, r
<1>6. l > r
    BY <1>1, <1>4, <1>5
<1> QED BY <1>6 DEF l, r

\* The row that is preferred is one of the rows, and no row with a closeness is
\* closer.
LEMMA TopRowType ==
    ASSUME NEW t, NEW w, NEW b,
           \A x \in Ranked : /\ t[x] \in [Criteria -> Nat]
                             /\ w[x] \in [Criteria -> Nat] /\ b[x] \in [Criteria -> Nat]
    PROVE  /\ TopRow(t, w, b) \in Ranked
           /\ \A x \in Ranked : Distance(t[x], w[x]) > 0 =>
                  /\ Distance(t[TopRow(t, w, b)], w[TopRow(t, w, b)]) > 0
                  /\ ~Closer(t, w, b, x, TopRow(t, w, b))
<1> DEFINE p(x) == Distance(t[x], w[x])
           q(x) == Distance(t[x], b[x])
           above == {x \in Ranked : p(x) > 0}
           best  == {x \in above : \A y \in above : ~Closer(t, w, b, y, x)}
           R == {z \in above \X above : Closer(t, w, b, z[1], z[2])}
<1>1. \A x \in Ranked : p(x) \in Nat /\ q(x) \in Nat
    BY DistanceType
<1>2. \A x, y \in above : <<x, y>> \in R <=> p(x) * q(y) > p(y) * q(x)
    BY DEF Closer
<1>3. above \subseteq Ranked
    OBVIOUS
<1>4. above # {} => best # {}
    <2> HIDE DEF p, q
    <2> SUFFICES ASSUME above # {} PROVE best # {}
        OBVIOUS
    <2>1. \A x, y : <<x, y>> \in R => x \in above /\ y \in above
        OBVIOUS
    <2>2. \A x \in above : p(x) \in Nat /\ q(x) \in Nat /\ p(x) > 0
        BY <1>1
    <2>3. \A x, y \in above : <<x, y>> \in R <=> Closer(t, w, b, x, y)
        OBVIOUS
    <2> HIDE DEF above, R
    <2>4. \A x \in Ranked : <<x, x>> \notin R
        <3> SUFFICES ASSUME NEW x \in Ranked, <<x, x>> \in R PROVE FALSE
            OBVIOUS
        <3>1. x \in above /\ p(x) * q(x) > p(x) * q(x)
            BY <1>2, <2>1
        <3>2. p(x) * q(x) \in Nat
            BY <2>2, <3>1
        <3> QED BY <3>1, <3>2
    <2>5. \A x, y, z \in Ranked : <<x, y>> \in R /\ <<y, z>> \in R => <<x, z>> \in R
        <3> SUFFICES ASSUME NEW x \in Ranked, NEW y \in Ranked, NEW z \in Ranked,
                            <<x, y>> \in R, <<y, z>> \in R
                     PROVE  <<x, z>> \in R
            OBVIOUS
        <3>1. x \in above /\ y \in above /\ z \in above
            BY <2>1
        <3>2. p(x) * q(y) > p(y) * q(x) /\ p(y) * q(z) > p(z) * q(y)
            BY <1>2, <3>1
        <3>3. p(x) * q(z) > p(z) * q(x)
            BY <2>2, <3>1, <3>2, QuotientsOrdered
        <3> QED BY <1>2, <3>1, <3>3
    <2>6. PICK x \in above : \A y \in above : <<y, x>> \notin R
        <3>1. Ranked = 1..Total_Node /\ Total_Node \in Nat
            BY ScoringAssumption DEF Ranked
        <3>2. StrictOrder(R, Total_Node)
            BY <2>4, <2>5, <3>1 DEF StrictOrder
        <3>3. above \in SUBSET (1..Total_Node)
            BY <1>3, <3>1
        <3>4. HasMaximal(R, above)
            BY <3>1, <3>2, <3>3, MaximalRow
        <3> QED BY <3>4 DEF HasMaximal
    <2> QED BY <2>3, <2>6
<1>5. best \subseteq Nat /\ best \subseteq Ranked
    BY DEF Ranked
<1>6. TopRow(t, w, b) = IF above = {} THEN 1 ELSE Least(best)
    BY DEF TopRow
<1>7. /\ \A x \in Ranked : Distance(t[x], w[x]) > 0 <=> x \in above
      /\ \A x \in best : x \in above /\ \A y \in above : ~Closer(t, w, b, y, x)
    OBVIOUS
<1> HIDE DEF above, best
<1>8. ASSUME best # {} PROVE Least(best) \in best
    <2>1. \E x \in best : \A y \in best : x <= y
        BY <1>5, <1>8, LeastNumber
    <2> QED BY <2>1 DEF Least
<1>9. CASE above = {}
    BY <1>6, <1>7, <1>9, FirstCell
<1>10. CASE above # {}
    <2>1. TopRow(t, w, b) \in best
        BY <1>4, <1>6, <1>8, <1>10
    <2> QED BY <1>5, <1>7, <2>1
<1> QED BY <1>9, <1>10

-----------------------------------------------------------------------------
(***************************************************************************)
(* Types                                                                   *)
(***************************************************************************)

\* Entropy_w gives each criterion a weight, whatever table it gets.
WeightsAreNatural == \A t \in Seq([Criteria -> Nat]) : Entropy_w(t) \in [Criteria -> Nat]

\* The rows D that a call at a can rely on: those its loop has passed, and
\* all of them once the loop that may panic is over.
RowsThere(a, D) ==
    /\ a.phase \in {"lower", "store"} => \A x \in Ranked : x < a.i => x \in D
    /\ a.phase = "store" => a.i \in D
    /\ a.phase \notin {"idle", "anchor", "lower", "store"} => Ranked \subseteq D

CopyOK(n) ==
    /\ data[n] \in Seq([Criteria -> Nat])
    /\ Active(n) => data[n] # <<>>
    /\ RowsThere(at[n], DOMAIN data[n])

ScoringTypes ==
    /\ Aw \in [Criteria -> Nat] /\ Ab \in [Criteria -> Nat]
    /\ seenAw \in [Nodes -> [Ranked -> [Criteria -> Nat]]]
    /\ seenAb \in [Nodes -> [Ranked -> [Criteria -> Nat]]]
    /\ top \in [Nodes -> 0..Total_Node]
    /\ score \in [Nodes -> {0, 100}]
    /\ calls \in 0..MaxCalls
    /\ \A n \in Nodes : CopyOK(n)

\* Some entry of a list of natural numbers is the largest.
LEMMA LargestEntry ==
    ASSUME NEW N \in Nat, N # 0, NEW v \in [1..N -> Nat]
    PROVE  \E x \in 1..N : \A y \in 1..N : v[x] >= v[y]
<1> DEFINE R == {z \in (1..N) \X (1..N) : v[z[1]] > v[z[2]]}
           S == 1..N
<1>1. \A x, y \in S : <<x, y>> \in R <=> v[x] > v[y]
    OBVIOUS
<1>2. \A x \in S : v[x] \in Nat
    OBVIOUS
<1>3. S \in SUBSET (1..N) /\ S # {} /\ S = 1..N
    <2>1. 1 \in 1..N
        OBVIOUS
    <2> QED BY <2>1
<1> HIDE DEF R, S
<1>4. \A x \in S : <<x, x>> \notin R
    BY <1>1, <1>2
<1>5. ASSUME NEW x \in S, NEW y \in S, NEW z \in S, <<x, y>> \in R, <<y, z>> \in R
      PROVE  <<x, z>> \in R
    <2>1. v[x] > v[y] /\ v[y] > v[z]
        BY <1>1, <1>5
    <2>2. v[x] > v[z]
        BY <1>2, <2>1
    <2> QED BY <1>1, <2>2
<1>6. StrictOrder(R, N)
    BY <1>3, <1>4, <1>5 DEF StrictOrder
<1>7. PICK x \in S : \A y \in S : <<y, x>> \notin R
    BY <1>3, <1>6, MaximalRow DEF HasMaximal
<1>8. \A y \in S : v[x] >= v[y]
    <2> SUFFICES ASSUME NEW y \in S PROVE v[x] >= v[y]
        OBVIOUS
    <2>1. ~(v[y] > v[x])
        BY <1>1, <1>7
    <2>2. v[x] \in Nat /\ v[y] \in Nat
        BY <1>2
    <2> QED BY <2>1, <2>2
<1> QED BY <1>3, <1>8

\* The smallest and the largest value of a column bound its cells.
LEMMA ColumnBounds ==
    ASSUME NEW t \in Seq([Criteria -> Nat]), t # <<>>, NEW k \in Criteria
    PROVE  /\ Least(Column(t, k)) \in Nat /\ Greatest(Column(t, k)) \in Nat
           /\ \A x \in DOMAIN t : Least(Column(t, k)) <= t[x][k] /\ t[x][k] <= Greatest(Column(t, k))
<1> DEFINE col == Column(t, k)
           N == Len(t)
           v == [x \in 1..N |-> t[x][k]]
<1>1. N \in Nat /\ N # 0 /\ DOMAIN t = 1..N
    BY EmptySeq
<1>2. v \in [1..N -> Nat]
    <2>1. \A x \in 1..N : t[x] \in [Criteria -> Nat]
        BY <1>1
    <2> QED BY <2>1
<1>3. col = {v[x] : x \in 1..N}
    BY <1>1 DEF Column
<1> HIDE DEF col, v, N
<1>4. col \subseteq Nat /\ col # {}
    <2>1. 1 \in 1..N
        BY <1>1
    <2>2. v[1] \in col
        BY <1>3, <2>1
    <2> QED BY <1>2, <1>3, <2>2
<1>5. Least(col) \in col /\ \A m \in col : Least(col) <= m
    <2>1. \E n \in col : \A m \in col : n <= m
        BY <1>4, LeastNumber
    <2> QED BY <1>4, <2>1 DEF Least
<1>6. Greatest(col) \in col /\ \A m \in col : Greatest(col) >= m
    <2>1. PICK x \in 1..N : \A y \in 1..N : v[x] >= v[y]
        BY <1>1, <1>2, LargestEntry
    <2>2. v[x] \in col /\ \A m \in col : v[x] >= m
        BY <1>3, <2>1
    <2>3. \E n \in col : \A m \in col : n >= m
        BY <2>2
    <2> QED BY <1>4, <2>3 DEF Greatest
<1>7. \A x \in DOMAIN t : t[x][k] \in col
    BY DEF col, Column
<1> DEFINE l == Least(col)
           g == Greatest(col)
<1>8. l \in Nat /\ g \in Nat /\ \A m \in col : m \in Nat /\ l <= m /\ g >= m
    BY <1>4, <1>5, <1>6
<1> HIDE DEF l, g
<1>9. \A m \in col : l <= m /\ m <= g
    BY <1>8
<1> QED BY <1>7, <1>8, <1>9 DEF col, l, g

\* A normalised cell is a natural number.
LEMMA NormalType ==
    ASSUME NEW k \in Criteria, NEW x \in Nat, NEW g \in Nat
    PROVE  Normal(k, x, g) \in Nat
<1>1. ASSUME NEW u \in Nat, NEW v \in Nat, v > 0
      PROVE  (Scale * u) \div v \in Nat
    <2> DEFINE w == Scale * u
    <2>1. w \in Nat
        BY ScoringAssumption
    <2> HIDE DEF w
    <2>2. w \div v \in Nat
        BY <1>1, <2>1
    <2> QED BY <2>2 DEF w
<1>2. g > 0 => (Scale * x) \div g \in Nat
    BY <1>1
<1>3. x # 0 => (Scale * g) \div x \in Nat
    BY <1>1
<1> DEFINE b == (Scale * x) \div g
           c == (Scale * g) \div x
<1>4. Normal(k, x, g) = IF k \in Benefit
                        THEN IF g > 0 THEN b ELSE x
                        ELSE IF x = 0 THEN 0 ELSE IF g = 0 THEN Epsilon ELSE c
    BY DEF Normal
<1> HIDE DEF b, c
<1>5. g > 0 => b \in Nat
    BY <1>2 DEF b
<1>6. x # 0 => c \in Nat
    BY <1>3 DEF c
<1> QED BY <1>4, <1>5, <1>6, ScoringAssumption

\* A weighed table is a table with the same rows.
LEMMA WeighedType ==
    ASSUME WeightsAreNatural, NEW t \in Seq([Criteria -> Nat])
    PROVE  Weighed(t) \in Seq([Criteria -> Nat]) /\ DOMAIN Weighed(t) = DOMAIN t
<1> DEFINE w == Entropy_w(t)
           row(x) == [k \in Criteria |-> w[k] * t[x][k]]
           m == [x \in DOMAIN t |-> IF x \in Ranked THEN row(x) ELSE t[x]]
<1>1. w \in [Criteria -> Nat]
    BY DEF WeightsAreNatural
<1> HIDE DEF w
<1>2. \A x \in DOMAIN t : t[x] \in [Criteria -> Nat]
    OBVIOUS
<1>3. \A x \in DOMAIN t : row(x) \in [Criteria -> Nat]
    <2> SUFFICES ASSUME NEW x \in DOMAIN t, NEW k \in Criteria PROVE w[k] * t[x][k] \in Nat
        OBVIOUS
    <2>1. w[k] \in Nat /\ t[x][k] \in Nat
        BY <1>1, <1>2
    <2> QED BY <2>1
<1> HIDE DEF row
<1>4. DOMAIN t = 1..Len(t) /\ Len(t) \in Nat
    OBVIOUS
<1>5. m \in [1..Len(t) -> [Criteria -> Nat]]
    BY <1>2, <1>3, <1>4
<1>6. Weighed(t) = m
    BY DEF Weighed, row, w
<1>7. DOMAIN m = DOMAIN t
    OBVIOUS
<1> DEFINE len == Len(t)
<1> HIDE DEF m, len
<1>8. m \in [1..len -> [Criteria -> Nat]] /\ len \in Nat
    BY <1>4, <1>5 DEF len
<1>9. m \in Seq([Criteria -> Nat])
    BY <1>8
<1> QED BY <1>6, <1>7, <1>9

\* A call with all ranked rows can rely on them wherever it is.
LEMMA AllRowsThere ==
    ASSUME NEW b \in Place, NEW D, Ranked \subseteq D
    PROVE  RowsThere(b, D)
BY DEF RowsThere, Place

\* After a row was compared with an anchor.
LEMMA RowsAfterLower ==
    ASSUME NEW a \in Place, NEW D, \A x \in Ranked : x < a.i => x \in D, a.i \in D
    PROVE  RowsThere(AfterLower(a), D)
<1> DEFINE b == AfterLower(a)
           i == a.i
           bi == b.i
           Passed(m) == \A x \in Ranked : x < m => x \in D
<1>1. "lower" \in Phases /\ "zero" \in Phases
    BY DEF Phases
<1>2. \/ b \in Place /\ b.phase = "lower" /\ bi = i
      \/ b \in Place /\ b.phase = "lower" /\ bi = i + 1
      \/ i = Total_Node /\ b = At("zero", 1, 1)
    BY <1>1, NextCellCases DEF AfterLower
<1>3. i \in Nat /\ Total_Node \in Nat /\ Ranked = 1..Total_Node
    BY ScoringAssumption DEF Ranked, Place
<1>4. Passed(i) /\ i \in D
    OBVIOUS
<1> HIDE DEF b, i, bi
<1>5. Passed(i + 1)
    <2> SUFFICES ASSUME NEW x \in Ranked, x < i + 1 PROVE x \in D
        OBVIOUS
    <2>1. x \in Nat
        BY <1>3
    <2>2. x < i \/ x = i
        BY <1>3, <2>1
    <2> QED BY <1>4, <2>2
<1>6. i = Total_Node => Ranked \subseteq D
    <2> SUFFICES ASSUME i = Total_Node, NEW x \in Ranked PROVE x \in D
        OBVIOUS
    <2>1. x \in Nat /\ x < i + 1
        BY <1>3
    <2> QED BY <1>5, <2>1
<1>7. CASE b \in Place /\ b.phase = "lower" /\ (bi = i \/ bi = i + 1)
    BY <1>4, <1>5, <1>7 DEF RowsThere, b, bi
<1>8. CASE i = Total_Node /\ b = At("zero", 1, 1)
    <2>1. At("zero", 1, 1) \in Place
        BY <1>1, FirstCell, AtParts
    <2> QED BY <1>6, <1>8, <2>1, AllRowsThere DEF b
<1> QED BY <1>2, <1>7, <1>8

\* A step that panics leaves no table behind.
LEMMA PanicTypes ==
    ASSUME ScoringTypes, NEW n \in Nodes, Panic(n)
    PROVE  ScoringTypes'
<1>1. Zeros \in [Criteria -> Nat] /\ Blank \in [Ranked -> [Criteria -> Nat]]
    BY DEF Zeros, Blank
<1>2. /\ Aw' \in [Criteria -> Nat] /\ Ab' \in [Criteria -> Nat]
      /\ seenAw' \in [Nodes -> [Ranked -> [Criteria -> Nat]]]
      /\ seenAb' \in [Nodes -> [Ranked -> [Criteria -> Nat]]]
      /\ calls' \in 0..MaxCalls
    BY <1>1 DEF Panic, ScoringTypes
<1>3. top' \in [Nodes -> 0..Total_Node] /\ score' \in [Nodes -> {0, 100}]
    <2>1. 0 \in 0..Total_Node
        BY ScoringAssumption
    <2> QED BY <2>1 DEF Panic
<1>4. \A m \in Nodes : CopyOK(m)'
    <2> SUFFICES ASSUME NEW m \in Nodes PROVE CopyOK(m)'
        OBVIOUS
    <2>1. data'[m] = <<>> /\ at'[m] = At("idle", 1, 1)
        BY DEF Panic
    <2>2. at'[m].phase = "idle"
        BY <2>1 DEF At
    <2>3. data'[m] \in Seq([Criteria -> Nat])
        BY <2>1, EmptySeq
    <2> QED BY <2>2, <2>3 DEF CopyOK, RowsThere, Active
<1> QED BY <1>2, <1>3, <1>4 DEF ScoringTypes

\* The copy of a call after a step of its own.
LEMMA CopyStep ==
    ASSUME WeightsAreNatural, CollectorInv, CallsShape, NEW n \in Nodes, RawTable(n), CopyOK(n),
           Score(n), ~Panic(n)
    PROVE  CopyOK(n)'
<1> DEFINE a == at[n]
<1>1. /\ a \in Place /\ a.i \in Ranked /\ a.j \in Criteria /\ at'[n] \in Place
      /\ FunctionOn(data, Nodes) /\ Gobal \in [Criteria -> Nat]
    BY CallEffect DEF CallsShape, Place
<1>2. \A p \in Phases, i \in Ranked, j \in Criteria :
          At(p, i, j) \in Place /\ At(p, i, j).phase = p /\ At(p, i, j).i = i
    BY AtParts
<1>3. {"idle", "anchor", "lower", "store", "zero", "fill"} \subseteq Phases
    BY DEF Phases
<1>4. data[n] \in Seq([Criteria -> Nat]) /\ RowsThere(a, DOMAIN data[n])
    BY DEF CopyOK
<1>5. CASE Read(n)
    <2>1. PICK f \in Scan : /\ f # <<>>
                            /\ data' = [data EXCEPT ![n] = [i \in DOMAIN f |-> f[i].agg]]
        BY <1>5 DEF Read
    <2> DEFINE g == [i \in DOMAIN f |-> f[i].agg]
    <2>2. g \in Seq([Criteria -> Nat]) /\ g # <<>>
        BY <2>1, ScanIsTable
    <2>3. data' = [data EXCEPT ![n] = g]
        BY <2>1
    <2> HIDE DEF g
    <2>4. data'[n] = g
        BY <1>1, <2>3, ExceptOn
    <2>5. at'[n].phase = "anchor"
        BY <1>2, <1>3, <1>5, FirstCell, Moves DEF Read
    <2> QED BY <2>2, <2>4, <2>5 DEF CopyOK, RowsThere
<1>6. CASE ReadFails(n) \/ Rank(n)
    <2> DEFINE empty == <<>>
    <2>1. data' = [data EXCEPT ![n] = empty]
        BY <1>6 DEF ReadFails, Rank
    <2> HIDE DEF empty
    <2>2. data'[n] = empty
        BY <1>1, <2>1, ExceptOn
    <2>3. data'[n] \in Seq([Criteria -> Nat])
        BY <2>2, EmptySeq DEF empty
    <2>4. at'[n].phase = "idle"
        <3>1. CASE ReadFails(n)
            BY <3>1 DEF ReadFails, Begins, Active
        <3>2. CASE Rank(n)
            BY <1>2, <1>3, <3>2, FirstCell, Moves DEF Rank
        <3> QED BY <1>6, <3>1, <3>2
    <2> QED BY <2>3, <2>4 DEF CopyOK, RowsThere, Active
<1>7. ASSUME a.phase # "idle", data' = data, RowsThere(at'[n], DOMAIN data[n])
      PROVE  CopyOK(n)'
    <2>1. data[n] # <<>>
        BY <1>7 DEF CopyOK, Active
    <2> QED BY <1>4, <1>7, <2>1 DEF CopyOK
<1>8. CASE Anchor(n)
    <2> DEFINE b == NextCriterion(a, "anchor", At("lower", 1, 1))
    <2>1. a.phase = "anchor" /\ data' = data /\ at'[n] = b
        BY <1>1, <1>8, PlacesNext, Moves DEF Anchor, local
    <2>2. b.phase = "anchor" \/ (b.phase = "lower" /\ b.i = 1)
        BY <1>1, <1>2, <1>3, FirstCell, NextCriterionCases
    <2> HIDE DEF b
    <2>3. \A x \in Ranked : ~(x < 1)
        BY DEF Ranked
    <2>4. RowsThere(b, DOMAIN data[n])
        BY <2>2, <2>3 DEF RowsThere
    <2> QED BY <1>7, <2>1, <2>4
<1>9. CASE Lower(n) \/ Store(n)
    <2>1. /\ a.phase \in {"lower", "store"} /\ data' = data
          /\ a.i \in DOMAIN data[n]
          /\ \A x \in Ranked : x < a.i => x \in DOMAIN data[n]
        BY <1>4, <1>9 DEF Lower, Store, local, RowsThere
    <2>2. at'[n] = AfterLower(a) \/ at'[n] = At("store", a.i, a.j)
        <3>1. At("store", a.i, a.j) \in Place /\ AfterLower(a) \in Place
            BY <1>1, <1>2, <1>3, PlacesNext
        <3> QED BY <1>9, <3>1, Moves DEF Lower, Store
    <2>3. CASE at'[n] = AfterLower(a)
        BY <1>1, <1>7, <2>1, <2>3, RowsAfterLower
    <2>4. CASE at'[n] = At("store", a.i, a.j)
        <3>1. at'[n].phase = "store" /\ at'[n].i = a.i
            BY <1>1, <1>2, <1>3, <2>4
        <3>2. RowsThere(at'[n], DOMAIN data[n])
            BY <2>1, <3>1 DEF RowsThere
        <3> QED BY <1>7, <2>1, <3>2
    <2> QED BY <2>2, <2>3, <2>4
<1>10. CASE Zero(n) \/ Fill(n) \/ Worst(n) \/ Best(n) \/ Diw(n) \/ Dib(n)
    <2>1. data' = data /\ a.phase \in {"zero", "fill", "worst", "best", "diw", "dib"}
        BY <1>10 DEF Zero, Fill, Worst, Best, Diw, Dib, local
    <2>2. Ranked \subseteq DOMAIN data[n]
        BY <1>4, <2>1 DEF RowsThere
    <2> QED BY <1>1, <1>7, <2>1, <2>2, AllRowsThere
<1>11. CASE Normalise(n)
    <2> DEFINE d == data[n]
               g == Gobal[a.j]
               c == Normal(a.j, d[a.i][a.j], g)
               row == [d[a.i] EXCEPT ![a.j] = c]
               t == [d EXCEPT ![a.i] = row]
               w == Weighed(t)
    <2>1. a.phase = "normalise" /\ Ranked \subseteq DOMAIN d
        BY <1>4, <1>11 DEF Normalise, RowsThere
    <2>2. d[a.i] \in [Criteria -> Nat] /\ g \in Nat /\ d # <<>>
        BY <1>1, <1>4, <2>1 DEF CopyOK, Active
    <2>3. c \in Nat
        BY <1>1, <2>2, NormalType
    <2>4. row \in [Criteria -> Nat]
        BY <1>1, <2>2, <2>3
    <2> HIDE DEF c, row
    <2>5. t \in Seq([Criteria -> Nat]) /\ DOMAIN t = DOMAIN d
        <3> HIDE DEF d
        <3>1. d \in Seq([Criteria -> Nat])
            BY <1>4 DEF d
        <3> QED BY <1>1, <2>1, <2>4, <3>1, ExceptSeq
    <2>6. data' = [data EXCEPT ![n] = w] \/ data' = [data EXCEPT ![n] = t]
        BY <1>11 DEF Normalise, c, row
    <2> HIDE DEF t, w
    <2>7. data'[n] = w \/ data'[n] = t
        BY <1>1, <2>6, ExceptOn
    <2>8. w \in Seq([Criteria -> Nat]) /\ DOMAIN w = DOMAIN t
        BY <2>5, WeighedType DEF w
    <2>9. data'[n] \in Seq([Criteria -> Nat]) /\ DOMAIN data'[n] = DOMAIN d
        BY <2>5, <2>7, <2>8
    <2>10. RowsThere(at'[n], DOMAIN data'[n])
        BY <1>1, <2>1, <2>9, AllRowsThere
    <2>11. data'[n] # <<>>
        BY <2>1, <2>9, FirstCell, EmptySeq
    <2> QED BY <2>9, <2>10, <2>11 DEF CopyOK
<1> QED BY <1>5, <1>6, <1>8, <1>9, <1>10, <1>11 DEF Score

\* The types after every step of a call.
LEMMA TypesStep ==
    ASSUME WeightsAreNatural, CollectorInv, CallsShape, \A m \in Nodes : RawTable(m),
           ScoringTypes, NEW n \in Nodes, Score(n)
    PROVE  ScoringTypes'
<1> DEFINE a == at[n]
           NatRow == [Criteria -> Nat]
<1>1. /\ a \in Place /\ a.i \in Ranked /\ a.j \in Criteria
      /\ Aw \in NatRow /\ Ab \in NatRow
      /\ seenAw \in [Nodes -> [Ranked -> NatRow]] /\ seenAb \in [Nodes -> [Ranked -> NatRow]]
      /\ top \in [Nodes -> 0..Total_Node] /\ score \in [Nodes -> {0, 100}]
      /\ calls \in 0..MaxCalls
    BY DEF CallsShape, Place, ScoringTypes
<1>2. CASE Panic(n)
    BY <1>2, PanicTypes
<1>3. CASE ~Panic(n)
    <2>1. \A m \in Nodes : CopyOK(m)'
        <3>1. \A m \in Nodes \ {n} : at'[m] = at[m] /\ data'[m] = data[m]
            BY <1>3, CallEffect
        <3>2. \A m \in Nodes \ {n} : CopyOK(m)'
            BY <3>1 DEF ScoringTypes, CopyOK, Active
        <3>3. CopyOK(n)'
            BY <1>3, CopyStep DEF ScoringTypes
        <3> QED BY <3>2, <3>3
    <2>2. Aw' \in NatRow /\ Ab' \in NatRow
        <3>1. CASE Worst(n)
            <4>1. data[n] \in Seq(NatRow) /\ data[n] # <<>>
                BY <3>1 DEF Worst, ScoringTypes, CopyOK, Active
            <4>2. Least(Column(data[n], a.j)) \in Nat
                BY <1>1, <4>1, ColumnBounds
            <4> QED BY <1>1, <3>1, <4>2 DEF Worst
        <3>2. CASE Best(n)
            <4>1. data[n] \in Seq(NatRow) /\ data[n] # <<>>
                BY <3>2 DEF Best, ScoringTypes, CopyOK, Active
            <4>2. Greatest(Column(data[n], a.j)) \in Nat
                BY <1>1, <4>1, ColumnBounds
            <4> QED BY <1>1, <3>2, <4>2 DEF Best
        <3>3. CASE ~Worst(n) /\ ~Best(n)
            <4>1. UNCHANGED <<Aw, Ab>>
                BY <1>3, <3>3 DEF Score, Read, ReadFails, Anchor, Lower, Store, Zero, Fill,
                                  Normalise, Diw, Dib, Rank, shared
            <4> QED BY <1>1, <4>1
        <3> QED BY <3>1, <3>2, <3>3
    <2>3. /\ seenAw' \in [Nodes -> [Ranked -> NatRow]]
          /\ seenAb' \in [Nodes -> [Ranked -> NatRow]]
        <3>1. CASE Diw(n)
            <4>1. [seenAw[n] EXCEPT ![a.i] = Aw] \in [Ranked -> NatRow]
                BY <1>1
            <4> QED BY <1>1, <3>1, <4>1 DEF Diw
        <3>2. CASE Dib(n)
            <4>1. [seenAb[n] EXCEPT ![a.i] = Ab] \in [Ranked -> NatRow]
                BY <1>1
            <4> QED BY <1>1, <3>2, <4>1 DEF Dib
        <3>3. CASE Rank(n)
            <4>1. Blank \in [Ranked -> NatRow]
                BY DEF Blank, Zeros
            <4> QED BY <1>1, <3>3, <4>1 DEF Rank
        <3>4. CASE ~Diw(n) /\ ~Dib(n) /\ ~Rank(n)
            <4>1. UNCHANGED <<seenAw, seenAb>>
                BY <1>3, <3>4 DEF Score, Read, ReadFails, Anchor, Lower, Store, Zero, Fill,
                                  Normalise, Worst, Best, local
            <4> QED BY <1>1, <4>1
        <3> QED BY <3>1, <3>2, <3>3, <3>4
    <2>4. top' \in [Nodes -> 0..Total_Node] /\ score' \in [Nodes -> {0, 100}]
        <3>1. CASE Rank(n)
            <4> DEFINE i == TopRow(data[n], seenAw[n], seenAb[n])
            <4>1. Ranked \subseteq DOMAIN data[n] /\ data[n] \in Seq(NatRow)
                BY <3>1 DEF Rank, ScoringTypes, CopyOK, RowsThere
            <4>2. \A x \in Ranked : /\ data[n][x] \in NatRow
                                    /\ seenAw[n][x] \in NatRow /\ seenAb[n][x] \in NatRow
                <5>1. \A x \in Ranked : data[n][x] \in NatRow
                    <6> HIDE DEF NatRow
                    <6> QED BY <4>1
                <5>2. \A x \in Ranked : seenAw[n][x] \in NatRow
                    BY <1>1
                <5>3. \A x \in Ranked : seenAb[n][x] \in NatRow
                    BY <1>1
                <5> QED BY <5>1, <5>2, <5>3
            <4>3. i \in Ranked
                BY <4>2, TopRowType
            <4> HIDE DEF i
            <4>4. i \in 0..Total_Node
                BY <4>3, ScoringAssumption DEF Ranked
            <4>5. ScoreOf(n, i) \in {0, 100}
                BY DEF ScoreOf
            <4> QED BY <1>1, <3>1, <4>4, <4>5 DEF Rank, i
        <3>2. CASE ReadFails(n)
            <4>1. 0 \in 0..Total_Node
                BY ScoringAssumption
            <4> QED BY <1>1, <3>2, <4>1 DEF ReadFails
        <3>3. CASE ~Rank(n) /\ ~ReadFails(n)
            <4>1. UNCHANGED <<top, score>>
                BY <1>3, <3>3 DEF Score, Read, Anchor, Lower, Store, Zero, Fill, Normalise, Worst,
                                  Best, Diw, Dib, answer
            <4> QED BY <1>1, <4>1
        <3> QED BY <3>1, <3>2, <3>3
    <2>5. calls' \in 0..MaxCalls
        <3>1. CASE Begins(n)
            BY <1>1, <3>1, ScoringAssumption DEF Begins
        <3>2. CASE ~Begins(n)
            <4>1. calls' = calls
                BY <1>3, <3>2 DEF Score, Read, ReadFails, Anchor, Lower, Store, Zero, Fill,
                                  Normalise, Worst, Best, Diw, Dib, Rank, ghosts
            <4> QED BY <1>1, <4>1
        <3> QED BY <3>1, <3>2
    <2> QED BY <2>1, <2>2, <2>3, <2>4, <2>5 DEF ScoringTypes
<1> QED BY <1>2, <1>3

\* The types at the start.
LEMMA TypesInit == Init => ScoringTypes
<1> SUFFICES ASSUME Init PROVE ScoringTypes
    OBVIOUS
<1>1. Zeros \in [Criteria -> Nat] /\ Blank \in [Ranked -> [Criteria -> Nat]]
    BY DEF Zeros, Blank
<1>2. 0 \in 0..Total_Node /\ 0 \in 0..MaxCalls
    BY ScoringAssumption
<1>3. \A n \in Nodes : CopyOK(n)
    <2> SUFFICES ASSUME NEW n \in Nodes PROVE CopyOK(n)
        OBVIOUS
    <2>1. data[n] = <<>> /\ at[n].phase = "idle"
        BY DEF Init, Fresh, At
    <2>2. data[n] \in Seq([Criteria -> Nat])
        BY <2>1, EmptySeq
    <2> QED BY <2>1, <2>2 DEF CopyOK, RowsThere, Active
<1> QED BY <1>1, <1>2, <1>3 DEF Init, Fresh, ScoringTypes

\* Every part of the state of the plugin and its collectors keeps its type,
\* however calls of Score and collectors interleave: past the loop that may
\* panic a call has every row it indexes, each column has a least and a
\* greatest value, and the row preferred is one of the Total_Node rows.
THEOREM TypeCorrect == WeightsAreNatural => (Spec => []TypeOK)
<1> SUFFICES ASSUME WeightsAreNatural PROVE Spec => []TypeOK
    OBVIOUS
<1> DEFINE Inv == CollectorInv /\ ScoringInv /\ ScoringTypes
<1>1. Init => Inv
    BY CollectorInvInit, ScoringInvInit, TypesInit
<1>2. Inv /\ [Next]_vars => Inv'
    <2> SUFFICES ASSUME Inv, [Next]_vars PROVE Inv'
        OBVIOUS
    <2>1. CollectorInv' /\ ScoringInv'
        BY CollectorInvNext, ScoringInvNext
    <2>2. ASSUME UNCHANGED <<shared, at, local, answer, ghosts>> PROVE ScoringTypes'
        BY <2>2 DEF ScoringTypes, CopyOK, RowsThere, Active, shared, local, answer, ghosts
    <2>3. ASSUME NEW c \in Collectors, CollectStep(c) PROVE ScoringTypes'
        BY <2>2, <2>3 DEF CollectStep
    <2>4. ASSUME NEW n \in Nodes, Score(n) PROVE ScoringTypes'
        BY <2>4, TypesStep DEF ScoringInv
    <2>5. ASSUME UNCHANGED vars PROVE ScoringTypes'
        BY <2>2, <2>5 DEF vars
    <2>6. ScoringTypes'
        BY <2>3, <2>4, <2>5 DEF Next
    <2> QED BY <2>1, <2>6
<1>3. Inv => TypeOK
    <2> SUFFICES ASSUME Inv PROVE TypeOK
        OBVIOUS
    <2>1. \A n \in Nodes : read[n] \in Seq([Criteria -> Nat]) /\ data[n] \in Seq([Criteria -> Nat])
        BY DEF ScoringInv, RawTable, ScoringTypes, CopyOK
    <2>2. \A t \in Seq([Criteria -> Nat]) : IsTable(t)
        BY DEF IsTable
    <2>3. CollectorTypeOK
        BY DEF CollectorInv
    <2> QED BY <2>1, <2>2, <2>3 DEF ScoringInv, CallsShape, ScoringTypes, TypeOK
<1> HIDE DEF Inv
<1> QED BY <1>1, <1>2, <1>3, PTL DEF Spec

-----------------------------------------------------------------------------
(***************************************************************************)
(* No row that is read dominates the row preferred                         *)
(***************************************************************************)

\* Of two rows, one is farther from a third than the other from a fourth if it
\* is at least as far by every criterion, and farther by one.
LEMMA DistanceBelow ==
    ASSUME NEW r \in [Criteria -> Nat], NEW s \in [Criteria -> Nat],
           NEW p \in [Criteria -> Nat], NEW q \in [Criteria -> Nat], NEW c \in Criteria,
           \A k \in Criteria : (r[k] - s[k]) * (r[k] - s[k]) <= (p[k] - q[k]) * (p[k] - q[k]),
           (r[c] - s[c]) * (r[c] - s[c]) < (p[c] - q[c]) * (p[c] - q[c])
    PROVE  Distance(r, s) < Distance(p, q)
<1> DEFINE sq(u, v, k) == (u[k] - v[k]) * (u[k] - v[k])
<1>1. PICK f : /\ Distance(r, s) = f[Total_criteria]
               /\ f[0] = 0
               /\ \A k \in Criteria : f[k] = f[k - 1] + sq(r, s, k)
               /\ \A k \in 0..Total_criteria : f[k] \in Nat
    <2>1. PICK h : SumsUp(h, r, s)
        BY DistanceIsSum
    <2> QED BY <2>1 DEF SumsUp
<1>2. PICK g : /\ Distance(p, q) = g[Total_criteria]
               /\ g[0] = 0
               /\ \A k \in Criteria : g[k] = g[k - 1] + sq(p, q, k)
               /\ \A k \in 0..Total_criteria : g[k] \in Nat
    <2>1. PICK h : SumsUp(h, p, q)
        BY DistanceIsSum
    <2> QED BY <2>1 DEF SumsUp
<1>3. \A k \in Criteria : sq(r, s, k) \in Int /\ sq(p, q, k) \in Int
    <2> SUFFICES ASSUME NEW k \in Criteria PROVE sq(r, s, k) \in Int /\ sq(p, q, k) \in Int
        OBVIOUS
    <2>1. r[k] \in Nat /\ s[k] \in Nat /\ p[k] \in Nat /\ q[k] \in Nat
        OBVIOUS
    <2> QED BY <2>1
<1>4. \A k \in Criteria : sq(r, s, k) <= sq(p, q, k)
    OBVIOUS
<1>5. sq(r, s, c) < sq(p, q, c)
    OBVIOUS
<1> HIDE DEF sq
<1> DEFINE ahead(k) == f[k] <= g[k] /\ (c <= k => f[k] < g[k])
           bad == {k \in 0..Total_criteria : ~ahead(k)}
<1>6. Total_criteria \in Nat /\ Criteria = 1..Total_criteria /\ c \in Nat /\ c <= Total_criteria
    BY ScoringAssumption DEF Criteria
<1>7. bad = {}
    <2> SUFFICES ASSUME bad # {} PROVE FALSE
        OBVIOUS
    <2>1. bad \subseteq Nat
        BY <1>6
    <2>2. PICK k \in bad : \A m \in bad : k <= m
        <3> HIDE DEF bad
        <3> QED BY <2>1, LeastNumber
    <2>3. k \in 0..Total_criteria /\ ~ahead(k)
        BY <2>2
    <2>4. k # 0
        <3>1. ~(c <= 0)
            BY <1>6
        <3>2. ahead(0)
            BY <1>1, <1>2, <3>1
        <3> HIDE DEF bad, ahead
        <3> QED BY <2>3, <3>2
    <2>5. k - 1 \in 0..Total_criteria /\ k \in Criteria /\ k \in Nat
        BY <1>6, <2>3, <2>4
    <2>6. ahead(k - 1)
        <3>1. k - 1 \notin bad
            <4> HIDE DEF bad
            <4> QED BY <2>2, <2>5
        <3> HIDE DEF ahead
        <3> QED BY <2>5, <3>1
    <2> HIDE DEF bad
    <2>7. /\ f[k] = f[k - 1] + sq(r, s, k) /\ g[k] = g[k - 1] + sq(p, q, k)
          /\ f[k - 1] \in Nat /\ g[k - 1] \in Nat
          /\ sq(r, s, k) \in Int /\ sq(p, q, k) \in Int
          /\ sq(r, s, k) <= sq(p, q, k)
        BY <1>1, <1>2, <1>3, <1>4, <2>5
    <2>8. f[k] <= g[k]
        BY <2>6, <2>7
    <2>9. c <= k => f[k] < g[k]
        <3>1. CASE c = k
            BY <1>5, <2>6, <2>7, <3>1
        <3>2. CASE c # k /\ c <= k
            <4>1. c <= k - 1
                BY <1>6, <2>5, <3>2
            <4>2. f[k - 1] < g[k - 1]
                BY <2>6, <4>1
            <4> QED BY <2>7, <4>2
        <3> QED BY <3>1, <3>2
    <2> QED BY <2>3, <2>8, <2>9
<1>8. Total_criteria \in 0..Total_criteria
    BY <1>6
<1>9. ahead(Total_criteria)
    <2> HIDE DEF ahead
    <2> QED BY <1>7, <1>8
<1> QED BY <1>1, <1>2, <1>6, <1>9

\* Products grow with a factor.
LEMMA ProductsGrow ==
    ASSUME NEW u \in Nat, NEW v \in Nat, NEW w \in Nat, u < v, w > 0
    PROVE  u * w < v * w
<1>1. (v - u) * w > 0
    OBVIOUS
<1>2. (v - u) * w = v * w - u * w
    OBVIOUS
<1> DEFINE a == u * w
           b == v * w
<1>3. a \in Nat /\ b \in Nat /\ b - a > 0
    BY <1>1, <1>2
<1> HIDE DEF a, b
<1>4. a < b
    BY <1>3
<1> QED BY <1>4 DEF a, b

\* Squares grow with what is squared.
LEMMA SquaresGrow ==
    ASSUME NEW u \in Nat, NEW v \in Nat, u <= v
    PROVE  u * u <= v * v /\ (u < v => u * u < v * v)
<1>1. u * u <= u * v /\ u * v <= v * v
    OBVIOUS
<1>2. u < v => u * v < v * v
    OBVIOUS
<1> DEFINE uu == u * u
           uv == u * v
           vv == v * v
<1>3. uu \in Nat /\ uv \in Nat /\ vv \in Nat
    OBVIOUS
<1>4. uu <= uv /\ uv <= vv /\ (u < v => uv < vv)
    BY <1>1, <1>2
<1> HIDE DEF uu, uv, vv
<1>5. uu <= vv /\ (u < v => uu < vv)
    BY <1>3, <1>4
<1> QED BY <1>5 DEF uu, vv

\* TOPSIS does not prefer a row if another one is at least as large in every
\* column and larger in one: the other one is farther from the worst
\* alternative and closer to the best.
LEMMA SmallerRowLoses ==
    ASSUME NEW t \in [Ranked -> [Criteria -> Nat]],
           NEW lo \in [Criteria -> Nat], NEW hi \in [Criteria -> Nat],
           \A i \in Ranked, k \in Criteria : lo[k] <= t[i][k] /\ t[i][k] <= hi[k],
           NEW w, NEW b, \A i \in Ranked : w[i] = lo /\ b[i] = hi,
           NEW x \in Ranked, NEW y \in Ranked, NEW c \in Criteria,
           \A k \in Criteria : t[y][k] <= t[x][k], t[y][c] < t[x][c]
    PROVE  TopRow(t, w, b) # y
<1> DEFINE top1 == TopRow(t, w, b)
<1>1. \A i \in Ranked : /\ t[i] \in [Criteria -> Nat]
                        /\ w[i] \in [Criteria -> Nat] /\ b[i] \in [Criteria -> Nat]
                        /\ w[i] = lo /\ b[i] = hi
    OBVIOUS
<1>2. \A k \in Criteria : /\ t[x][k] \in Nat /\ t[y][k] \in Nat /\ lo[k] \in Nat /\ hi[k] \in Nat
                          /\ lo[k] <= t[y][k] /\ t[y][k] <= t[x][k] /\ t[x][k] <= hi[k]
    OBVIOUS
<1>3. Distance(t[y], lo) < Distance(t[x], lo)
    <2>1. ASSUME NEW k \in Criteria
          PROVE  /\ (t[y][k] - lo[k]) * (t[y][k] - lo[k]) <= (t[x][k] - lo[k]) * (t[x][k] - lo[k])
                 /\ t[y][k] < t[x][k] =>
                      (t[y][k] - lo[k]) * (t[y][k] - lo[k]) < (t[x][k] - lo[k]) * (t[x][k] - lo[k])
        <3> DEFINE u == t[y][k] - lo[k]
                   v == t[x][k] - lo[k]
        <3>1. u \in Nat /\ v \in Nat /\ u <= v /\ (t[y][k] < t[x][k] => u < v)
            BY <1>2
        <3> HIDE DEF u, v
        <3>2. u * u <= v * v /\ (u < v => u * u < v * v)
            BY <3>1, SquaresGrow
        <3> QED BY <3>1, <3>2 DEF u, v
    <2> QED BY <1>1, <2>1, DistanceBelow
<1>4. Distance(t[x], hi) < Distance(t[y], hi)
    <2>1. ASSUME NEW k \in Criteria
          PROVE  /\ (t[x][k] - hi[k]) * (t[x][k] - hi[k]) <= (t[y][k] - hi[k]) * (t[y][k] - hi[k])
                 /\ t[y][k] < t[x][k] =>
                      (t[x][k] - hi[k]) * (t[x][k] - hi[k]) < (t[y][k] - hi[k]) * (t[y][k] - hi[k])
        <3> DEFINE u == hi[k] - t[x][k]
                   v == hi[k] - t[y][k]
        <3>1. u \in Nat /\ v \in Nat /\ u <= v /\ (t[y][k] < t[x][k] => u < v)
            BY <1>2
        <3>2. t[x][k] - hi[k] = -u /\ t[y][k] - hi[k] = -v
            BY <1>2
        <3> HIDE DEF u, v
        <3>3. u * u <= v * v /\ (u < v => u * u < v * v)
            BY <3>1, SquaresGrow
        <3>4. (-u) * (-u) = u * u /\ (-v) * (-v) = v * v
            BY <3>1
        <3> QED BY <3>1, <3>2, <3>3, <3>4
    <2> QED BY <1>1, <2>1, DistanceBelow
<1>5. /\ Distance(t[x], lo) \in Nat /\ Distance(t[y], lo) \in Nat
      /\ Distance(t[x], hi) \in Nat /\ Distance(t[y], hi) \in Nat
    BY <1>1, DistanceType
<1>6. \A i \in Ranked : Distance(t[i], w[i]) > 0 =>
          Distance(t[top1], w[top1]) > 0 /\ ~Closer(t, w, b, i, top1)
    BY <1>1, TopRowType
<1> SUFFICES ASSUME top1 = y PROVE FALSE
    OBVIOUS
<1> DEFINE px == Distance(t[x], lo)
           py == Distance(t[y], lo)
           qx == Distance(t[x], hi)
           qy == Distance(t[y], hi)
<1>7. px \in Nat /\ py \in Nat /\ qx \in Nat /\ qy \in Nat /\ py < px /\ qx < qy
    BY <1>3, <1>4, <1>5
<1>8. /\ Distance(t[x], w[x]) = px /\ Distance(t[y], w[y]) = py
      /\ Distance(t[x], b[x]) = qx /\ Distance(t[y], b[y]) = qy
    BY <1>1
<1> HIDE DEF top1, px, py, qx, qy
<1>9. px > 0
    BY <1>7
<1>10. ~(px * qy > py * qx)
    BY <1>6, <1>8, <1>9 DEF Closer
<1>11. px * qy > py * qy /\ py * qy >= py * qx
    <2>1. qy > 0
        BY <1>7
    <2>2. py * qy < px * qy
        BY <1>7, <2>1, ProductsGrow
    <2>3. py * qy >= py * qx
        BY <1>7
    <2> DEFINE u == py * qy
               v == px * qy
    <2>4. u \in Nat /\ v \in Nat /\ u < v
        BY <1>7, <2>2
    <2> HIDE DEF u, v
    <2>5. v > u
        BY <2>4
    <2> QED BY <2>3, <2>5 DEF u, v
<1> DEFINE a1 == px * qy
           a2 == py * qy
           a3 == py * qx
<1>12. a1 \in Nat /\ a2 \in Nat /\ a3 \in Nat
    BY <1>7
<1>13. ~(a1 > a3) /\ a1 > a2 /\ a2 >= a3
    BY <1>10, <1>11
<1> HIDE DEF a1, a2, a3
<1> QED BY <1>12, <1>13

\* A quotient grows with what is divided and shrinks with the divisor.
LEMMA QuotientsGrow ==
    ASSUME NEW u \in Nat, NEW v \in Nat, NEW g \in Nat, NEW h \in Nat,
           u <= v, 0 < h, h <= g
    PROVE  u \div g <= v \div h
<1> DEFINE a == u \div g
           b == v \div h
<1>1. a \in Nat /\ b \in Nat /\ g * a <= u /\ v < h * b + h
    OBVIOUS
<1> HIDE DEF a, b
<1>2. a <= b
    <2> SUFFICES ASSUME a > b PROVE FALSE
        BY <1>1
    <2>1. b + 1 <= a
        BY <1>1
    <2>2. h * (b + 1) <= h * a
        BY <1>1, <2>1
    <2>3. h * a <= g * a
        BY <1>1
    <2>4. h * (b + 1) = h * b + h
        BY <1>1
    <2> DEFINE hb == h * b
               ha == h * a
               ga == g * a
    <2>5. hb \in Nat /\ ha \in Nat /\ ga \in Nat
        BY <1>1
    <2>6. hb + h <= ha /\ ha <= ga /\ ga <= u /\ v < hb + h
        BY <1>1, <2>2, <2>3, <2>4
    <2> HIDE DEF hb, ha, ga
    <2> QED BY <2>5, <2>6
<1> QED BY <1>2 DEF a, b

\* What is better is not smaller once it is normalised.
LEMMA BetterIsLarger ==
    ASSUME NEW k \in Criteria, NEW x \in Nat, NEW y \in Nat, NEW g \in Nat, g > 0,
           x = y \/ Beyond(k, x, y), k \notin Benefit => x > 0
    PROVE  Normal(k, y, g) <= Normal(k, x, g)
<1>1. CASE x = y
    <2>1. Normal(k, x, g) \in Nat
        BY NormalType
    <2> QED BY <1>1, <2>1
<1>2. CASE x # y /\ k \in Benefit
    <2> DEFINE u == Scale * y
               v == Scale * x
    <2>1. y <= x
        BY <1>2 DEF Beyond
    <2>2. Scale \in Nat
        BY ScoringAssumption
    <2>3. u \in Nat /\ v \in Nat /\ u <= v
        BY <2>1, <2>2
    <2>4. Normal(k, x, g) = v \div g /\ Normal(k, y, g) = u \div g
        BY <1>2 DEF Normal
    <2> HIDE DEF u, v
    <2> QED BY <2>3, <2>4, QuotientsGrow
<1>3. CASE x # y /\ k \notin Benefit
    <2> DEFINE u == Scale * g
    <2>1. 0 < x /\ x <= y
        BY <1>3 DEF Beyond
    <2>2. Scale \in Nat
        BY ScoringAssumption
    <2>3. u \in Nat /\ u <= u
        BY <2>2
    <2>4. x # 0 /\ y # 0 /\ g # 0
        BY <2>1
    <2>5. Normal(k, x, g) = u \div x /\ Normal(k, y, g) = u \div y
        BY <1>3, <2>4 DEF Normal
    <2> HIDE DEF u
    <2> QED BY <2>1, <2>3, <2>5, QuotientsGrow
<1> QED BY <1>1, <1>2, <1>3

\* A table of Total_Node rows is normalised with anchors that are above 0, and
\* its normalised and weighed cells are natural numbers.
LEMMA TableNormalised ==
    ASSUME WeightsAreNatural, NEW t \in [Ranked -> [Criteria -> Nat]]
    PROVE  /\ \A k \in Criteria : AnchorOf(t, k) \in Nat /\ AnchorOf(t, k) > 0
           /\ \A i \in Ranked, k \in Criteria :
                  /\ Normalised(t)[i][k] = Normal(k, t[i][k], AnchorOf(t, k))
                  /\ Normalised(t)[i][k] \in Nat
                  /\ Weighed(Normalised(t))[i][k]
                       = Entropy_w(Normalised(t))[k] * Normalised(t)[i][k]
           /\ Entropy_w(Normalised(t)) \in [Criteria -> Nat]
           /\ Weighed(Normalised(t)) \in [Ranked -> [Criteria -> Nat]]
           /\ Weighed(Normalised(t)) \in Seq([Criteria -> Nat])
<1> DEFINE v == Normalised(t)
           NatRow == [Criteria -> Nat]
<1>1. Total_Node \in Nat \ {0} /\ Ranked = 1..Total_Node
    BY ScoringAssumption DEF Ranked
<1>2. t \in Seq(NatRow) /\ t # <<>> /\ DOMAIN t = Ranked
    <2>1. t \in Seq(NatRow) /\ Len(t) = Total_Node
        <3> HIDE DEF NatRow
        <3>1. t \in [1..Total_Node -> NatRow]
            BY <1>1 DEF NatRow
        <3> QED BY <1>1, <3>1
    <2> QED BY <1>1, <2>1, EmptySeq
<1>3. \A k \in Criteria : AnchorOf(t, k) \in Nat /\ AnchorOf(t, k) > 0
    <2> SUFFICES ASSUME NEW k \in Criteria PROVE AnchorOf(t, k) \in Nat /\ AnchorOf(t, k) > 0
        OBVIOUS
    <2>1. Least(Column(t, k)) \in Nat /\ Greatest(Column(t, k)) \in Nat
        BY <1>2, ColumnBounds
    <2> DEFINE col == {t[i][k] : i \in Ranked}
               e == IF k \in Benefit THEN Greatest(col) ELSE Least(col)
    <2>2. col = Column(t, k)
        BY <1>2 DEF Column
    <2>3. AnchorOf(t, k) = IF e = 0 THEN 1 ELSE e
        BY DEF AnchorOf
    <2> HIDE DEF col
    <2>4. e \in Nat
        BY <2>1, <2>2
    <2> HIDE DEF e
    <2> QED BY <2>3, <2>4
<1>4. \A i \in Ranked : v[i] = [k \in Criteria |-> Normal(k, t[i][k], AnchorOf(t, k))]
    BY <1>2 DEF Normalised
<1>5. \A i \in Ranked, k \in Criteria : Normal(k, t[i][k], AnchorOf(t, k)) \in Nat
    BY <1>3, NormalType
<1>6. v \in [Ranked -> NatRow]
    <2>1. \A i \in Ranked : v[i] \in NatRow
        BY <1>4, <1>5
    <2>2. v = [i \in Ranked |-> v[i]]
        BY <1>2 DEF Normalised
    <2> HIDE DEF v, NatRow
    <2> QED BY <2>1, <2>2
<1>7. \A i \in Ranked, k \in Criteria : /\ v[i][k] = Normal(k, t[i][k], AnchorOf(t, k))
                                        /\ v[i][k] \in Nat
    BY <1>4, <1>5
<1> HIDE DEF v
<1>8. v \in Seq(NatRow) /\ DOMAIN v = Ranked
    <2> HIDE DEF NatRow
    <2> QED BY <1>1, <1>6
<1>9. Entropy_w(v) \in [Criteria -> Nat]
    BY <1>8 DEF WeightsAreNatural
<1>10. \A i \in Ranked, k \in Criteria : Weighed(v)[i][k] = Entropy_w(v)[k] * v[i][k]
    BY <1>8 DEF Weighed
<1>11. Weighed(v) \in Seq(NatRow) /\ DOMAIN Weighed(v) = Ranked
    BY <1>8, WeighedType
<1>12. Weighed(v) \in [Ranked -> NatRow]
    <2> HIDE DEF NatRow
    <2> QED BY <1>11
<1> QED BY <1>3, <1>7, <1>9, <1>10, <1>11, <1>12 DEF v

\* The row that TOPSIS prefers is one of the rows.
LEMMA TopsisType ==
    ASSUME WeightsAreNatural, NEW t \in [Ranked -> [Criteria -> Nat]]
    PROVE  Topsis(t) \in Ranked
<1> DEFINE m == Weighed(Normalised(t))
           w == [i \in Ranked |-> [k \in Criteria |-> Least(Column(m, k))]]
           b == [i \in Ranked |-> [k \in Criteria |-> Greatest(Column(m, k))]]
<1>1. m \in [Ranked -> [Criteria -> Nat]] /\ m \in Seq([Criteria -> Nat])
    BY TableNormalised
<1>2. Topsis(t) = TopRow(m, w, b)
    BY DEF Topsis
<1> HIDE DEF m
<1>3. m # <<>>
    BY <1>1, FirstCell, EmptySeq
<1>4. \A i \in Ranked : /\ m[i] \in [Criteria -> Nat]
                        /\ w[i] \in [Criteria -> Nat] /\ b[i] \in [Criteria -> Nat]
    BY <1>1, <1>3, ColumnBounds
<1> HIDE DEF w, b
<1>5. TopRow(m, w, b) \in Ranked
    BY <1>4, TopRowType
<1> QED BY <1>2, <1>5

\* TOPSIS over a table without a cost of 0 prefers no row that another one
\* dominates, where neither rounding nor weights hide a difference.
LEMMA DominatedRowLoses ==
    ASSUME WeightsAreNatural, NEW t \in [Ranked -> [Criteria -> Nat]],
           PositiveCosts(t), Separates(t),
           NEW x \in Ranked, NEW y \in Ranked, Dominates(t[x], t[y])
    PROVE  Topsis(t) # y
<1> DEFINE v == Normalised(t)
           m == Weighed(v)
           lo == [k \in Criteria |-> Least(Column(m, k))]
           hi == [k \in Criteria |-> Greatest(Column(m, k))]
           wt == Entropy_w(v)
<1>1. /\ \A k \in Criteria : AnchorOf(t, k) \in Nat /\ AnchorOf(t, k) > 0
      /\ \A i \in Ranked, k \in Criteria :
             /\ v[i][k] = Normal(k, t[i][k], AnchorOf(t, k))
             /\ v[i][k] \in Nat
             /\ m[i][k] = wt[k] * v[i][k]
      /\ wt \in [Criteria -> Nat]
      /\ m \in [Ranked -> [Criteria -> Nat]]
      /\ m \in Seq([Criteria -> Nat])
    BY TableNormalised
<1> DEFINE w == [i \in Ranked |-> lo]
           b == [i \in Ranked |-> hi]
<1>2. Topsis(t) = TopRow(m, w, b)
    BY DEF Topsis
<1>3. \A i, j \in Ranked, k \in Criteria : t[i][k] # t[j][k] => m[i][k] # m[j][k]
    BY DEF Separates
<1> HIDE DEF m, v, wt
<1>4. \A k \in Criteria : m[y][k] <= m[x][k]
    <2> SUFFICES ASSUME NEW k \in Criteria PROVE m[y][k] <= m[x][k]
        OBVIOUS
    <2>1. t[x][k] \in Nat /\ t[y][k] \in Nat
        OBVIOUS
    <2>2. t[x][k] = t[y][k] \/ Beyond(k, t[x][k], t[y][k])
        BY DEF Dominates
    <2>3. k \notin Benefit => t[x][k] > 0
        BY DEF PositiveCosts
    <2>4. v[y][k] <= v[x][k]
        BY <1>1, <2>1, <2>2, <2>3, BetterIsLarger
    <2>5. wt[k] \in Nat /\ v[x][k] \in Nat /\ v[y][k] \in Nat
        BY <1>1
    <2>6. wt[k] * v[y][k] <= wt[k] * v[x][k]
        BY <2>4, <2>5
    <2> QED BY <1>1, <2>6
<1>5. PICK c \in Criteria : t[x][c] # t[y][c]
    <2>1. t[x] \in [Criteria -> Nat] /\ t[y] \in [Criteria -> Nat] /\ t[x] # t[y]
        BY DEF Dominates
    <2> QED BY <2>1
<1>6. m[y][c] < m[x][c]
    <2>1. m[x][c] # m[y][c] /\ m[y][c] <= m[x][c]
        BY <1>3, <1>4, <1>5
    <2>2. m[x][c] \in Nat /\ m[y][c] \in Nat
        BY <1>1
    <2> QED BY <2>1, <2>2
<1>7. m # <<>> /\ DOMAIN m = Ranked
    BY <1>1, FirstCell, EmptySeq
<1>8. /\ lo \in [Criteria -> Nat] /\ hi \in [Criteria -> Nat]
      /\ \A i \in Ranked, k \in Criteria : lo[k] <= m[i][k] /\ m[i][k] <= hi[k]
    BY <1>1, <1>7, ColumnBounds
<1> HIDE DEF lo, hi
<1>9. \A i \in Ranked : w[i] = lo /\ b[i] = hi
    OBVIOUS
<1> HIDE DEF w, b
<1>10. m \in [Ranked -> [Criteria -> Nat]]
    BY <1>1
<1>11. TopRow(m, w, b) # y
    BY <1>4, <1>6, <1>8, <1>9, <1>10, SmallerRowLoses
<1> QED BY <1>2, <1>11

\* Every row that a call has read is an aggregate of a collector.
ReadRows == \A n \in Nodes : \A i \in DOMAIN read[n] : read[n][i] \in Metrics

\* The rows a call reads when it begins.
LEMMA ReadRowsStep ==
    ASSUME CollectorInv, CallsShape, ReadRows, NEW n \in Nodes, Score(n)
    PROVE  ReadRows'
<1>1. CASE Read(n)
    <2>1. PICK f \in Scan : read' = [read EXCEPT ![n] = [i \in DOMAIN f |-> f[i].agg]]
        BY <1>1 DEF Read
    <2> DEFINE g == [i \in DOMAIN f |-> f[i].agg]
    <2>2. \A i \in DOMAIN g : g[i] \in Metrics
        <3>1. \A r \in metricdata : r.agg \in Metrics
            BY DEF CollectorInv, CollectorTypeOK, Rows
        <3>2. \A i \in DOMAIN f : f[i] \in metricdata
            BY DEF Scan
        <3> QED BY <3>1, <3>2
    <2>3. read' = [read EXCEPT ![n] = g] /\ FunctionOn(read, Nodes)
        BY <2>1 DEF CallsShape
    <2> HIDE DEF g
    <2>4. read'[n] = g /\ \A o \in Nodes \ {n} : read'[o] = read[o]
        BY <2>3, ExceptOn
    <2> QED BY <2>2, <2>4 DEF ReadRows
<1>2. CASE ReadFails(n)
    <2> DEFINE g == <<>>
    <2>1. read' = [read EXCEPT ![n] = g] /\ FunctionOn(read, Nodes)
        BY <1>2 DEF ReadFails, CallsShape
    <2>2. DOMAIN g = {}
        BY EmptySeq
    <2> HIDE DEF g
    <2>3. read'[n] = g /\ \A o \in Nodes \ {n} : read'[o] = read[o]
        BY <2>1, ExceptOn
    <2> QED BY <2>2, <2>3 DEF ReadRows
<1>3. CASE Panic(n)
    <2>1. \A o \in Nodes : read'[o] = <<>>
        BY <1>3 DEF Panic
    <2>2. DOMAIN <<>> = {}
        BY EmptySeq
    <2> QED BY <2>1, <2>2 DEF ReadRows
<1>4. CASE ~Read(n) /\ ~ReadFails(n) /\ ~Panic(n)
    <2>1. read' = read
        BY <1>4 DEF Score, Anchor, Lower, Store, Zero, Fill, Normalise, Worst, Best, Diw, Dib,
                    Rank, local
    <2> QED BY <2>1 DEF ReadRows
<1> QED BY <1>1, <1>2, <1>3, <1>4

\* PreferredIsBest for any number of nodes, rows and criteria: a call that was
\* alone prefers no node that another one dominates, if what the collectors
\* store survives rounding and weighing.  That is a condition on the metrics
\* and the weights alone: that the larger of two unlike metrics of a column
\* without a 0 stays unlike the smaller, and that a column that is not constant
\* has a weight.
THEOREM DominatedIsNotPreferred ==
    ASSUME WeightsAreNatural, \A t \in [Ranked -> Metrics] : PositiveCosts(t) => Separates(t)
    PROVE  Spec => []PreferredIsBest
<1> DEFINE Inv == CollectorInv /\ ScoringInv /\ ReadRows
<1>1. Init => Inv
    <2> SUFFICES ASSUME Init PROVE Inv
        OBVIOUS
    <2>1. CollectorInv /\ ScoringInv
        BY CollectorInvInit, ScoringInvInit
    <2>2. \A n \in Nodes : read[n] = <<>>
        BY DEF Init, Fresh
    <2>3. DOMAIN <<>> = {}
        BY EmptySeq
    <2> QED BY <2>1, <2>2, <2>3 DEF ReadRows
<1>2. Inv /\ [Next]_vars => Inv'
    <2> SUFFICES ASSUME Inv, [Next]_vars PROVE Inv'
        OBVIOUS
    <2>1. CollectorInv' /\ ScoringInv'
        BY CollectorInvNext, ScoringInvNext
    <2>2. ASSUME NEW c \in Collectors, CollectStep(c) PROVE ReadRows'
        BY <2>2 DEF CollectStep, ReadRows, local
    <2>3. ASSUME NEW n \in Nodes, Score(n) PROVE ReadRows'
        BY <2>3, ReadRowsStep DEF ScoringInv
    <2>4. ASSUME UNCHANGED vars PROVE ReadRows'
        BY <2>4 DEF vars, local, ReadRows
    <2>5. ReadRows'
        BY <2>2, <2>3, <2>4 DEF Next
    <2> QED BY <2>1, <2>5
<1>3. Inv => PreferredIsBest
    <2> SUFFICES ASSUME Inv, NEW n \in Nodes, Alone(n), PositiveCosts(read[n]), Dominated(n)
                 PROVE  FALSE
        BY DEF PreferredIsBest
    <2> DEFINE t == read[n]
               y == top[n]
    <2>1. t \in [Ranked -> [Criteria -> Nat]] /\ t \in [Ranked -> Metrics]
        <3>1. t \in Seq([Criteria -> Nat]) /\ DOMAIN t = Ranked
            BY DEF Alone, ScoringInv, RawTable
        <3>2. \A i \in Ranked : t[i] \in Metrics
            BY <3>1 DEF ReadRows
        <3>3. t = [i \in Ranked |-> t[i]]
            <4> HIDE DEF t
            <4> QED BY <3>1
        <3>4. Metrics \subseteq [Criteria -> Nat]
            BY ScoringAssumption
        <3> HIDE DEF t
        <3>5. t \in [Ranked -> Metrics]
            BY <3>2, <3>3
        <3> QED BY <3>4, <3>5
    <2>2. y = Topsis(t)
        BY DEF Alone, ScoringInv, AloneIsRight
    <2>3. PositiveCosts(t) /\ Separates(t)
        BY <2>1
    <2>4. PICK x \in Ranked : Dominates(t[x], t[y])
        BY DEF Dominated
    <2>5. y \in Ranked
        BY <2>1, <2>2, TopsisType
    <2> HIDE DEF t, y
    <2> QED BY <2>1, <2>2, <2>3, <2>4, <2>5, DominatedRowLoses
<1> HIDE DEF Inv
<1> QED BY <1>1, <1>2, <1>3, PTL DEF Spec
=============================================================================
