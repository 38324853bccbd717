--------------------------- MODULE MetricCollector ---------------------------
(***************************************************************************)
(* The collectors of node metrics (export_metrix/main.py), one process per *)
(* node, and the ScyllaDB table MetricData they fill.                      *)
(*                                                                         *)
(* A collector aggregates a window of samples, deletes the rows of its     *)
(* node one by one and inserts the new one.  Every statement may fail,     *)
(* executed or not: a transient error starts the whole exchange again, any *)
(* other error and the last attempt leave the aggregate in Redis, where no *)
(* program reads it.                                                       *)
(***************************************************************************)
EXTENDS Integers, FiniteSets

CONSTANTS
    Collectors,   \* the running copies of main.py
    NodeIds,      \* the values of MetricData.node_id
    NodeId,       \* the node_id each collector writes
    Metrics,      \* the aggregates of a window
    Attempts,     \* the attempts to store an aggregate; 5 in the code
    MaxInserts,   \* bound on rows ever inserted
    MaxFaults     \* bound on statements that fail and collectors that stop

ASSUME CollectorAssumption ==
    /\ NodeId \in [Collectors -> NodeIds]
    /\ Metrics # {}
    /\ Attempts \in Nat \ {0}
    /\ MaxInserts \in Nat
    /\ MaxFaults \in Nat

VARIABLES
    metricdata,   \* the rows of the table
    clock,        \* the last timeuuid given to a row
    step,         \* what a collector does next
    agg,          \* the aggregate it is storing, or stored last; arbitrary before
    old,          \* the rows it has still to delete
    attempt,      \* the attempts made before this one
    stored,       \* its last aggregate is in the table, and not in Redis
    faults

collectorVars == <<metricdata, clock, step, agg, old, attempt, stored, faults>>

\* A row: the clustering key id orders the rows of a node, newest first.
Rows == [node_id : NodeIds, id : 1..MaxInserts, agg : Metrics]

RowsOf(node) == {r \in metricdata : r.node_id = node}

CollectorInit ==
    /\ metricdata = {}
    /\ step = [c \in Collectors |-> "sample"]
    /\ agg = [c \in Collectors |-> CHOOSE m \in Metrics : TRUE]
    /\ old = [c \in Collectors |-> {}]
    /\ attempt = [c \in Collectors |-> 0]
    /\ stored = [c \in Collectors |-> FALSE]

\* The window is full: max, min and mean of its samples.
Aggregate(c) ==
    /\ step[c] = "sample"
    /\ clock < MaxInserts
    /\ \E m \in Metrics : agg' = [agg EXCEPT ![c] = m]
    /\ step' = [step EXCEPT ![c] = "select"]
    /\ attempt' = [attempt EXCEPT ![c] = 0]
    /\ stored' = [stored EXCEPT ![c] = FALSE]
    /\ UNCHANGED <<metricdata, clock, old, faults>>

\* delete_old_data, SELECT id.
SelectOld(c) ==
    /\ step[c] = "select"
    /\ old' = [old EXCEPT ![c] = RowsOf(NodeId[c])]
    /\ step' = [step EXCEPT ![c] = "delete"]
    /\ UNCHANGED <<metricdata, clock, agg, attempt, stored, faults>>

\* delete_old_data, one DELETE.
DeleteOld(c) ==
    /\ step[c] = "delete"
    /\ \E r \in old[c] :
           /\ metricdata' = metricdata \ {r}
           /\ old' = [old EXCEPT ![c] = old[c] \ {r}]
    /\ UNCHANGED <<clock, step, agg, attempt, stored, faults>>

NewRow(c) == [node_id |-> NodeId[c], id |-> clock + 1, agg |-> agg[c]]

Insert(c) ==
    /\ clock < MaxInserts
    /\ clock' = clock + 1
    /\ metricdata' = metricdata \union {NewRow(c)}

\* insert_data, once every old row is deleted.
InsertData(c) ==
    /\ step[c] = "delete"
    /\ old[c] = {}
    /\ Insert(c)
    /\ step' = [step EXCEPT ![c] = "sample"]
    /\ stored' = [stored EXCEPT ![c] = TRUE]
    /\ UNCHANGED <<agg, old, attempt, faults>>

\* What the statement that fails may have changed all the same.
Effect(c) ==
    \/ UNCHANGED <<metricdata, clock>>
    \/ /\ step[c] = "delete"
       /\ \E r \in old[c] : metricdata' = metricdata \ {r}
       /\ UNCHANGED clock
    \/ /\ step[c] = "delete"
       /\ old[c] = {}
       /\ Insert(c)

\* Mutated form of Transient: the next attempt begins where this one failed.
TransientResumed(c) ==
    /\ step[c] # "sample"
    /\ faults < MaxFaults
    /\ faults' = faults + 1
    /\ Effect(c)
    /\ attempt' = [attempt EXCEPT ![c] = attempt[c] + 1]
    /\ step' = [step EXCEPT ![c] = IF attempt[c] + 1 < Attempts THEN step[c] ELSE "sample"]
    /\ UNCHANGED <<agg, old, stored>>

\* TransientError: the exchange begins again, up to the last attempt.
Transient(c) ==
    /\ step[c] # "sample"
    /\ faults < MaxFaults
    /\ faults' = faults + 1
    /\ Effect(c)
    /\ old' = [old EXCEPT ![c] = {}]
    /\ attempt' = [attempt EXCEPT ![c] = attempt[c] + 1]
    /\ step' = [step EXCEPT ![c] = IF attempt[c] + 1 < Attempts THEN "select" ELSE "sample"]
    /\ UNCHANGED <<agg, stored>>

\* Any other error ends the attempts; so does a collector that is stopped,
\* which comes back with an empty window.
GiveUp(c) ==
    /\ step[c] # "sample"
    /\ faults < MaxFaults
    /\ faults' = faults + 1
    /\ Effect(c)
    /\ old' = [old EXCEPT ![c] = {}]
    /\ step' = [step EXCEPT ![c] = "sample"]
    /\ UNCHANGED <<agg, attempt, stored>>

Collect(c) ==
    \/ Aggregate(c) \/ SelectOld(c) \/ DeleteOld(c) \/ InsertData(c)
    \/ Transient(c) \/ GiveUp(c)

CollectorTypeOK ==
    /\ metricdata \in SUBSET Rows
    /\ clock \in 0..MaxInserts
    /\ step \in [Collectors -> {"sample", "select", "delete"}]
    /\ agg \in [Collectors -> Metrics]
    /\ old \in [Collectors -> SUBSET Rows]
    /\ attempt \in [Collectors -> 0..Attempts]
    /\ stored \in [Collectors -> BOOLEAN]
    /\ faults \in 0..MaxFaults

\* A collector with a node_id of its own.
Sole(c) == \A d \in Collectors \ {c} : NodeId[d] # NodeId[c]

\* The table never holds two rows of a node, through failed statements and
\* repeated attempts, and once its aggregate is stored the row is that one:
\* as long as no two collectors write the same node_id.
OneRowPerNode ==
    \A c \in Collectors :
        Sole(c) => /\ \A r, s \in RowsOf(NodeId[c]) : r = s
                   /\ stored[c] => \E r \in RowsOf(NodeId[c]) : r.agg = agg[c]

=============================================================================
