---------------------------- MODULE MCNodeScoring ----------------------------
(***************************************************************************)
(* Two nodes and their collectors, two calls of Score; a cost and a        *)
(* benefit.  The tables hold ties, a dominated node and a metric of 0.     *)
(***************************************************************************)
EXTENDS NodeScoring

CONSTANTS a, b

MCNodeId == [c \in Collectors |-> c]

\* Both collectors write node_id "1", the constant of main.py.
MCNodeIdOfMain == [c \in Collectors |-> a]

MCTokenOrder == [c \in NodeIds |-> IF c = a THEN 1 ELSE 2]

\* Criterion 1 is CPUUsage, criterion 2 DiskFree.
MCMetrics == {<<2, 2>>, <<4, 4>>, <<4, 0>>, <<0, 2>>}

\* A criterion that is the same for all nodes has no weight, as with entropy.
MCEntropy_w(t) ==
    [k \in Criteria |-> IF \A i \in DOMAIN t : t[i][k] = t[1][k] THEN 0 ELSE 1]

\* The weights and the scale tell unlike metrics apart, unless a cost is 0.
ASSUME MetricsSeparated == \A t \in [Ranked -> Metrics] : PositiveCosts(t) => Separates(t)

\* Two budgets in one run: three rows and a failing statement for collectors
\* that nobody reads, and two rows and two calls without a failure.
MCInit ==
    /\ Fresh
    /\ \/ clock = 0 /\ faults = 0 /\ calls = MaxCalls
       \/ clock = 1 /\ faults = MaxFaults /\ calls = 0

MCSpec == MCInit /\ [][Next]_vars

=============================================================================
