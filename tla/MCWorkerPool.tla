---------------------------- MODULE MCWorkerPool ----------------------------
(***************************************************************************)
(* A small pod for TLC: two requests and a batch request with two queries. *)
(***************************************************************************)
EXTENDS WorkerPool

CONSTANTS single1, single2, both, query, batchQuery

MCSubjectOf == [m \in Messages |-> IF m = both THEN batchQuery ELSE query]
MCQueries   == [m \in Messages |-> IF m = both THEN 2 ELSE 1]

=============================================================================
