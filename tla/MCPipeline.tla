----------------------------- MODULE MCPipeline -----------------------------
(***************************************************************************)
(* Instances of Pipeline: two workers, one file that the main thread       *)
(* streams while the workers fill the budget, and small ones.  The code's  *)
(* 32 MB of MAX_ENTRY are 8 units, its 128 MB of BUDGET and its 8 items of *)
(* MIN_ITEMS are scaled down to 16 units and 5 items: what matters is that *)
(* two or three entries fill the budget.                                   *)
(***************************************************************************)
EXTENDS Pipeline

CONSTANTS w1, w2

MCWorkers == {w1, w2}

\* The small files do not fit into the budget together; one has no bytes.
MCSizes == <<9, 8, 7, 8, 0, 6>>

=============================================================================
