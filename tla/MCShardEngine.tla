---------------------------- MODULE MCShardEngine ----------------------------
(***************************************************************************)
(* ShardEngine with fan-outs of up to four shards.                         *)
(***************************************************************************)
EXTENDS ShardEngine

Policies == {"fail", "retry", "continue"}

\* A fixed count on any target.
Counted(counts, parallel, budgets) ==
  [count : counts, discover : {FALSE}, maxParallel : parallel,
   onShardFailure : Policies, local : {FALSE}, budget : budgets,
   approvals : {FALSE}, yes : {TRUE}]

\* A discover command, with and without a cap.
Found(counts, budgets, places, yeses) ==
  [count : counts, discover : {TRUE}, maxParallel : {2},
   onShardFailure : Policies, local : places, budget : budgets,
   approvals : BOOLEAN, yes : yeses]

MCSpecs ==
  Counted({4}, {0, 1, 2}, {0}) \cup Counted({2, 3}, {5}, {0, 2})
    \cup Found({0, 3}, {0, 3}, BOOLEAN, BOOLEAN)

=============================================================================
