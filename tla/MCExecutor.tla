----------------------------- MODULE MCExecutor -----------------------------
(***************************************************************************)
(* Instances of Executor for TLC.                                          *)
(***************************************************************************)
EXTENDS ExecutorInvariants

\* A job on a durable target with everything the executor can be asked for.
Job == [approvals |-> FALSE, durable |-> TRUE, service |-> FALSE,
        retry |-> TRUE, priced |-> TRUE, budget |-> TRUE, timeout |-> TRUE,
        outputs |-> TRUE]

\* The plans that take the branches Job does not.
AllPlans ==
  {Job,
   [Job EXCEPT !.approvals = TRUE, !.retry = FALSE, !.timeout = FALSE],
   [Job EXCEPT !.service = TRUE],
   [Job EXCEPT !.durable = FALSE, !.priced = FALSE, !.budget = FALSE],
   [Job EXCEPT !.budget = FALSE, !.outputs = FALSE]}

\* Jobs that end when their workload does: one that is retried and is within
\* its budget, one that owes outputs and may go over it.
PatientJobs ==
  {[Job EXCEPT !.timeout = FALSE, !.outputs = FALSE, !.budget = FALSE],
   [Job EXCEPT !.timeout = FALSE, !.retry = FALSE]}

=============================================================================
