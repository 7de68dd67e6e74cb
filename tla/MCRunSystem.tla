---------------------------- MODULE MCRunSystem ----------------------------
(***************************************************************************)
(* Instances of RunSystem for TLC.                                         *)
(***************************************************************************)
EXTENDS RunSystem, FiniteSetsExt

\* A job on a durable target; no budget, so that the commands and not the
\* sampler's trips interleave with it.
Job == [approvals |-> FALSE, durable |-> TRUE, service |-> FALSE,
        retry |-> FALSE, priced |-> FALSE, budget |-> FALSE,
        timeout |-> FALSE, outputs |-> TRUE]

\* Also a detached service, and a job on a target that is not durable.
AllPlans ==
  {Job, [Job EXCEPT !.service = TRUE], [Job EXCEPT !.durable = FALSE]}

\* Without a handle to reconnect to, status ends at once: it need not overlap.
\* A detached service leaves the commands to each other.
AllInvocations(p) ==
  CASE p = Job -> {{"gc", "status"}, {"stop"}}
    [] p.service -> kSubset(2, {"stop", "force-stop", "status"})
                      \cup {{"gc", c} : c \in {"stop", "status", "renew"}}
    [] ~p.durable -> {{"stop", "force-stop"}, {"status"}}

\* Beside a job's executor, gc is issued once the other command has ended.
GcComesLast ==
  ~plan.service /\ "gc" \in Commands /\ cmd["gc"].pc # "ready" =>
    \A c \in Commands \ {"gc"} : cmd[c].pc \in {"saved", "noop", "failed"}

=============================================================================
