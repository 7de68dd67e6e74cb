----------------------------- MODULE ShardEngine -----------------------------
(***************************************************************************)
(* A sharded run: the checks of `dispatcher run` on a fan-out, the         *)
(* assignment of work items to shards (shard.Plan) and the engine that     *)
(* runs the shards (shard.Engine.Run): a feeder and workers around an      *)
(* unbuffered channel, a shared context and a policy for failures.         *)
(*                                                                         *)
(* A work item is its position in the output of the discover command.      *)
(* Costs are in units of the plan's estimate for one run.  A shard is      *)
(* started when its worker has found the context alive.                    *)
(***************************************************************************)
EXTENDS Naturals, FiniteSets

CONSTANTS
  Specs,              \* the fan-outs that are asked for
  MaxShardCount,      \* workload.maxShardCount
  MaxItems,           \* bound on what the discover command prints
  DefaultMaxParallel, \* defaultMaxParallel
  AutoApprove         \* policy.DefaultCostAutoApproveUSD

(***************************************************************************)
(* A ShardSpec that is enabled and passed the validation of its            *)
(* configuration file, with what else of the plan the fan-out depends on:  *)
(* does it run on the local target, the budget of --max-cost (0 for none), *)
(* whether its policy requires approvals, and --yes.                       *)
(***************************************************************************)
ShardSpec ==
  [count : Nat, discover : BOOLEAN, maxParallel : Nat,
   onShardFailure : {"fail", "retry", "continue"},
   local : BOOLEAN, budget : Nat, approvals : BOOLEAN, yes : BOOLEAN]

ASSUME SpecsAssumption ==
  /\ Specs \subseteq ShardSpec
  /\ \A s \in Specs : s.count \in 0..MaxShardCount /\ (s.count > 0 \/ s.discover)
  /\ MaxShardCount \in Nat
  /\ MaxItems \in Nat
  /\ DefaultMaxParallel \in Nat \ {0}
  /\ AutoApprove \in Nat

VARIABLES
  spec,        \* the fan-out
  discovered,  \* how many items the discover command printed
  main,        \* where the calling goroutine is
  assigned,    \* the work items of each shard
  fed,         \* how many shards went through the channel
  worker,      \* each worker: where it is, its shard and how its run ended
  results,     \* the Result of each shard
  starts,      \* how often each shard was started
  last,        \* how the last run of each shard ended
  canceled,    \* the engine's context is done
  interrupted  \* it was the caller's context: a signal or --max-time

plan == <<spec, discovered, assigned>>
shards == <<results, starts, last>>
vars == <<plan, main, fed, worker, shards, canceled, interrupted>>

-----------------------------------------------------------------------------
(***************************************************************************)
(* How many runs the estimate covers; a discover command without a count   *)
(* has no bound before it runs.                                            *)
(***************************************************************************)
FanoutKnown(s) == ~s.discover \/ s.count > 0

FanoutCount(s) ==
  IF s.count > 0 THEN s.count ELSE IF s.discover THEN 0 ELSE 1

\* checkShardFanoutCost refuses.
FanoutBlocked(s) ==
  \/ s.budget > 0 /\ (~FanoutKnown(s) \/ FanoutCount(s) > s.budget)
  \/ ~s.yes /\ (~FanoutKnown(s) \/ FanoutCount(s) > AutoApprove \/ s.approvals)

ShardCount(s, k) ==
  IF s.discover /\ (s.count = 0 \/ s.count > k) THEN k ELSE s.count

\* Mutant: the items that do not divide evenly are lost.
MutItems(i, n, k) == {j \in 1..(k - (k % n)) : (j - 1) % n = i}

\* Items go round-robin.
Items(i, n, k) == {j \in 1..k : (j - 1) % n = i}

Indices(n) == {i \in 0..n : i < n}

Plan(s, k) ==
  LET n == ShardCount(s, k)
  IN  [i \in Indices(n) |-> IF s.discover THEN Items(i, n, k) ELSE {}]

\* Mutant: no default for a maxParallel of zero.
MutWorkerCount(s, n) == IF s.maxParallel > n THEN n ELSE s.maxParallel

WorkerCount(s, n) ==
  LET wanted == IF s.maxParallel = 0 THEN DefaultMaxParallel ELSE s.maxParallel
  IN  IF wanted > n THEN n ELSE wanted

NumShards == ShardCount(spec, discovered)
Shards == DOMAIN assigned
Workers == DOMAIN worker

FailFast == spec.onShardFailure # "continue"
DoRetry == spec.onShardFailure = "retry"

NoJob == [st |-> "idle", job |-> 0, ok |-> FALSE]

-----------------------------------------------------------------------------
(***************************************************************************)
(* The cost of the fan-out is refused; or the discover command cannot be   *)
(* used on the target, fails, or prints nothing.                           *)
(***************************************************************************)
Refuse ==
  /\ main = "start" /\ (FanoutBlocked(spec) \/ spec.discover)
  /\ main' = "refused"
  /\ UNCHANGED <<plan, fed, worker, shards, canceled, interrupted>>

\* runSharded: discover, plan, and start the engine.
Begin ==
  /\ main = "start" /\ ~FanoutBlocked(spec)
  /\ spec.discover => spec.local
  /\ \E k \in IF spec.discover THEN 0..MaxItems ELSE {0} :
       LET n == ShardCount(spec, k)
       IN  /\ n > 0
           /\ discovered' = k
           /\ assigned' = Plan(spec, k)
           /\ worker' = [w \in 1..WorkerCount(spec, n) |-> NoJob]
           /\ results' = [i \in Indices(n) |-> "skipped"]
           /\ starts' = [i \in Indices(n) |-> 0]
           /\ last' = [i \in Indices(n) |-> "none"]
  /\ main' = "feeding"
  /\ UNCHANGED <<spec, fed, canceled, interrupted>>

\* The select may choose the channel even when the context is done.
Feed(w) ==
  /\ main = "feeding" /\ fed < NumShards
  /\ worker[w].st = "idle"
  /\ worker' = [worker EXCEPT ![w] = [st |-> "taken", job |-> fed, ok |-> FALSE]]
  /\ fed' = fed + 1
  /\ UNCHANGED <<plan, main, shards, canceled, interrupted>>

\* break feed, or the end of the loop; then close(jobs).
FeedEnds ==
  /\ main = "feeding" /\ (canceled \/ fed = NumShards)
  /\ main' = "joining"
  /\ UNCHANGED <<plan, fed, worker, shards, canceled, interrupted>>

\* Once aborted, a worker drains the channel without running its shards.
Take(w) ==
  /\ worker[w].st = "taken"
  /\ IF canceled
     THEN worker' = [worker EXCEPT ![w].st = "idle"] /\ UNCHANGED starts
     ELSE /\ worker' = [worker EXCEPT ![w].st = "run"]
          /\ starts' = [starts EXCEPT ![worker[w].job] = @ + 1]
  /\ UNCHANGED <<plan, main, fed, results, last, canceled, interrupted>>

Ended(w, ok) ==
  /\ worker' = [worker EXCEPT ![w].st = "ran", ![w].ok = ok]
  /\ last' = [last EXCEPT ![worker[w].job] = IF ok THEN "ok" ELSE "error"]

RunSucceeds(w) ==
  /\ worker[w].st \in {"run", "rerun"}
  /\ Ended(w, TRUE)
  /\ UNCHANGED <<plan, main, fed, results, starts, canceled, interrupted>>

Retries(w) == DoRetry /\ worker[w].st = "run" /\ ~canceled

\* The run fails, by itself or because the context is done.
RunFails(w) ==
  /\ worker[w].st \in {"run", "rerun"}
  /\ IF Retries(w)
     THEN /\ worker' = [worker EXCEPT ![w].st = "rerun"]
          /\ starts' = [starts EXCEPT ![worker[w].job] = @ + 1]
          /\ UNCHANGED last
     ELSE Ended(w, FALSE) /\ UNCHANGED starts
  /\ UNCHANGED <<plan, main, fed, results, canceled, interrupted>>

\* Mutant: an aborted shard keeps its mark as skipped.
MutRecord(w) ==
  /\ worker[w].st = "ran"
  /\ results' = IF canceled /\ ~worker[w].ok THEN results
                ELSE [results EXCEPT ![worker[w].job] =
                        IF worker[w].ok THEN "success" ELSE "failed"]
  /\ worker' = [worker EXCEPT ![w].st =
                  IF ~worker[w].ok /\ FailFast THEN "failed" ELSE "idle"]
  /\ UNCHANGED <<plan, main, fed, starts, last, canceled, interrupted>>

\* The worker writes the result under the lock.
Record(w) ==
  /\ worker[w].st = "ran"
  /\ results' = [results EXCEPT ![worker[w].job] =
                   IF worker[w].ok THEN "success" ELSE "failed"]
  /\ worker' = [worker EXCEPT ![w].st =
                  IF ~worker[w].ok /\ FailFast THEN "failed" ELSE "idle"]
  /\ UNCHANGED <<plan, main, fed, starts, last, canceled, interrupted>>

\* cancel(), after the lock is released.
Abort(w) ==
  /\ worker[w].st = "failed"
  /\ worker' = [worker EXCEPT ![w].st = "idle"]
  /\ canceled' = TRUE
  /\ UNCHANGED <<plan, main, fed, shards, interrupted>>

\* The channel is closed and empty.
WorkerEnds(w) ==
  /\ worker[w].st = "idle" /\ main = "joining"
  /\ worker' = [worker EXCEPT ![w].st = "ended"]
  /\ UNCHANGED <<plan, main, fed, shards, canceled, interrupted>>

Return ==
  /\ main = "joining" /\ \A w \in Workers : worker[w].st = "ended"
  /\ main' = "returned"
  /\ UNCHANGED <<plan, fed, worker, shards, canceled, interrupted>>

\* A signal, or the end of --max-time.
Interrupt ==
  /\ main \in {"feeding", "joining"} /\ ~interrupted
  /\ interrupted' = TRUE /\ canceled' = TRUE
  /\ UNCHANGED <<plan, main, fed, worker, shards>>

Over == main \in {"refused", "returned"} /\ UNCHANGED vars

Init ==
  /\ spec \in Specs
  /\ discovered = 0
  /\ main = "start"
  /\ fed = 0
  /\ assigned = [i \in {} |-> {}] /\ worker = [w \in {} |-> NoJob]
  /\ results = [i \in {} |-> "skipped"]
  /\ starts = [i \in {} |-> 0]
  /\ last = [i \in {} |-> "none"]
  /\ canceled = FALSE /\ interrupted = FALSE

Step(w) ==
  \/ Feed(w) \/ Take(w) \/ RunSucceeds(w) \/ RunFails(w)
  \/ Record(w) \/ Abort(w) \/ WorkerEnds(w)

Next ==
  \/ Refuse \/ Begin \/ FeedEnds \/ Return \/ Interrupt \/ Over
  \/ \E w \in Workers : Step(w)

Spec == Init /\ [][Next]_vars

(***************************************************************************)
(* Goroutines that can run do, and every run of a shard ends: Execute      *)
(* returns when its workload does or its context is done.                  *)
(***************************************************************************)
Fairness ==
  /\ WF_vars(Refuse \/ Begin) /\ WF_vars(FeedEnds) /\ WF_vars(Return)
  /\ \A w \in 1..(MaxShardCount + MaxItems) : WF_vars(w \in Workers /\ Step(w))

FairSpec == Spec /\ Fairness

-----------------------------------------------------------------------------
(***************************************************************************)
(* The shape of the state.                                                 *)
(***************************************************************************)
TypeOK ==
  /\ spec \in Specs
  /\ discovered \in 0..MaxItems
  /\ main \in {"start", "refused", "feeding", "joining", "returned"}
  /\ fed \in 0..NumShards
  /\ assigned \in
       [IF main \in {"start", "refused"} THEN {} ELSE Indices(NumShards) ->
          SUBSET (1..discovered)]
  /\ worker \in
       [Workers -> [st : {"idle", "taken", "run", "rerun", "ran", "failed",
                         "ended"},
                   job : 0..NumShards, ok : BOOLEAN]]
  /\ results \in [Shards -> {"skipped", "success", "failed"}]
  /\ starts \in [Shards -> 0..2]
  /\ last \in [Shards -> {"none", "ok", "error"}]
  /\ canceled \in BOOLEAN /\ interrupted \in BOOLEAN

Busy(w) == worker[w].st \in {"taken", "run", "rerun", "ran"}

(***************************************************************************)
(* No two workers ever hold the same shard: two runs of one shard would    *)
(* share the plan id, the name of the machine and the path of the key.     *)
(***************************************************************************)
OneWorkerPerShard ==
  \A v, w \in Workers :
    Busy(v) /\ Busy(w) /\ worker[v].job = worker[w].job => v = w

(***************************************************************************)
(* The summary tells the truth about every shard: skipped are those that   *)
(* were never started, also when an abort raced the channel, and the       *)
(* others are reported as their last run ended.                            *)
(***************************************************************************)
SummaryIsHonest ==
  main = "returned" =>
    \A i \in Shards :
      /\ results[i] = "skipped" <=> starts[i] = 0
      /\ results[i] = "success" <=> last[i] = "ok"

(***************************************************************************)
(* A shard is left out only because the caller was interrupted or, when    *)
(* the policy is not "continue", because a shard failed and the summary    *)
(* says so: there is no silent truncation.                                 *)
(***************************************************************************)
SkipsAreExplained ==
  main = "returned" /\ (\E i \in Shards : results[i] = "skipped") =>
    \/ interrupted
    \/ FailFast /\ \E i \in Shards : results[i] = "failed"

(***************************************************************************)
(* Under the policy "retry" a failed shard was run twice, unless the       *)
(* fan-out was aborted before.                                             *)
(***************************************************************************)
FailsOnlyAfterRetry ==
  DoRetry /\ ~canceled =>
    \A i \in Shards : results[i] = "failed" => starts[i] = 2

(***************************************************************************)
(* A fan-out that succeeds has done all the work: every item that the      *)
(* discover command printed belongs to exactly one shard, and that shard's *)
(* last run succeeded.  No shard was paid for that had no items.           *)
(***************************************************************************)
SuccessIsComplete ==
  main = "returned" /\ (\A i \in Shards : results[i] = "success") =>
    /\ \A j \in 1..discovered :
         \E i \in Shards : /\ j \in assigned[i] /\ last[i] = "ok"
                           /\ \A h \in Shards \ {i} : j \notin assigned[h]
    /\ spec.discover => \A i \in Shards : assigned[i] # {}

(***************************************************************************)
(* A shard that no worker holds: not started, because it was not fed yet   *)
(* or was drained after an abort, or recorded as its last run ended.       *)
(***************************************************************************)
Settled(i) ==
  \/ /\ starts[i] = 0 /\ results[i] = "skipped" /\ last[i] = "none"
     /\ i < fed => canceled
  \/ starts[i] > 0 /\ results[i] = "success" /\ last[i] = "ok"
  \/ starts[i] > 0 /\ results[i] = "failed" /\ last[i] = "error"

(***************************************************************************)
(* What a worker knows of the shard it holds.                              *)
(***************************************************************************)
Holds(w) ==
  LET i == worker[w].job IN
  /\ Busy(w) => i < fed /\ results[i] = "skipped"
  /\ worker[w].st = "taken" => starts[i] = 0 /\ last[i] = "none"
  /\ worker[w].st = "run" => starts[i] = 1 /\ last[i] = "none"
  /\ worker[w].st = "rerun" => DoRetry /\ starts[i] = 2 /\ last[i] = "none"
  /\ worker[w].st = "ran" =>
       /\ starts[i] > 0
       /\ last[i] = IF worker[w].ok THEN "ok" ELSE "error"
       /\ DoRetry /\ ~worker[w].ok /\ ~canceled => starts[i] = 2
  /\ worker[w].st = "failed" =>
       FailFast /\ i \in Shards /\ results[i] = "failed"

(***************************************************************************)
(* The inductive form of the above: every shard is held by one worker that *)
(* tells how far it got, or is settled; and an abort has a cause.          *)
(***************************************************************************)
EngineInv ==
  /\ TypeOK /\ OneWorkerPerShard /\ FailsOnlyAfterRetry
  /\ \A w \in Workers : Holds(w)
  /\ \A i \in Shards :
       Settled(i) \/ \E w \in Workers : Busy(w) /\ worker[w].job = i
  /\ \A i \in Shards :
       i >= fed => starts[i] = 0 /\ results[i] = "skipped" /\ last[i] = "none"
  /\ canceled => \/ interrupted
                 \/ FailFast /\ \E i \in Shards : results[i] = "failed"
  /\ main \in {"start", "refused"} => ~canceled /\ fed = 0
  /\ main \in {"joining", "returned"} => canceled \/ fed = NumShards
  /\ main = "returned" => \A w \in Workers : worker[w].st = "ended"

(***************************************************************************)
(* Once the context is done no shard is started, first run or retry.       *)
(***************************************************************************)
NoStartAfterAbort ==
  [][canceled => starts' = starts]_vars

(***************************************************************************)
(* The engine returns: no worker is stuck on the channel, the feeder is    *)
(* not stuck without a worker, whatever fails or is interrupted.           *)
(***************************************************************************)
EngineReturns == <>(main \in {"refused", "returned"})

=============================================================================
