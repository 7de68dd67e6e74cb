-------------------------- MODULE ShardEngineProofs --------------------------
(***************************************************************************)
(* Proofs about the shard engine, for every number of shards and workers   *)
(* and every policy.                                                       *)
(***************************************************************************)
EXTENDS ShardEngine, TLAPS

(***************************************************************************)
(* shard.Plan makes a natural number of shards.                            *)
(***************************************************************************)
LEMMA CountType ==
  ASSUME NEW s \in Specs, NEW k \in Nat
  PROVE  ShardCount(s, k) \in Nat
BY SpecsAssumption DEF ShardCount, ShardSpec

(***************************************************************************)
(* Before the engine is started nothing is assigned, fed or canceled.      *)
(***************************************************************************)
LEMMA EngineInit == Init => EngineInv
<1> SUFFICES ASSUME Init PROVE EngineInv
  OBVIOUS
<1>1. canceled \in BOOLEAN /\ interrupted \in BOOLEAN
  BY Zenon DEF Init
<1>2. ~canceled /\ fed = 0 /\ main = "start"
  BY DEF Init
<1>3. Shards = {} /\ Workers = {}
  BY DEF Init, Shards, Workers
<1>4. spec \in Specs /\ discovered = 0 /\ 0 \in 0..MaxItems
  BY SpecsAssumption DEF Init
<1>5. NumShards \in Nat
  BY <1>4, CountType DEF NumShards
<1>6. TypeOK
  <2>1. /\ assigned \in [{} -> SUBSET (1..discovered)]
        /\ results \in [Shards -> {"skipped", "success", "failed"}]
        /\ starts \in [Shards -> 0..2]
        /\ last \in [Shards -> {"none", "ok", "error"}]
    BY <1>3 DEF Init
  <2>2. worker \in [Workers -> [st : {"idle", "taken", "run", "rerun", "ran",
                                      "failed", "ended"},
                                job : 0..NumShards, ok : BOOLEAN]]
    BY <1>3 DEF Init
  <2> QED
    BY <1>1, <1>2, <1>4, <1>5, <2>1, <2>2 DEF TypeOK
<1> QED
  BY <1>2, <1>3, <1>6 DEF EngineInv, OneWorkerPerShard, FailsOnlyAfterRetry

(***************************************************************************)
(* runSharded starts the engine with every result marked as skipped.       *)
(***************************************************************************)
LEMMA BeginStep ==
  ASSUME EngineInv, Begin
  PROVE  EngineInv'
<1>0. /\ TypeOK /\ main = "start" /\ ~canceled /\ fed = 0
      /\ spec \in Specs
  BY DEF EngineInv, Begin, TypeOK
<1>1. PICK k \in (IF spec.discover THEN 0..MaxItems ELSE {0}) :
        /\ ShardCount(spec, k) > 0
        /\ discovered' = k
        /\ assigned' = Plan(spec, k)
        /\ worker' = [w \in 1..WorkerCount(spec, ShardCount(spec, k)) |-> NoJob]
        /\ results' = [i \in Indices(ShardCount(spec, k)) |-> "skipped"]
        /\ starts' = [i \in Indices(ShardCount(spec, k)) |-> 0]
        /\ last' = [i \in Indices(ShardCount(spec, k)) |-> "none"]
  BY DEF Begin
<1> DEFINE n == ShardCount(spec, k)
<1>2. k \in 0..MaxItems /\ k \in Nat /\ MaxItems \in Nat
  BY <1>1, SpecsAssumption
<1>3. n \in Nat /\ n > 0
  BY <1>0, <1>1, <1>2, CountType
<1>4. /\ main' = "feeding" /\ spec' = spec /\ fed' = 0
      /\ ~canceled'
      /\ NumShards' = n
  BY <1>0, <1>1 DEF Begin, NumShards
<1>5. canceled' \in BOOLEAN /\ interrupted' \in BOOLEAN
  BY <1>0 DEF Begin, TypeOK
<1> HIDE DEF n
<1>6. assigned' \in [Indices(n) -> SUBSET (1..k)]
  <2>1. \A i \in Indices(n) : Items(i, n, k) \subseteq 1..k
    BY DEF Items
  <2> QED BY <1>1, <2>1 DEF Plan, n
<1>7. Shards' = Indices(n)
  BY <1>6 DEF Shards
<1>8. /\ Workers' = 1..WorkerCount(spec, n)
      /\ \A w \in Workers' : worker'[w] = NoJob
      /\ worker' \in [Workers' -> [st : {"idle", "taken", "run", "rerun", "ran",
                                        "failed", "ended"},
                                  job : 0..n, ok : BOOLEAN]]
  BY <1>1, <1>3 DEF Workers, NoJob, n
<1>9. /\ results' = [i \in Shards' |-> "skipped"]
      /\ starts' = [i \in Shards' |-> 0]
      /\ last' = [i \in Shards' |-> "none"]
  BY <1>1, <1>7 DEF n
<1>10. TypeOK'
  BY <1>0, <1>1, <1>2, <1>3, <1>4, <1>5, <1>6, <1>8, <1>9 DEF TypeOK
<1>11. \A i \in Shards' : i \in Nat /\ ~(i < 0)
  BY <1>3, <1>7 DEF Indices
<1>12. \A w \in Workers' : worker'[w].st = "idle"
  BY <1>8 DEF NoJob
<1> QED
  BY <1>4, <1>9, <1>10, <1>11, <1>12
  DEF EngineInv, OneWorkerPerShard, FailsOnlyAfterRetry, Holds, Settled, Busy

\* The shards, the workers, what they work on and the policy stay the same.
SameFanOut ==
  /\ Shards' = Shards /\ Workers' = Workers /\ NumShards' = NumShards
  /\ DoRetry' = DoRetry /\ FailFast' = FailFast
  /\ \A w : Busy(w)' = Busy(w)

(***************************************************************************)
(* The steps of the calling goroutine and the interrupt leave the shards   *)
(* and the workers alone.                                                  *)
(***************************************************************************)
LEMMA MainStep ==
  ASSUME EngineInv, Refuse \/ FeedEnds \/ Return \/ Interrupt
  PROVE  EngineInv'
<1>1. CASE Refuse
  BY <1>1 DEF Refuse, EngineInv, TypeOK, OneWorkerPerShard, FailsOnlyAfterRetry,
              Holds, Settled, Busy, NumShards, Shards, Workers, DoRetry, FailFast,
              plan, shards
<1>2. CASE FeedEnds
  BY <1>2 DEF FeedEnds, EngineInv, TypeOK, OneWorkerPerShard, FailsOnlyAfterRetry,
              Holds, Settled, Busy, NumShards, Shards, Workers, DoRetry, FailFast,
              plan, shards
<1>3. CASE Return
  BY <1>3 DEF Return, EngineInv, TypeOK, OneWorkerPerShard, FailsOnlyAfterRetry,
              Holds, Settled, Busy, NumShards, Shards, Workers, DoRetry, FailFast,
              plan, shards
<1>4. CASE Interrupt
  <2>1. /\ UNCHANGED <<spec, discovered, assigned, main, fed, worker, results, starts, last>>
        /\ canceled' /\ interrupted' /\ canceled' \in BOOLEAN /\ interrupted' \in BOOLEAN
        /\ main \in {"feeding", "joining"}
    BY <1>4 DEF Interrupt, plan, shards
  <2>2. SameFanOut
    BY <2>1, Zenon DEF SameFanOut, NumShards, Shards, Workers, DoRetry, FailFast, Busy
  <2>3. TypeOK' /\ OneWorkerPerShard' /\ FailsOnlyAfterRetry'
    <3>1. TypeOK /\ OneWorkerPerShard
      BY Zenon DEF EngineInv
    <3>2. TypeOK'
      BY <2>1, <2>2, <3>1 DEF TypeOK, SameFanOut
    <3>3. OneWorkerPerShard'
      BY <2>1, <2>2, <3>1, Zenon DEF OneWorkerPerShard, SameFanOut
    <3> QED BY <2>1, <3>2, <3>3 DEF FailsOnlyAfterRetry
  <2>4. ASSUME NEW w \in Workers PROVE Holds(w) => Holds(w)'
    <3>1. Busy(w)' = Busy(w) /\ Shards' = Shards /\ DoRetry' = DoRetry /\ FailFast' = FailFast
      BY <2>2, Zenon DEF SameFanOut
    <3> QED BY <2>1, <3>1 DEF Holds
  <2>5. \A i \in Shards : Settled(i) => Settled(i)'
    BY <2>1, Zenon DEF Settled
  <2>6. /\ main' \notin {"start", "refused", "returned"}
        /\ main' = "joining" => canceled'
    BY <2>1
  <2> QED BY <2>1, <2>2, <2>3, <2>4, <2>5, <2>6 DEF EngineInv, SameFanOut
<1> QED BY <1>1, <1>2, <1>3, <1>4

(***************************************************************************)
(* The shard that a busy worker holds is one of the fan-out, and has no    *)
(* result yet.                                                             *)
(***************************************************************************)
LEMMA HeldShard ==
  ASSUME EngineInv, NEW w \in Workers, Busy(w)
  PROVE  /\ worker[w].job \in Shards /\ worker[w].job < fed
         /\ results[worker[w].job] = "skipped"
         /\ main \in {"feeding", "joining"}
<1>1. /\ TypeOK /\ Holds(w) /\ worker[w].job < fed
      /\ results[worker[w].job] = "skipped"
  BY DEF EngineInv, Holds
<1>2. fed \in 0..NumShards /\ worker[w].job \in 0..NumShards
  BY <1>1 DEF TypeOK
<1>3. spec \in Specs /\ discovered \in Nat
  BY <1>1, SpecsAssumption DEF TypeOK
<1>4. NumShards \in Nat
  BY <1>3, CountType DEF NumShards
<1>5. main \in {"feeding", "joining"}
  <2>1. main \notin {"start", "refused"}
    BY <1>1, <1>2, <1>4 DEF EngineInv
  <2>2. main # "returned"
    BY DEF EngineInv, Busy
  <2> QED BY <1>1, <2>1, <2>2 DEF TypeOK
<1>6. Shards = Indices(NumShards)
  BY <1>1, <1>5 DEF TypeOK, Shards
<1> QED BY <1>1, <1>2, <1>4, <1>5, <1>6 DEF Indices

\* A worker holds what it held when nothing of it or its shard has changed.
LEMMA HoldsKept ==
  ASSUME NEW v, NEW i, i = worker[v].job, worker'[v] = worker[v], Busy(v)' <=> Busy(v),
         results'[i] = results[i], starts'[i] = starts[i], last'[i] = last[i],
         UNCHANGED <<fed, canceled>>, Shards' = Shards, DoRetry' = DoRetry,
         FailFast' = FailFast, Holds(v)
  PROVE  Holds(v)'
BY DEF Holds

(***************************************************************************)
(* A worker changes only its own entry and that of the shard it holds; it  *)
(* is enough to look at these two.                                         *)
(***************************************************************************)
LEMMA LocalStep ==
  ASSUME EngineInv, NEW w \in Workers, Busy(w), TypeOK',
         UNCHANGED <<plan, main, fed, canceled, interrupted>>,
         Workers' = Workers,
         \A v \in Workers : v # w => worker'[v] = worker[v],
         worker'[w].job = worker[w].job,
         \A i \in Shards : i # worker[w].job =>
           /\ results'[i] = results[i]
           /\ starts'[i] = starts[i]
           /\ last'[i] = last[i],
         Holds(w)',
         Settled(worker[w].job)' \/ Busy(w)',
         DoRetry /\ ~canceled /\ results'[worker[w].job] = "failed"
           => starts'[worker[w].job] = 2
  PROVE  EngineInv'
<1> DEFINE i0 == worker[w].job
<1>1. /\ i0 \in Shards /\ i0 < fed /\ results[i0] = "skipped"
      /\ main \in {"feeding", "joining"}
  BY HeldShard
<1>2. /\ Shards' = Shards /\ NumShards' = NumShards /\ DoRetry' = DoRetry
      /\ FailFast' = FailFast
  BY DEF plan, Shards, NumShards, DoRetry, FailFast
<1>3. \A v \in Workers : v # w => (Busy(v)' <=> Busy(v))
  BY DEF Busy
<1>a. OneWorkerPerShard /\ FailsOnlyAfterRetry
  BY Zenon DEF EngineInv
<1>b. /\ \A i \in Shards :
           i >= fed => starts[i] = 0 /\ results[i] = "skipped" /\ last[i] = "none"
      /\ canceled => \/ interrupted
                     \/ FailFast /\ \E i \in Shards : results[i] = "failed"
  BY Zenon DEF EngineInv
<1>4. OneWorkerPerShard'
  <2>1. \A v \in Workers : worker'[v].job = worker[v].job
    OBVIOUS
  <2>2. \A v \in Workers : Busy(v)' => Busy(v)
    BY <1>3, Zenon
  <2> QED BY <1>a, <2>1, <2>2, Zenon DEF OneWorkerPerShard
<1>5. FailsOnlyAfterRetry'
  <2> SUFFICES ASSUME DoRetry, ~canceled, NEW i \in Shards, results'[i] = "failed"
               PROVE  starts'[i] = 2
    BY <1>2, Zenon DEF FailsOnlyAfterRetry
  <2>1. CASE i = i0
    BY <2>1
  <2>2. CASE i # i0
    BY <1>a, <2>2 DEF FailsOnlyAfterRetry
  <2> QED BY <2>1, <2>2
<1>6. ASSUME NEW v \in Workers PROVE Holds(v)'
  <2>1. CASE v = w
    BY <2>1
  <2>2. CASE v # w
    <3>1. Holds(v) /\ worker'[v] = worker[v]
      BY <2>2 DEF EngineInv
    <3>2. CASE Busy(v)
      <4>1. worker[v].job \in Shards /\ worker[v].job # i0
        BY <2>2, <3>2, HeldShard DEF EngineInv, OneWorkerPerShard
      <4>2. Busy(v)' <=> Busy(v)
        BY <1>3, <2>2, Zenon
      <4>3. PICK i : /\ i = worker[v].job /\ i \in Shards /\ worker'[v].job = i
                     /\ results'[i] = results[i] /\ starts'[i] = starts[i]
                     /\ last'[i] = last[i]
        BY <3>1, <4>1
      <4>4. UNCHANGED <<fed, canceled>>
        OBVIOUS
      <4> QED BY <1>2, <3>1, <4>2, <4>3, <4>4, HoldsKept, Zenon
    <3>3. CASE ~Busy(v)
      <4>1. worker[v].st = "failed" =>
              worker[v].job \in Shards /\ worker[v].job # i0
        BY <1>1, <3>1 DEF Holds
      <4> QED BY <1>2, <3>1, <3>3, <4>1 DEF Holds, Busy
    <3> QED BY <3>2, <3>3
  <2> QED BY <2>1, <2>2
<1>7. ASSUME NEW i \in Shards
      PROVE  Settled(i)' \/ \E v \in Workers : Busy(v)' /\ worker'[v].job = i
  <2>1. CASE i = i0
    BY <2>1
  <2>2. CASE i # i0
    <3>1. CASE Settled(i)
      BY <2>2, <3>1 DEF Settled
    <3>2. CASE \E v \in Workers : Busy(v) /\ worker[v].job = i
      BY <1>3, <2>2, <3>2
    <3> QED BY <3>1, <3>2 DEF EngineInv
  <2> QED BY <2>1, <2>2
<1>8. \A i \in Shards :
        i >= fed => starts'[i] = 0 /\ results'[i] = "skipped" /\ last'[i] = "none"
  <2>1. ~(i0 >= fed)
    BY <1>1 DEF EngineInv, TypeOK
  <2> QED BY <1>b, <2>1
<1>9. canceled => \/ interrupted
                  \/ FailFast /\ \E i \in Shards : results'[i] = "failed"
  BY <1>1, <1>b
<1> QED
  BY <1>1, <1>2, <1>4, <1>5, <1>6, <1>7, <1>8, <1>9 DEF EngineInv

(***************************************************************************)
(* What an assignment to the st of one worker does.                        *)
(***************************************************************************)
LEMMA SetState ==
  ASSUME TypeOK, NEW w \in Workers,
         NEW s \in {"idle", "taken", "run", "rerun", "ran", "failed", "ended"},
         worker' = [worker EXCEPT ![w].st = s]
  PROVE  /\ Workers' = Workers
         /\ worker' \in [Workers -> [st : {"idle", "taken", "run", "rerun", "ran",
                                           "failed", "ended"},
                                     job : 0..NumShards, ok : BOOLEAN]]
         /\ \A v \in Workers : v # w => worker'[v] = worker[v]
         /\ worker'[w].st = s /\ worker'[w].job = worker[w].job
         /\ worker'[w].ok = worker[w].ok
BY DEF TypeOK, Workers

(***************************************************************************)
(* A worker starts the shard it took, or drains it after an abort.         *)
(***************************************************************************)
LEMMA TakeStep ==
  ASSUME EngineInv, NEW w \in Workers, Take(w)
  PROVE  EngineInv'
<1> DEFINE i0 == worker[w].job
<1>1. Busy(w) /\ TypeOK /\ Holds(w) /\ worker[w].st = "taken"
  BY DEF EngineInv, Take, Busy
<1>2. i0 \in Shards /\ i0 < fed /\ results[i0] = "skipped"
  BY <1>1, HeldShard
<1>3. starts[i0] = 0 /\ last[i0] = "none"
  BY <1>1 DEF Holds
<1>4. /\ Shards' = Shards /\ NumShards' = NumShards /\ DoRetry' = DoRetry
      /\ FailFast' = FailFast
  BY DEF Take, plan, Shards, NumShards, DoRetry, FailFast
<1>5. CASE canceled
  <2>1. worker' = [worker EXCEPT ![w].st = "idle"] /\ starts' = starts
    BY <1>5 DEF Take
  <2>2. /\ Workers' = Workers
        /\ worker' \in [Workers -> [st : {"idle", "taken", "run", "rerun", "ran",
                                          "failed", "ended"},
                                    job : 0..NumShards, ok : BOOLEAN]]
        /\ \A v \in Workers : v # w => worker'[v] = worker[v]
        /\ worker'[w].st = "idle" /\ worker'[w].job = i0
    BY <1>1, <2>1, SetState
  <2>3. TypeOK'
    BY <1>1, <1>4, <2>1, <2>2 DEF TypeOK, Take, plan
  <2>4. Holds(w)' /\ Settled(i0)'
    BY <1>2, <1>3, <1>5, <2>1, <2>2 DEF Holds, Busy, Settled, Take
  <2> QED BY <1>1, <1>2, <2>1, <2>2, <2>3, <2>4, LocalStep DEF Take
<1>6. CASE ~canceled
  <2>1. /\ worker' = [worker EXCEPT ![w].st = "run"]
        /\ starts' = [starts EXCEPT ![i0] = @ + 1]
    BY <1>6 DEF Take
  <2>2. /\ Workers' = Workers
        /\ worker' \in [Workers -> [st : {"idle", "taken", "run", "rerun", "ran",
                                          "failed", "ended"},
                                    job : 0..NumShards, ok : BOOLEAN]]
        /\ \A v \in Workers : v # w => worker'[v] = worker[v]
        /\ worker'[w].st = "run" /\ worker'[w].job = i0
    BY <1>1, <2>1, SetState
  <2>3. /\ starts' \in [Shards -> 0..2] /\ starts'[i0] = 1
        /\ \A i \in Shards : i # i0 => starts'[i] = starts[i]
    BY <1>1, <1>2, <1>3, <2>1 DEF TypeOK
  <2>4. TypeOK'
    BY <1>1, <1>4, <2>2, <2>3 DEF TypeOK, Take, plan
  <2>5. Holds(w)' /\ Busy(w)'
    BY <1>2, <1>3, <2>2, <2>3 DEF Holds, Busy, Take
  <2> QED BY <1>1, <1>2, <2>2, <2>3, <2>4, <2>5, LocalStep DEF Take
<1> QED BY <1>5, <1>6

(***************************************************************************)
(* What the end of a run assigns.                                          *)
(***************************************************************************)
LEMMA EndedStep ==
  ASSUME EngineInv, NEW w \in Workers, NEW ok \in BOOLEAN, Ended(w, ok),
         worker[w].st \in {"run", "rerun"},
         ~ok => ~(DoRetry /\ worker[w].st = "run" /\ ~canceled),
         UNCHANGED <<plan, main, fed, results, starts, canceled, interrupted>>
  PROVE  EngineInv'
<1> DEFINE i0 == worker[w].job
<1>1. Busy(w) /\ TypeOK /\ Holds(w)
  BY DEF EngineInv, Busy
<1>2. i0 \in Shards /\ i0 < fed /\ results[i0] = "skipped"
  BY <1>1, HeldShard
<1>3. /\ Shards' = Shards /\ NumShards' = NumShards /\ DoRetry' = DoRetry
      /\ FailFast' = FailFast
  BY DEF plan, Shards, NumShards, DoRetry, FailFast
<1>4. worker' = [worker EXCEPT ![w] = [worker[w] EXCEPT !.st = "ran", !.ok = ok]]
  BY <1>1 DEF Ended, TypeOK
<1>5. /\ Workers' = Workers
      /\ worker' \in [Workers -> [st : {"idle", "taken", "run", "rerun", "ran",
                                        "failed", "ended"},
                                  job : 0..NumShards, ok : BOOLEAN]]
      /\ \A v \in Workers : v # w => worker'[v] = worker[v]
      /\ worker'[w].st = "ran" /\ worker'[w].job = i0 /\ worker'[w].ok = ok
  BY <1>1, <1>4 DEF TypeOK, Workers
<1>6. /\ last' \in [Shards -> {"none", "ok", "error"}]
      /\ last'[i0] = IF ok THEN "ok" ELSE "error"
      /\ \A i \in Shards : i # i0 => last'[i] = last[i]
  BY <1>1, <1>2 DEF Ended, TypeOK
<1>7. TypeOK'
  BY <1>1, <1>3, <1>5, <1>6 DEF TypeOK, plan
<1>8. starts[i0] > 0 /\ (DoRetry /\ ~ok /\ ~canceled => starts[i0] = 2)
  BY <1>1 DEF Holds
<1>9. Holds(w)' /\ Busy(w)'
  BY <1>2, <1>3, <1>5, <1>6, <1>8 DEF Holds, Busy
<1> QED BY <1>1, <1>2, <1>5, <1>6, <1>7, <1>9, LocalStep

(***************************************************************************)
(* A failed run is retried once, or ends the worker's attempts.            *)
(***************************************************************************)
LEMMA RunFailsStep ==
  ASSUME EngineInv, NEW w \in Workers, RunFails(w)
  PROVE  EngineInv'
<1>1. CASE ~Retries(w)
  BY <1>1, EndedStep DEF RunFails, Retries
<1>2. CASE Retries(w)
  <2> DEFINE i0 == worker[w].job
  <2>1. /\ Busy(w) /\ TypeOK /\ Holds(w) /\ DoRetry
        /\ worker[w].st = "run"
    BY <1>2 DEF EngineInv, Busy, Retries
  <2>2. /\ i0 \in Shards /\ i0 < fed /\ results[i0] = "skipped"
        /\ starts[i0] = 1 /\ last[i0] = "none"
    BY <2>1, HeldShard DEF Holds
  <2>3. /\ worker' = [worker EXCEPT ![w].st = "rerun"]
        /\ starts' = [starts EXCEPT ![i0] = @ + 1]
        /\ last' = last
    BY <1>2 DEF RunFails
  <2>4. /\ Shards' = Shards /\ NumShards' = NumShards /\ DoRetry' = DoRetry
        /\ FailFast' = FailFast
    BY DEF RunFails, plan, Shards, NumShards, DoRetry, FailFast
  <2>5. /\ Workers' = Workers
        /\ worker' \in [Workers -> [st : {"idle", "taken", "run", "rerun", "ran",
                                          "failed", "ended"},
                                    job : 0..NumShards, ok : BOOLEAN]]
        /\ \A v \in Workers : v # w => worker'[v] = worker[v]
        /\ worker'[w].st = "rerun" /\ worker'[w].job = i0
    BY <2>1, <2>3, SetState
  <2>6. /\ starts' \in [Shards -> 0..2] /\ starts'[i0] = 2
        /\ \A i \in Shards : i # i0 => starts'[i] = starts[i]
    BY <2>1, <2>2, <2>3 DEF TypeOK
  <2>7. TypeOK'
    BY <2>1, <2>3, <2>4, <2>5, <2>6 DEF TypeOK, RunFails, plan
  <2>8. Holds(w)' /\ Busy(w)'
    BY <2>1, <2>2, <2>3, <2>4, <2>5, <2>6 DEF Holds, Busy, RunFails
  <2> QED BY <2>1, <2>2, <2>3, <2>5, <2>6, <2>7, <2>8, LocalStep DEF RunFails
<1> QED BY <1>1, <1>2

(***************************************************************************)
(* A worker records the result of the shard it holds.                      *)
(***************************************************************************)
LEMMA RecordStep ==
  ASSUME EngineInv, NEW w \in Workers, Record(w)
  PROVE  EngineInv'
<1> DEFINE i0 == worker[w].job
           s == IF ~worker[w].ok /\ FailFast THEN "failed" ELSE "idle"
<1>1. Busy(w) /\ TypeOK /\ Holds(w) /\ worker[w].st = "ran"
  BY DEF EngineInv, Record, Busy
<1>2. i0 \in Shards /\ i0 < fed
  BY <1>1, HeldShard
<1>3. /\ starts[i0] > 0
      /\ last[i0] = IF worker[w].ok THEN "ok" ELSE "error"
      /\ DoRetry /\ ~worker[w].ok /\ ~canceled => starts[i0] = 2
  BY <1>1 DEF Holds
<1>4. /\ Shards' = Shards /\ NumShards' = NumShards /\ DoRetry' = DoRetry
      /\ FailFast' = FailFast
  BY DEF Record, plan, Shards, NumShards, DoRetry, FailFast
<1>5. /\ Workers' = Workers
      /\ worker' \in [Workers -> [st : {"idle", "taken", "run", "rerun", "ran",
                                        "failed", "ended"},
                                  job : 0..NumShards, ok : BOOLEAN]]
      /\ \A v \in Workers : v # w => worker'[v] = worker[v]
      /\ worker'[w].st = s /\ worker'[w].job = i0
  <2>1. s \in {"idle", "taken", "run", "rerun", "ran", "failed", "ended"}
    OBVIOUS
  <2>2. worker' = [worker EXCEPT ![w].st = s]
    BY DEF Record
  <2> HIDE DEF s
  <2> QED BY <1>1, <2>1, <2>2, SetState
<1>6. /\ results' \in [Shards -> {"skipped", "success", "failed"}]
      /\ results'[i0] = IF worker[w].ok THEN "success" ELSE "failed"
      /\ \A i \in Shards : i # i0 => results'[i] = results[i]
  BY <1>1, <1>2 DEF TypeOK, Record
<1>7. TypeOK'
  BY <1>1, <1>4, <1>5, <1>6 DEF TypeOK, Record, plan
<1>8. Holds(w)' /\ Settled(i0)'
  BY <1>2, <1>3, <1>4, <1>5, <1>6 DEF Holds, Busy, Settled, Record
<1> QED BY <1>1, <1>2, <1>3, <1>5, <1>6, <1>7, <1>8, LocalStep DEF Record

(***************************************************************************)
(* The feeder hands the next shard to an idle worker.                      *)
(***************************************************************************)
LEMMA FeedStep ==
  ASSUME EngineInv, NEW w \in Workers, Feed(w)
  PROVE  EngineInv'
<1>1. /\ TypeOK /\ ~Busy(w) /\ main = "feeding" /\ fed < NumShards
      /\ fed' = fed + 1
  BY DEF EngineInv, Feed, Busy
<1>2. NumShards \in Nat /\ fed \in Nat
  <2>1. spec \in Specs /\ discovered \in Nat
    BY <1>1, SpecsAssumption DEF TypeOK
  <2>2. NumShards \in Nat
    BY <2>1, CountType DEF NumShards
  <2> QED BY <1>1, <2>2 DEF TypeOK
<1>3. fed \in Shards /\ \A i \in Shards : i \in Nat
  BY <1>1, <1>2 DEF TypeOK, Shards, Indices
<1>4. starts[fed] = 0 /\ results[fed] = "skipped" /\ last[fed] = "none"
  BY <1>2, <1>3 DEF EngineInv
<1>5. /\ Shards' = Shards /\ NumShards' = NumShards /\ DoRetry' = DoRetry
      /\ FailFast' = FailFast
  BY DEF Feed, plan, Shards, NumShards, DoRetry, FailFast
<1>6. /\ Workers' = Workers
      /\ worker' \in [Workers -> [st : {"idle", "taken", "run", "rerun", "ran",
                                        "failed", "ended"},
                                  job : 0..NumShards, ok : BOOLEAN]]
      /\ \A v \in Workers : v # w => worker'[v] = worker[v]
      /\ worker'[w] = [st |-> "taken", job |-> fed, ok |-> FALSE]
  BY <1>1, <1>2 DEF Feed, TypeOK, Workers
<1>7. TypeOK'
  BY <1>1, <1>2, <1>5, <1>6 DEF TypeOK, Feed, plan, shards
<1>8. \A v \in Workers : Busy(v) => worker[v].job \in Nat /\ worker[v].job < fed
  BY <1>3, HeldShard
<1>9. \A v \in Workers : v # w => (Busy(v)' <=> Busy(v))
  BY <1>6 DEF Busy
<1>10. OneWorkerPerShard'
  <2>1. OneWorkerPerShard
    BY Zenon DEF EngineInv
  <2>2. \A v \in Workers : v # w => worker'[v].job = worker[v].job
    BY <1>6
  <2>3. worker'[w].job = fed
    BY <1>6
  <2>4. \A v \in Workers : v # w /\ Busy(v)' => worker'[v].job # fed
    BY <1>2, <1>8, <1>9, <2>2
  <2> QED BY <1>6, <1>9, <2>1, <2>2, <2>3, <2>4, Zenon DEF OneWorkerPerShard
<1>11. FailsOnlyAfterRetry'
  BY <1>5 DEF FailsOnlyAfterRetry, EngineInv, Feed, shards
<1>12. ASSUME NEW v \in Workers PROVE Holds(v)'
  <2>1. CASE v = w
    <3>1. /\ worker'[w].st = "taken" /\ worker'[w].job = fed
          /\ fed < fed' /\ UNCHANGED <<results, starts, last>>
      BY <1>1, <1>2, <1>6 DEF Feed, shards
    <3> QED BY <1>4, <2>1, <3>1 DEF Holds, Busy
  <2>2. CASE v # w
    <3>1. /\ worker'[v] = worker[v] /\ UNCHANGED <<results, starts, last, canceled>>
          /\ Busy(v) => worker[v].job < fed'
      BY <1>1, <1>2, <1>6, <1>8, <2>2 DEF Feed, shards
    <3>2. Holds(v)
      BY Zenon DEF EngineInv
    <3>3. Busy(v)' <=> Busy(v)
      BY <3>1, Zenon DEF Busy
    <3> QED BY <1>5, <3>1, <3>2, <3>3, Zenon DEF Holds
  <2> QED BY <2>1, <2>2
<1>13. ASSUME NEW i \in Shards
       PROVE  Settled(i)' \/ \E v \in Workers : Busy(v)' /\ worker'[v].job = i
  <2>1. CASE i = fed
    <3>1. worker'[w].st = "taken" /\ worker'[w].job = fed
      BY <1>6
    <3> QED BY <2>1, <3>1, Zenon DEF Busy
  <2>2. CASE i # fed /\ Settled(i)
    BY <1>1, <1>2, <1>3, <2>2 DEF Settled, Feed, shards
  <2>3. CASE \E v \in Workers : Busy(v) /\ worker[v].job = i
    BY <1>1, <1>6, <1>9, <2>3
  <2> QED BY <2>1, <2>2, <2>3 DEF EngineInv
<1>14. \A i \in Shards : i >= fed' =>
         starts'[i] = 0 /\ results'[i] = "skipped" /\ last'[i] = "none"
  BY <1>1, <1>2, <1>3 DEF EngineInv, Feed, shards
<1> QED
  BY <1>1, <1>5, <1>6, <1>7, <1>10, <1>11, <1>12, <1>13, <1>14
  DEF EngineInv, Feed, shards

(***************************************************************************)
(* A worker that holds no shard cancels the context, or ends.              *)
(***************************************************************************)
LEMMA IdleStep ==
  ASSUME EngineInv, NEW w \in Workers, Abort(w) \/ WorkerEnds(w)
  PROVE  EngineInv'
<1> DEFINE s == IF worker[w].st = "failed" THEN "idle" ELSE "ended"
<1>1. /\ TypeOK /\ ~Busy(w) /\ worker' = [worker EXCEPT ![w].st = s]
      /\ UNCHANGED <<plan, main, fed, shards, interrupted>>
  BY DEF EngineInv, Abort, WorkerEnds, Busy
<1>2. canceled' \in BOOLEAN /\ (canceled => canceled')
  BY <1>1, Zenon DEF TypeOK, Abort, WorkerEnds
<1>3. canceled' /\ ~canceled =>
        FailFast /\ worker[w].job \in Shards /\ results[worker[w].job] = "failed"
  BY DEF EngineInv, Holds, Abort, WorkerEnds
<1>4. s \in {"idle", "ended"}
  OBVIOUS
<1> HIDE DEF s
<1>5. /\ Workers' = Workers
      /\ worker' \in [Workers -> [st : {"idle", "taken", "run", "rerun", "ran",
                                        "failed", "ended"},
                                  job : 0..NumShards, ok : BOOLEAN]]
      /\ \A v \in Workers : v # w => worker'[v] = worker[v]
      /\ worker'[w].st = s
  BY <1>1, <1>4, SetState
<1>6. /\ Shards' = Shards /\ NumShards' = NumShards /\ DoRetry' = DoRetry
      /\ FailFast' = FailFast
  BY <1>1 DEF plan, Shards, NumShards, DoRetry, FailFast
<1>7. TypeOK'
  BY <1>1, <1>2, <1>5, <1>6 DEF TypeOK, plan, shards
<1>8. \A v \in Workers : (Busy(v)' <=> Busy(v)) /\ (Busy(v) => v # w)
  BY <1>1, <1>4, <1>5 DEF Busy
<1>9. OneWorkerPerShard' /\ FailsOnlyAfterRetry'
  BY <1>1, <1>2, <1>5, <1>6, <1>8
  DEF OneWorkerPerShard, FailsOnlyAfterRetry, EngineInv, shards
<1>10. ASSUME NEW v \in Workers PROVE Holds(v)'
  <2>1. CASE v = w
    BY <1>4, <1>5, <2>1 DEF Holds, Busy
  <2>2. CASE v # w
    BY <1>1, <1>2, <1>5, <1>6, <2>2 DEF EngineInv, Holds, Busy, shards
  <2> QED BY <2>1, <2>2
<1>11. ASSUME NEW i \in Shards
       PROVE  Settled(i)' \/ \E v \in Workers : Busy(v)' /\ worker'[v].job = i
  <2>1. CASE Settled(i)
    BY <1>1, <1>2, <2>1 DEF Settled, shards
  <2>2. CASE \E v \in Workers : Busy(v) /\ worker[v].job = i
    BY <1>5, <1>8, <2>2
  <2> QED BY <2>1, <2>2 DEF EngineInv
<1>12. canceled' => \/ interrupted'
                    \/ FailFast' /\ \E i \in Shards' : results'[i] = "failed"
  BY <1>1, <1>3, <1>6 DEF EngineInv, shards
<1>13. main \notin {"start", "refused", "returned"}
  <2>1. main # "returned"
    BY DEF EngineInv, Abort, WorkerEnds
  <2>2. CASE WorkerEnds(w)
    BY <2>1, <2>2 DEF WorkerEnds
  <2>3. CASE Abort(w)
    <3>1. worker[w].job \in Shards
      BY <2>3 DEF EngineInv, Holds, Abort
    <3> QED BY <1>1, <2>1, <3>1 DEF TypeOK, Shards
  <2> QED BY <2>2, <2>3
<1> QED
  BY <1>1, <1>2, <1>5, <1>6, <1>7, <1>9, <1>10, <1>11, <1>12, <1>13
  DEF EngineInv, shards

(***************************************************************************)
(* Every step of the engine preserves the invariant.                       *)
(***************************************************************************)
LEMMA EngineStep ==
  ASSUME EngineInv, [Next]_vars
  PROVE  EngineInv'
<1>1. CASE UNCHANGED vars
  <2>1. UNCHANGED <<spec, discovered, assigned, main, fed, worker, results, starts, last,
                    canceled, interrupted>>
    BY <1>1 DEF vars, plan, shards
  <2>2. SameFanOut
    BY <2>1, Zenon DEF SameFanOut, NumShards, Shards, Workers, DoRetry, FailFast, Busy
  <2>3. TypeOK' = TypeOK
    BY <2>1, <2>2, Zenon DEF TypeOK, SameFanOut
  <2>4. OneWorkerPerShard' = OneWorkerPerShard /\ FailsOnlyAfterRetry' = FailsOnlyAfterRetry
    BY <2>1, <2>2, Zenon DEF OneWorkerPerShard, FailsOnlyAfterRetry, SameFanOut
  <2>5. ASSUME NEW w \in Workers PROVE Holds(w) => Holds(w)'
    <3>1. Busy(w)' = Busy(w) /\ Shards' = Shards /\ DoRetry' = DoRetry /\ FailFast' = FailFast
      BY <2>2, Zenon DEF SameFanOut
    <3> QED BY <2>1, <3>1 DEF Holds
  <2>6. \A i : Settled(i)' = Settled(i)
    BY <2>1, Zenon DEF Settled
  <2> QED BY <2>1, <2>2, <2>3, <2>4, <2>5, <2>6 DEF EngineInv, SameFanOut
<1>2. CASE Begin
  BY <1>2, BeginStep
<1>3. CASE Refuse \/ FeedEnds \/ Return \/ Interrupt
  BY <1>3, MainStep
<1>4. ASSUME NEW w \in Workers, Step(w) PROVE EngineInv'
  <2>1. CASE RunSucceeds(w)
    BY <2>1, EndedStep DEF RunSucceeds
  <2> QED
    BY <1>4, <2>1, FeedStep, TakeStep, RunFailsStep, RecordStep, IdleStep DEF Step
<1> QED BY <1>1, <1>2, <1>3, <1>4 DEF Next, Over

(***************************************************************************)
(* Every shard of Engine.Run is held by one worker or settled, and an      *)
(* abort has a cause.                                                      *)
(***************************************************************************)
THEOREM EngineCorrect == Spec => []EngineInv
BY EngineInit, EngineStep, PTL DEF Spec

(***************************************************************************)
(* The channel hands a shard to one worker of Engine.Run only.             *)
(***************************************************************************)
THEOREM OneWorkerCorrect == Spec => []OneWorkerPerShard
<1>1. EngineInv => OneWorkerPerShard
  BY DEF EngineInv
<1> QED BY <1>1, EngineCorrect, PTL

(***************************************************************************)
(* Under "retry", runOnce reports a failure only after a second run,       *)
(* unless the context was done.                                            *)
(***************************************************************************)
THEOREM RetryCorrect == Spec => []FailsOnlyAfterRetry
<1>1. EngineInv => FailsOnlyAfterRetry
  BY DEF EngineInv
<1> QED BY <1>1, EngineCorrect, PTL

(***************************************************************************)
(* When Engine.Run returns, its results say of every shard whether it was  *)
(* started and how its last run ended.                                     *)
(***************************************************************************)
THEOREM SummaryCorrect == Spec => []SummaryIsHonest
<1>1. EngineInv => SummaryIsHonest
  <2> SUFFICES ASSUME EngineInv, main = "returned", NEW i \in Shards
               PROVE  /\ results[i] = "skipped" <=> starts[i] = 0
                      /\ results[i] = "success" <=> last[i] = "ok"
    BY DEF SummaryIsHonest
  <2>1. Settled(i)
    BY DEF EngineInv, Busy
  <2> QED BY <2>1 DEF Settled
<1> QED BY <1>1, EngineCorrect, PTL

(***************************************************************************)
(* Engine.Run leaves a shard out only after an interrupt or, when it fails *)
(* fast, after a failure that its results show.                            *)
(***************************************************************************)
THEOREM SkipsCorrect == Spec => []SkipsAreExplained
<1>1. EngineInv => SkipsAreExplained
  <2> SUFFICES ASSUME EngineInv, main = "returned", NEW i \in Shards,
                      results[i] = "skipped"
               PROVE  canceled
    BY DEF SkipsAreExplained, EngineInv
  <2>1. Settled(i)
    BY DEF EngineInv, Busy
  <2>2. i < fed => canceled
    BY <2>1 DEF Settled
  <2>3. Shards = Indices(NumShards)
    BY DEF EngineInv, TypeOK, Shards
  <2>4. fed = NumShards => i < fed
    BY <2>3 DEF Indices
  <2> QED BY <2>2, <2>4 DEF EngineInv
<1> QED BY <1>1, EngineCorrect, PTL

(***************************************************************************)
(* Once its context is done, Engine.Run starts no shard, first run or      *)
(* retry.                                                                  *)
(***************************************************************************)
THEOREM AbortCorrect == Spec => NoStartAfterAbort
<1>1. ASSUME EngineInv, [Next]_vars PROVE [canceled => starts' = starts]_vars
  <2> SUFFICES ASSUME Next, canceled PROVE starts' = starts
    BY <1>1
  <2>1. ~Begin
    BY <1>1 DEF Begin, EngineInv
  <2>2. ASSUME NEW w \in Workers, Step(w) PROVE starts' = starts
    BY <2>2 DEF Step, Feed, Take, RunSucceeds, RunFails, Retries, Record, Abort,
                WorkerEnds, shards
  <2> QED
    BY <2>1, <2>2 DEF Next, Refuse, FeedEnds, Return, Interrupt, Over, vars, shards
<1> QED BY <1>1, EngineCorrect, PTL DEF Spec, NoStartAfterAbort
(***************************************************************************)
(* shard.Plan deals every item to the shard of its position modulo the     *)
(* number of shards, which is one of them.                                 *)
(***************************************************************************)
LEMMA Modulo ==
  ASSUME NEW n \in Nat, n > 0, NEW a \in Nat
  PROVE  a % n \in Indices(n) /\ (a < n => a % n = a)
BY Z3 DEF Indices

(***************************************************************************)
(* What Begin has planned is not changed while the engine runs.            *)
(***************************************************************************)
PlanInv ==
  main \notin {"start", "refused"} =>
    /\ assigned = Plan(spec, discovered) /\ NumShards > 0
    /\ spec.discover \/ discovered = 0

\* Planning decides the shards once, and no worker changes their number.
LEMMA PlanStep ==
  ASSUME EngineInv, PlanInv, [Next]_vars
  PROVE  PlanInv'
<1>1. CASE Begin
  BY <1>1 DEF Begin, PlanInv, NumShards
<1>2. CASE Refuse
  BY <1>2 DEF Refuse, PlanInv
<1>3. CASE UNCHANGED plan /\ main # "start" /\ main # "refused"
  BY <1>3 DEF PlanInv, plan, NumShards
<1>4. CASE UNCHANGED <<plan, main>>
  BY <1>4 DEF PlanInv, plan, NumShards
<1>5. ASSUME NEW w \in Workers, Step(w) PROVE UNCHANGED <<plan, main>>
  BY <1>5 DEF Step, Feed, Take, RunSucceeds, RunFails, Record, Abort, WorkerEnds
<1> QED
  BY <1>1, <1>2, <1>3, <1>4, <1>5
  DEF Next, FeedEnds, Return, Interrupt, Over, vars

(***************************************************************************)
(* The fan-out does not lose an item, whatever the number of items and of  *)
(* shards: when every shard has succeeded, the one shard that each item    *)
(* was dealt to has, and no shard was empty.                               *)
(***************************************************************************)
THEOREM SuccessCorrect == Spec => []SuccessIsComplete
<1>1. Init => PlanInv
  BY DEF Init, PlanInv
<1>2. Spec => []PlanInv
  BY <1>1, PlanStep, EngineCorrect, PTL DEF Spec
<1>3. EngineInv /\ PlanInv /\ SummaryIsHonest => SuccessIsComplete
  <2> SUFFICES ASSUME EngineInv, PlanInv, SummaryIsHonest, main = "returned",
                      \A i \in Shards : results[i] = "success"
               PROVE  /\ \A j \in 1..discovered :
                           \E i \in Shards :
                             /\ j \in assigned[i] /\ last[i] = "ok"
                             /\ \A h \in Shards \ {i} : j \notin assigned[h]
                      /\ spec.discover => \A i \in Shards : assigned[i] # {}
    BY DEF SuccessIsComplete
  <2> DEFINE n == NumShards
  <2>1. /\ spec \in Specs /\ discovered \in Nat
        /\ assigned = Plan(spec, discovered) /\ n > 0
        /\ spec.discover \/ discovered = 0
    BY SpecsAssumption DEF EngineInv, TypeOK, PlanInv
  <2>2. n \in Nat
    BY <2>1, CountType DEF NumShards
  <2>3. /\ Shards = Indices(n)
        /\ spec.discover => \A i \in Indices(n) :
                              assigned[i] = Items(i, n, discovered)
    BY <2>1 DEF Plan, Shards, NumShards
  <2>4. \A i \in Shards : last[i] = "ok"
    BY DEF SummaryIsHonest
  <2>5. spec.discover => n <= discovered
    BY <2>1, SpecsAssumption DEF NumShards, ShardCount, ShardSpec
  <2> HIDE DEF n
  <2>6. ASSUME NEW j \in 1..discovered
        PROVE  \E i \in Shards :
                 /\ j \in assigned[i] /\ last[i] = "ok"
                 /\ \A h \in Shards \ {i} : j \notin assigned[h]
    <3>1. spec.discover /\ j - 1 \in Nat
      BY <2>1
    <3>2. (j - 1) % n \in Shards
      BY <2>1, <2>2, <2>3, <3>1, Modulo
    <3>3. QED
      BY <2>3, <2>4, <3>1, <3>2 DEF Items
  <2>7. ASSUME spec.discover, NEW i \in Shards PROVE assigned[i] # {}
    <3>1. i \in Nat /\ i < n
      BY <2>2, <2>3 DEF Indices
    <3>2. i + 1 \in 1..discovered /\ (i + 1) - 1 = i
      BY <2>1, <2>2, <2>5, <2>7, <3>1
    <3>3. i % n = i
      BY <2>1, <2>2, <3>1, Modulo
    <3>4. i + 1 \in Items(i, n, discovered)
      BY <3>2, <3>3 DEF Items
    <3>5. QED
      BY <2>3, <2>7, <3>4
  <2> QED BY <2>6, <2>7
<1> QED BY <1>2, <1>3, EngineCorrect, SummaryCorrect, PTL

=============================================================================
