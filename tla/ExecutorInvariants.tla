------------------------- MODULE ExecutorInvariants -------------------------
(***************************************************************************)
(* The inductive invariants behind the safety properties of Executor, in   *)
(* layers: each is preserved by every step given the ones before it.       *)
(* Module ExecutorProofs has the proofs.                                   *)
(***************************************************************************)
EXTENDS Executor

(***************************************************************************)
(* The labels at which the sampler may be running, unless a panic unwinds. *)
(***************************************************************************)
SamplerLabels ==
  {"provisioning", "provisioned", "provisionFailed", "firstRenewal", "status",
   "poll", "failed", "retryStopSampler", "dump", "collect", "cleanup",
   "unwindSampler"}

(***************************************************************************)
(* The labels at which the heartbeat may be running: it is always joined.  *)
(***************************************************************************)
HeartbeatLabels ==
  {"status", "poll", "failed", "retryStopSampler", "retryStopHeartbeat",
   "dump", "collect", "cleanup", "unwindSampler", "unwindHeartbeat"}

(***************************************************************************)
(* The labels a panic unwinds through.                                     *)
(***************************************************************************)
PanicLabels ==
  {"recover", "recoverCleanup", "deferredCleanup", "unwindSampler",
   "unwindHeartbeat", "return", "exit", "done", "crashed"}

(***************************************************************************)
(* The labels before the first handle is held, and those of the retry.     *)
(***************************************************************************)
FirstLabels ==
  {"created", "validate", "validated", "gate", "prepare", "provision",
   "provisioning", "provisioned", "provisionFailed"}

RetryLabels ==
  {"retryStopSampler", "retryStopHeartbeat", "retryCleanup",
   "reprovisioning", "reprovisioned"}

(***************************************************************************)
(* The labels after every cleanup that succeeded.                          *)
(***************************************************************************)
LateLabels ==
  {"unwindSampler", "unwindHeartbeat", "deferredCleanup", "recover",
   "recoverCleanup", "return", "exit", "done", "crashed"}

(***************************************************************************)
(* The labels at which the save that precedes provisioning is written.     *)
(***************************************************************************)
SavedLabels ==
  {"provisioning", "provisioned", "provisionFailed", "detach", "supervise",
   "abortCleanup", "reprovisioning", "reprovisioned"} \cup SupervisedLabels

(***************************************************************************)
(* Where the goroutines may be, and which of them may hold a snapshot.     *)
(***************************************************************************)
ControlInv ==
  /\ sampler \in {"off", "tripped"} => pend["sampler"] = None
  /\ heartbeat \in {"off", "renewing"} => pend["heartbeat"] = None
  /\ sampler # "off" => panicked \/ pc \in SamplerLabels
  /\ heartbeat # "off" => pc \in HeartbeatLabels
  /\ panicked => pc \in PanicLabels
  /\ pc \in RetryLabels => run.retries = 1

(***************************************************************************)
(* A live run has no final snapshot anywhere, and nothing exists without a *)
(* record.                                                                 *)
(***************************************************************************)
ActiveInv ==
  /\ ~IsTerminal(run.state) =>
       /\ ~IsTerminal(disk.state)
       /\ \A g \in Goroutines : ~IsTerminal(pend[g].state)
  /\ pc = "provision" => pend["main"] # None \/ disk # None
  /\ pc \in SavedLabels => disk # None
  /\ run.handle # 0 => disk # None
  /\ \A v \in Attempts : vm[v] # "absent" => disk # None

(***************************************************************************)
(* Every snapshot has the handle the run holds serialized, and so has the  *)
(* record unless main is about to write it.                                *)
(***************************************************************************)
HandleInv ==
  /\ \A g \in Goroutines :
       pend[g] # None => pend[g].handle = run.handleState
  /\ disk # None /\ pend["main"] = None /\ pc # "crashed"
       => disk.handle = run.handleState
  /\ pc \in SupervisedLabels => disk.handle = run.handleState
  /\ plan.durable /\ run.handle # 0
       /\ pc \in SupervisedLabels \cup {"supervise"}
       => run.handleState = run.handle

(***************************************************************************)
(* What the last save has written, or is about to write.                   *)
(***************************************************************************)
ExitInv ==
  /\ pc = "exit" /\ ~panicked =>
       IF pend["main"] = None THEN disk = ToRecord(run)
                              ELSE pend["main"] = ToRecord(run)
  /\ pc = "done" /\ ~panicked => pend["main"] = None /\ disk = ToRecord(run)

(***************************************************************************)
(* The second machine is started only by the retry, and the retry is begun *)
(* only when the first has stopped executing.                              *)
(***************************************************************************)
AttemptInv ==
  /\ pc \in FirstLabels => run.retries = 0 /\ run.handle = 0
  /\ pc \in FirstLabels \ {"provisioned"} => work[1] # "running"
  /\ run.retries = 0 => run.handle # 2 /\ work[2] # "running"
  /\ run.retries = 1 => ~Busy(1)
  /\ pc \in {"supervise", "firstRenewal", "status", "poll", "failed", "collect"}
       => run.handle # 0
  /\ pc = "failed" => ~Busy(run.handle)
  /\ pc \in RetryLabels \ {"reprovisioned"} => work[2] # "running"
  /\ pc \in {"reprovisioning", "reprovisioned"} => run.handle = 0

(***************************************************************************)
(* A workload that executes is on the machine the run holds, and is given  *)
(* up only by a cleanup that is recorded as failed or by detaching.        *)
(***************************************************************************)
Excused == run.leak \/ (plan.service /\ plan.durable)

RunawayInv ==
  /\ \A v \in Attempts :
       Busy(v) => \/ run.handle = v
                  \/ pc = "provisioned" \/ pc = "reprovisioned"
                  \/ pc = "crashed"
  /\ pc = "collect" => ~Busy(run.handle)
  /\ pc = "detach" => plan.service /\ plan.durable
  /\ pc \in {"return", "exit", "done"} \/ cleanupDone
       => \A v \in Attempts : Busy(v) => Excused
  /\ run.state = "completed" => run.handle = 0
  /\ run.state = "completed" \/ cleanupDone => pc \in LateLabels

(***************************************************************************)
(* The state the run has reached at each point, up to the end of the       *)
(* supervision: only the sampler may have moved it on.                     *)
(***************************************************************************)
UnderwayLabels ==
  {"provision", "provisioning", "provisioned", "detach", "supervise",
   "firstRenewal", "status", "poll", "failed"} \cup RetryLabels

StateInv ==
  /\ pc = "created" => run.state = "created"
  /\ pc = "validate" => run.state = "planning"
  /\ pc = "validated" => run.state = "validated"
  /\ pc = "gate" => run.state = "awaiting-approval"
  /\ pc = "prepare" => run.state = "preparing"
  /\ pc \in UnderwayLabels \/ (pc = "collect" /\ tries = 0)
       => run.state \in {"running", "budget-exceeded"}
  /\ pc = "collect" /\ tries # 0 => run.state = "collecting-artifacts"
  /\ pc = "collect" => work[run.handle] # "running"

(***************************************************************************)
(* Execute is about to return, or has exempted the handle from the         *)
(* deferred cleanup, with no handle it should have cleaned up.             *)
(***************************************************************************)
Tried ==
  \/ run.handle = 0 \/ run.leak
  \/ plan.service /\ plan.durable
  \/ run.state = "artifact-failed"
  \/ run.state = "budget-exceeded" /\ work[run.handle] # "running"

TriedInv == pc \in {"return", "exit", "done"} \/ cleanupDone => Tried

(***************************************************************************)
(* Outputs that are owed are being collected, or their machine has been    *)
(* exempted from the cleanup.                                              *)
(***************************************************************************)
OutputInv ==
  owed # 0 /\ ~panicked =>
    \/ pc = "collect"
    \/ pc \in {"unwindSampler", "unwindHeartbeat"} /\ cleanupDone
    \/ pc \in {"return", "exit", "done", "crashed"}

(***************************************************************************)
(* The whole of it, without the assumption that every write succeeds and   *)
(* with it.                                                                *)
(***************************************************************************)
ExecutorInv ==
  /\ TypeOK /\ ControlInv /\ AttemptInv /\ RunawayInv /\ StateInv /\ TriedInv
  /\ OutputInv
  /\ ~StoreFaults => ActiveInv /\ HandleInv /\ ExitInv

=============================================================================
