------------------------------ MODULE Executor ------------------------------
(***************************************************************************)
(* One `dispatcher run` process: run.Executor.Execute                      *)
(* (internal/run/executor.go) and the Save that runRun makes after it, with *)
(* the two goroutines that supervise a handle (the cost sampler and the    *)
(* watchdog heartbeat), the run record they all write, and the machine the *)
(* adapter provisions.                                                     *)
(*                                                                         *)
(* Every saveRun is two steps, a snapshot (ToRecord, under the run's lock) *)
(* and a later write of that snapshot (an atomic rename), because the lock *)
(* is not held across both: pend[g] is the snapshot that goroutine g has   *)
(* taken and not yet written.                                              *)
(*                                                                         *)
(* The adapter is the external world: a call may succeed or fail in every  *)
(* way its interface allows.  Attempt 1 is the first machine, attempt 2    *)
(* the one a transient-failure retry provisions; 0 is the nil handle.      *)
(***************************************************************************)
EXTENDS RunStates, Naturals

CONSTANTS
  Plans,            \* the plans a run may be started with
  MaxStatusErrors,  \* maxConsecutiveStatusErrors
  ArtifactAttempts, \* artifactCollectAttempts
  CleanupTries,     \* maxRetries of attemptCleanup
  StoreFaults       \* whether writing a record may fail

Plan == [approvals : BOOLEAN,  \* RequiredApprovals is not empty
         durable   : BOOLEAN,  \* the adapter is a DurableAdapter
         service   : BOOLEAN,  \* the workload kind is a service
         retry     : BOOLEAN,  \* RetryTransientFailures
         priced    : BOOLEAN,  \* the recommendation has an estimated cost
         budget    : BOOLEAN,  \* MaxEstimatedCostUSD > 0
         timeout   : BOOLEAN,  \* MaxDuration > 0
         outputs   : BOOLEAN]  \* the workload declares outputs

ASSUME ExecutorAssumption ==
  /\ Plans \subseteq Plan
  /\ MaxStatusErrors \in Nat \ {0}
  /\ ArtifactAttempts \in Nat \ {0}
  /\ CleanupTries \in Nat \ {0}
  /\ StoreFaults \in BOOLEAN

Attempts == 1..2
Goroutines == {"main", "sampler", "heartbeat"}

VARIABLES
  plan,        \* the plan of this run
  pc,          \* where Execute (or runRun around it) is
  tries,       \* the counter of the retry loop pc is in
  cleanupDone, \* executeEphemeral's flag of the same name
  panicked,    \* a panic is unwinding to Execute's recover
  run,         \* the in-memory Run
  owed,        \* the attempt seen to complete whose outputs are not retrieved
  sampler,     \* the cost sampler goroutine
  heartbeat,   \* the watchdog heartbeat goroutine
  supervised,  \* the attempt these two are bound to, 0 while provisioning
  pend,        \* the record snapshot each goroutine is about to write
  disk,        \* the run record in the store
  vm,          \* each attempt's machine
  work,        \* each attempt's workload
  ctxDone,     \* the run's context is canceled (signal or timeout)
  overBudget   \* the live cost is above the budget

mainVars == <<pc, tries, cleanupDone, panicked>>
goVars == <<sampler, heartbeat, supervised>>
storeVars == <<pend, disk>>
cloudVars == <<vm, work>>
envVars == <<plan, ctxDone, overBudget>>
world == <<cloudVars, envVars>>
vars == <<mainVars, run, owed, goVars, storeVars, world>>

\* What most steps of Execute leave alone.
others == <<cleanupDone, panicked, goVars, disk, world>>

-----------------------------------------------------------------------------
(***************************************************************************)
(* Run records.                                                            *)
(***************************************************************************)
Record == [state : RunState, handle : 0..2, leak : BOOLEAN]

None == [state |-> "absent", handle |-> 0, leak |-> FALSE]

ToRecord(r) ==
  [state |-> r.state, handle |-> r.handleState, leak |-> r.leak]

NewRun == [state |-> "created", handle |-> 0, handleState |-> 0,
           leak |-> FALSE, retries |-> 0]

SaveRun(g, r) == pend' = [pend EXCEPT ![g] = ToRecord(r)]

(***************************************************************************)
(* atomicWriteLocked renames a complete snapshot over the record.  A write *)
(* that fails is only logged.                                              *)
(***************************************************************************)
Flush(g) ==
  /\ pend[g] # None
  /\ pend' = [pend EXCEPT ![g] = None]
  /\ \/ disk' = pend[g]
     \/ StoreFaults /\ UNCHANGED disk
  /\ UNCHANGED <<mainVars, run, owed, goVars, world>>

(***************************************************************************)
(* PersistHandle: only a durable adapter's state is serializable.          *)
(***************************************************************************)
PersistHandle(r) ==
  [r EXCEPT !.handleState = IF plan.durable THEN r.handle ELSE 0]

-----------------------------------------------------------------------------
(***************************************************************************)
(* Machines and workloads (external).                                      *)
(***************************************************************************)
Exists(v) == vm[v] \in {"up", "halted"}

Busy(v) == vm[v] = "up" /\ work[v] = "running"

\* Terminate signals the workload and reports no error if that fails.
Terminate(v) ==
  \/ UNCHANGED work
  \/ v \in Attempts /\ Busy(v) /\ work' = [work EXCEPT ![v] = "killed"]

WorkloadEnds(v) ==
  /\ Busy(v)
  /\ \E w \in {"ok", "failed", "killed"} : work' = [work EXCEPT ![v] = w]
  /\ UNCHANGED <<mainVars, run, owed, goVars, storeVars, vm, envVars>>

\* The watchdog's deadline passes, or the provider reclaims a spot machine.
MachineHalts(v) ==
  /\ vm[v] = "up"
  /\ vm' = [vm EXCEPT ![v] = "halted"]
  /\ work' = [work EXCEPT ![v] = IF @ = "running" THEN "killed" ELSE @]
  /\ UNCHANGED <<mainVars, run, owed, goVars, storeVars, envVars>>

Cancel ==
  /\ ~ctxDone /\ pc \notin {"done", "crashed"}
  /\ ctxDone' = TRUE
  /\ UNCHANGED <<mainVars, run, owed, goVars, storeVars, cloudVars, plan,
                 overBudget>>

\* ComputeLiveCost grows with elapsed time from Running on.
SpendGrows ==
  /\ plan.budget /\ ~overBudget
  /\ run.state \in {"running", "collecting-artifacts", "reconciling-cost",
                    "cleaning-up"}
  /\ overBudget' = TRUE
  /\ UNCHANGED <<mainVars, run, owed, goVars, storeVars, cloudVars, plan,
                 ctxDone>>

-----------------------------------------------------------------------------
(***************************************************************************)
(* The goroutine that runs Execute is at l and not inside a save.          *)
(***************************************************************************)
At(l) == pc = l /\ pend["main"] = None

(***************************************************************************)
(* The cost sampler.  A stop function cancels it and then waits for it, so *)
(* it is canceled exactly while main waits at one of these places; a tick  *)
(* in flight runs to its end.                                              *)
(***************************************************************************)
SamplerCanceled ==
  \/ ctxDone
  \/ pc \in {"provisioned", "provisionFailed", "retryStopSampler",
             "unwindSampler"}

startCostSampler ==
  sampler' = IF plan.budget \/ plan.priced THEN "idle" ELSE "off"

SamplerTick ==
  /\ sampler = "idle" /\ pend["sampler"] = None /\ ~SamplerCanceled
  /\ sampler' = IF plan.budget /\ overBudget THEN "over" ELSE "within"
  /\ SaveRun("sampler", run)
  /\ UNCHANGED <<mainVars, run, owed, heartbeat, supervised, disk, world>>

\* The budget check follows the save, with the cost computed before it.
SamplerWithin ==
  /\ sampler = "within" /\ pend["sampler"] = None
  /\ sampler' = "idle"
  /\ UNCHANGED <<mainVars, run, owed, heartbeat, supervised, storeVars, world>>

SamplerOver ==
  /\ sampler = "over" /\ pend["sampler"] = None
  /\ sampler' = IF CanTransition(run.state, "budget-exceeded")
                THEN "tripped" ELSE "off"
  /\ run' = [run EXCEPT !.state = Transition(@, "budget-exceeded")]
  /\ UNCHANGED <<mainVars, owed, heartbeat, supervised, storeVars, world>>

\* While provisioning, terminate cancels Execute's context: whether Execute
\* then fails is decided there.
SamplerTerminate ==
  /\ sampler = "tripped"
  /\ Terminate(supervised)
  /\ sampler' = "off"
  /\ UNCHANGED <<mainVars, run, owed, heartbeat, supervised, storeVars, vm,
                 envVars>>

SamplerExit ==
  /\ sampler = "idle" /\ pend["sampler"] = None /\ SamplerCanceled
  /\ sampler' = "off"
  /\ UNCHANGED <<mainVars, run, owed, heartbeat, supervised, storeVars, world>>

(***************************************************************************)
(* The watchdog heartbeat.  A renewal that succeeds saves the run.         *)
(***************************************************************************)
HeartbeatCanceled ==
  ctxDone \/ pc \in {"retryStopHeartbeat", "unwindHeartbeat"}

HeartbeatTick ==
  /\ heartbeat = "idle" /\ pend["heartbeat"] = None /\ ~HeartbeatCanceled
  /\ heartbeat' = IF run.state = "budget-exceeded" THEN "off" ELSE "renewing"
  /\ UNCHANGED <<mainVars, run, owed, sampler, supervised, storeVars, world>>

HeartbeatRenew ==
  /\ heartbeat = "renewing"
  /\ heartbeat' = "idle"
  /\ \/ vm[supervised] = "up" /\ SaveRun("heartbeat", run)
     \/ UNCHANGED pend
  /\ UNCHANGED <<mainVars, run, owed, sampler, supervised, disk, world>>

HeartbeatExit ==
  /\ heartbeat = "idle" /\ pend["heartbeat"] = None /\ HeartbeatCanceled
  /\ heartbeat' = "off"
  /\ UNCHANGED <<mainVars, run, owed, sampler, supervised, storeVars, world>>

-----------------------------------------------------------------------------
(***************************************************************************)
(* Execute up to provisioning.  Moves(l, next, s) is a step of main from l *)
(* to next that leaves the run in state s.                                 *)
(***************************************************************************)
Moves(l, next, s) ==
  /\ At(l)
  /\ pc' = next
  /\ run' = [run EXCEPT !.state = s]
  /\ UNCHANGED <<others, tries, owed>>

BeginPlanning ==
  Moves("created", "validate", Transition(run.state, "planning"))
    /\ UNCHANGED pend

Validate ==
  /\ \/ Moves("validate", "validated", Transition(run.state, "validated"))
     \/ Moves("validate", "return", SetError(run.state, "plan-invalid"))
  /\ UNCHANGED pend

OpenGate ==
  /\ IF plan.approvals
     THEN Moves("validated", "gate",
                Transition(run.state, "awaiting-approval"))
     ELSE Moves("validated", "prepare", Transition(run.state, "preparing"))
  /\ UNCHANGED pend

\* What Gate.Wait returns; module ApprovalGate has the gate itself.
GateDecides ==
  /\ \/ Moves("gate", "prepare", Transition(run.state, "preparing"))
     \/ Moves("gate", "return", SetError(run.state, "approval-denied"))
  /\ UNCHANGED pend

\* Mutant: no save before provisioning.
MutPrepare ==
  \/ /\ Moves("prepare", "provision", Transition(run.state, "running"))
     /\ UNCHANGED pend
  \/ /\ Moves("prepare", "return", SetError(run.state, "package-failed"))
     /\ UNCHANGED pend

\* The record is saved before anything is provisioned.
Prepare ==
  \/ /\ Moves("prepare", "provision", Transition(run.state, "running"))
     /\ SaveRun("main", run')
  \/ /\ Moves("prepare", "return", SetError(run.state, "package-failed"))
     /\ UNCHANGED pend

StartProvisioning ==
  /\ At("provision")
  /\ pc' = "provisioning"
  /\ startCostSampler
  /\ supervised' = 0
  /\ UNCHANGED <<tries, cleanupDone, panicked, run, owed, heartbeat,
                 storeVars, world>>

-----------------------------------------------------------------------------
(***************************************************************************)
(* adapter.Execute, for the first attempt and for the retry.  It creates   *)
(* the machine, then either starts the workload and returns a handle, or   *)
(* fails and tears its machine down, ignoring an error of that teardown.   *)
(***************************************************************************)
Attempt == run.retries + 1

Provisioning == At("provisioning") \/ At("reprovisioning")

CreateMachine ==
  /\ Provisioning
  /\ vm[Attempt] = "absent"
  /\ vm' = [vm EXCEPT ![Attempt] = "up"]
  /\ UNCHANGED <<mainVars, run, owed, goVars, storeVars, work, envVars>>

ProvisionOk ==
  /\ Provisioning
  /\ vm[Attempt] = "up"
  /\ work' = [work EXCEPT ![Attempt] = "running"]
  /\ pc' = IF pc = "provisioning" THEN "provisioned" ELSE "reprovisioned"
  /\ UNCHANGED <<tries, cleanupDone, panicked, run, owed, goVars, storeVars,
                 vm, envVars>>

TornDown(v) ==
  \/ UNCHANGED vm
  \/ vm[v] # "absent" /\ vm' = [vm EXCEPT ![v] = "gone"]

ProvisionFails ==
  /\ Provisioning
  /\ TornDown(Attempt)
  /\ pc' = IF pc = "provisioning" THEN "provisionFailed" ELSE "dump"
  /\ UNCHANGED <<tries, cleanupDone, panicked, run, owed, goVars, storeVars,
                 work, envVars>>

(***************************************************************************)
(* stopProvSampler returns once the sampler has.                           *)
(***************************************************************************)
ProvisionFailed ==
  /\ sampler = "off"
  /\ IF run.state = "budget-exceeded"
     THEN /\ Moves("provisionFailed", "return", run.state)
          /\ SaveRun("main", run)
     ELSE /\ Moves("provisionFailed", "return",
                   SetError(run.state, "provisioning-failed"))
          /\ UNCHANGED pend

Provisioned ==
  /\ At("provisioned") /\ sampler = "off"
  /\ LET r == [run EXCEPT !.handle = 1] IN
       IF run.state = "budget-exceeded"
       THEN /\ pc' = "abortCleanup"
            /\ run' = r
            /\ UNCHANGED pend
       ELSE /\ pc' = IF plan.service /\ plan.durable
                     THEN "detach" ELSE "supervise"
            /\ run' = PersistHandle(r)
            /\ SaveRun("main", run')
  /\ UNCHANGED <<others, tries, owed>>

\* startLongRunning: the first renewal may fail, the run is saved anyway.
Detach ==
  /\ Moves("detach", "return", run.state)
  /\ SaveRun("main", run)

-----------------------------------------------------------------------------
(***************************************************************************)
(* executeEphemeral: superviseHandle and waitForTerminal.                  *)
(***************************************************************************)
Supervise ==
  /\ At("supervise")
  /\ pc' = "firstRenewal"
  /\ startCostSampler
  /\ supervised' = run.handle
  /\ UNCHANGED <<tries, cleanupDone, panicked, run, owed, heartbeat,
                 storeVars, world>>

FirstRenewal ==
  /\ At("firstRenewal")
  /\ pc' = "status"
  /\ tries' = 0
  /\ heartbeat' = IF plan.durable THEN "idle" ELSE "off"
  /\ \/ plan.durable /\ vm[run.handle] = "up" /\ SaveRun("main", run)
     \/ UNCHANGED pend
  /\ UNCHANGED <<cleanupDone, panicked, run, owed, sampler, supervised, disk,
                 world>>

\* Mutant: status errors are polled through for ever.
MutForeverStatusError ==
  /\ At("status")
  /\ tries' = 0
  /\ pc' = "poll"
  /\ UNCHANGED <<others, run, owed, pend>>

StatusError ==
  /\ At("status")
  /\ tries' = IF tries + 1 = MaxStatusErrors THEN 0 ELSE tries + 1
  /\ pc' = IF tries + 1 = MaxStatusErrors THEN "dump" ELSE "poll"
  /\ UNCHANGED <<others, run, owed, pend>>

StatusIs(next) ==
  /\ At("status")
  /\ tries' = 0
  /\ pc' = next
  /\ UNCHANGED <<others, run, pend>>

StatusRunning ==
  StatusIs("poll") /\ Busy(run.handle) /\ UNCHANGED owed

StatusCompleted ==
  /\ StatusIs("collect")
  /\ vm[run.handle] = "up" /\ work[run.handle] = "ok"
  /\ owed' = run.handle

\* An exit code that cannot be read counts as a failure, whatever it was.
StatusFailed ==
  /\ StatusIs("failed") /\ ~Busy(run.handle)
  /\ UNCHANGED owed

PollAgain ==
  ~ctxDone /\ Moves("poll", "status", run.state) /\ UNCHANGED pend

PollCanceled ==
  /\ At("poll") /\ ctxDone
  /\ pc' = "dump"
  /\ tries' = 0
  /\ UNCHANGED <<others, run, owed, pend>>

PollDeadline ==
  /\ At("poll") /\ plan.timeout
  /\ Terminate(run.handle)
  /\ pc' = "dump"
  /\ tries' = 0
  /\ UNCHANGED <<cleanupDone, panicked, run, owed, goVars, storeVars, vm,
                 envVars>>

-----------------------------------------------------------------------------
(***************************************************************************)
(* The transient-failure retry.                                            *)
(***************************************************************************)
externallyStopped ==
  disk # None /\ (disk.state = "stopping" \/ IsTerminal(disk.state))

\* A kill signal, a machine that is gone and an exit code that cannot be read
\* are all classified transient, so any failure may be.
Fails ==
  /\ At("failed")
  /\ \/ /\ plan.retry /\ run.retries = 0
        /\ ~IsTerminal(run.state) /\ ~externallyStopped
        /\ run' = [run EXCEPT !.retries = @ + 1]
        /\ pc' = "retryStopSampler"
     \/ /\ pc' = "dump"
        /\ UNCHANGED run
  /\ UNCHANGED <<others, tries, owed, pend>>

\* Mutant: the retry does not wait for the sampler.
MutRetryStopSampler ==
  Moves("retryStopSampler", "retryStopHeartbeat", run.state)
    /\ UNCHANGED pend

RetryStopSampler ==
  /\ sampler = "off"
  /\ Moves("retryStopSampler", "retryStopHeartbeat", run.state)
  /\ UNCHANGED pend

RetryStopHeartbeat ==
  /\ heartbeat = "off"
  /\ Moves("retryStopHeartbeat", "retryCleanup", run.state)
  /\ UNCHANGED pend

\* The result of this Cleanup is not looked at.
RetryCleanup ==
  /\ At("retryCleanup")
  /\ TornDown(run.handle)
  /\ run' = [run EXCEPT !.handle = 0]
  /\ pc' = "reprovisioning"
  /\ UNCHANGED <<tries, cleanupDone, panicked, owed, goVars, storeVars, work,
                 envVars>>

Reprovisioned ==
  /\ At("reprovisioned")
  /\ run' = PersistHandle([run EXCEPT !.handle = 2])
  /\ SaveRun("main", run')
  /\ pc' = "supervise"
  /\ UNCHANGED <<others, tries, owed>>

-----------------------------------------------------------------------------
(***************************************************************************)
(* collectArtifacts, called at "dump" for the crash dumps of a failed run  *)
(* and at "collect" for the outputs of a completed one.  tries = 0 until   *)
(* the transition to CollectingArtifacts is made, then counts attempts.    *)
(***************************************************************************)
CollectBegin ==
  /\ At("collect") \/ At("dump")
  /\ tries = 0
  /\ run.handle # 0
  /\ CanTransition(run.state, "collecting-artifacts")
  /\ run' = [run EXCEPT !.state = "collecting-artifacts"]
  /\ tries' = 1
  /\ UNCHANGED <<others, pc, owed, pend>>

ArtifactsOk ==
  /\ tries > 0
  /\ ~plan.outputs \/ (vm[run.handle] = "up" /\ ~ctxDone)

ArtifactsFail == tries > 0 /\ plan.outputs

CollectAgain ==
  /\ At("collect") \/ At("dump")
  /\ ArtifactsFail /\ tries < ArtifactAttempts /\ ~ctxDone
  /\ tries' = tries + 1
  /\ UNCHANGED <<others, pc, run, owed, pend>>

\* collectArtifacts returns false.
CollectFails ==
  \/ tries = 0 /\ run.handle = 0
  \/ tries = 0 /\ ~CanTransition(run.state, "collecting-artifacts")
  \/ ArtifactsFail /\ (tries = ArtifactAttempts \/ ctxDone)

Dumped ==
  /\ At("dump")
  /\ ArtifactsOk \/ CollectFails
  /\ run' = [run EXCEPT !.state = SetError(@, "execution-failed")]
  /\ tries' = 0
  /\ pc' = "unwindSampler"
  /\ UNCHANGED <<others, owed, pend>>

Collected ==
  /\ At("collect") /\ ArtifactsOk
  /\ run' = [run EXCEPT !.state = Transition(@, "reconciling-cost")]
  /\ owed' = 0
  /\ tries' = 0
  /\ pc' = "cleanup"
  /\ UNCHANGED <<others, pend>>

\* Mutant: a run without its outputs is cleaned up all the same.
MutNotCollected ==
  /\ At("collect") /\ CollectFails
  /\ run' = [run EXCEPT !.state = Transition(@, "artifact-failed")]
  /\ SaveRun("main", run')
  /\ tries' = 0
  /\ pc' = "unwindSampler"
  /\ UNCHANGED <<others, owed>>

\* The machine is preserved for its outputs: no cleanup follows.
NotCollected ==
  /\ At("collect") /\ CollectFails
  /\ run' = [run EXCEPT !.state = Transition(@, "artifact-failed")]
  /\ SaveRun("main", run')
  /\ tries' = 0
  /\ cleanupDone' = TRUE
  /\ pc' = "unwindSampler"
  /\ UNCHANGED <<panicked, owed, goVars, disk, world>>

-----------------------------------------------------------------------------
(***************************************************************************)
(* attemptCleanup, called at four places.  tries = 0 until the (possibly   *)
(* refused) transition to CleaningUp, then numbers the Cleanup calls.      *)
(***************************************************************************)
CleanupPlaces ==
  {"abortCleanup", "cleanup", "deferredCleanup", "recoverCleanup"}

InCleanup == pc \in CleanupPlaces /\ pend["main"] = None

\* Mutant: nothing is cleaned up once the run has its final state.
MutNothingToClean == run.handle = 0 \/ IsTerminal(run.state)

NothingToClean == run.handle = 0 \/ run.state = "completed"

\* Where each caller goes on, and the save that follows all but the last.
CleanupReturns ==
  /\ tries' = 0
  /\ cleanupDone' = (cleanupDone \/ pc = "cleanup")
  /\ pc' = CASE pc = "cleanup" -> "unwindSampler"
             [] pc = "deferredCleanup" /\ panicked -> "recover"
             [] OTHER -> "return"
  /\ IF pc = "recoverCleanup" THEN UNCHANGED pend ELSE SaveRun("main", run')
  /\ UNCHANGED <<panicked, owed, goVars, disk, work, envVars>>

CleanupSkipped ==
  /\ InCleanup /\ tries = 0 /\ NothingToClean
  /\ UNCHANGED <<run, vm>>
  /\ CleanupReturns

CleanupBegin ==
  /\ InCleanup /\ tries = 0 /\ ~NothingToClean
  /\ run' = [run EXCEPT !.state = Transition(@, "cleaning-up")]
  /\ tries' = 1
  /\ UNCHANGED <<others, pc, owed, pend>>

CleanupOk ==
  /\ InCleanup /\ tries > 0
  /\ vm' = [vm EXCEPT ![run.handle] = "gone"]
  /\ run' = [run EXCEPT !.handle = 0, !.state = Transition(@, "completed")]
  /\ CleanupReturns

\* A destroy that is reported as failed may have happened all the same.
CleanupAgain ==
  /\ InCleanup /\ tries > 0 /\ tries < CleanupTries
  /\ TornDown(run.handle)
  /\ tries' = tries + 1
  /\ UNCHANGED <<pc, cleanupDone, panicked, run, owed, goVars, storeVars,
                 work, envVars>>

\* Mutant: a failed cleanup is not recorded as a leak.
MutCleanupFails ==
  /\ InCleanup /\ tries = CleanupTries
  /\ TornDown(run.handle)
  /\ run' = [run EXCEPT !.state = SetError(@, "cleanup-failed")]
  /\ CleanupReturns

CleanupFails ==
  /\ InCleanup /\ tries = CleanupTries
  /\ TornDown(run.handle)
  /\ run' = [run EXCEPT !.leak = TRUE,
                        !.state = SetError(@, "cleanup-failed")]
  /\ CleanupReturns

-----------------------------------------------------------------------------
(***************************************************************************)
(* Unwinding executeEphemeral: the deferred sup.stop runs first, then the  *)
(* deferred cleanup; then Execute's recover, if a panic is unwinding.      *)
(***************************************************************************)
\* Mutant: sup.stop does not wait for the sampler.
MutSamplerJoined == TRUE

SamplerJoined == sampler = "off"

UnwindSampler ==
  /\ SamplerJoined
  /\ Moves("unwindSampler", "unwindHeartbeat", run.state)
  /\ UNCHANGED pend

UnwindHeartbeat ==
  /\ heartbeat = "off"
  /\ Moves("unwindHeartbeat",
           CASE ~cleanupDone -> "deferredCleanup"
             [] cleanupDone /\ panicked -> "recover"
             [] OTHER -> "return",
           run.state)
  /\ UNCHANGED pend

(***************************************************************************)
(* An adapter call panics, at most once.  Before executeEphemeral and in   *)
(* its deferred cleanup only Execute's recover is deferred (a provisioning *)
(* sampler is left running); in the first renewal the cleanup is too, and  *)
(* from then on also sup.stop.                                             *)
(***************************************************************************)
Panic ==
  /\ ~panicked
  /\ \/ /\ At("validate") \/ At("prepare") \/ At("provisioning")
           \/ At("detach")
           \/ (tries > 0 /\ (At("abortCleanup") \/ At("deferredCleanup")))
        /\ pc' = "recover"
     \/ /\ At("firstRenewal")
        /\ pc' = "deferredCleanup"
     \/ /\ At("status") \/ At("failed") \/ At("retryCleanup")
           \/ At("reprovisioning")
           \/ (tries > 0 /\ (At("collect") \/ At("dump") \/ At("cleanup")))
        /\ pc' = "unwindSampler"
  /\ IF Provisioning THEN TornDown(Attempt) ELSE UNCHANGED vm
  /\ panicked' = TRUE
  /\ tries' = 0
  /\ UNCHANGED <<cleanupDone, run, owed, goVars, storeVars, work, envVars>>

Recover ==
  /\ Moves("recover", "recoverCleanup",
           SetError(run.state, "execution-failed"))
  /\ SaveRun("main", run')

(***************************************************************************)
(* runRun: the last Save, then the process exits, whatever else is running.*)
(***************************************************************************)
Return ==
  /\ Moves("return", "exit", run.state)
  /\ SaveRun("main", run)

Quiet == [g \in Goroutines |-> None]

Exit ==
  /\ At("exit")
  /\ pc' = "done"
  /\ sampler' = "off" /\ heartbeat' = "off" /\ pend' = Quiet
  /\ UNCHANGED <<tries, cleanupDone, panicked, run, owed, supervised, disk,
                 world>>

\* The process is killed or its host fails.
Crash ==
  /\ pc \notin {"done", "crashed"}
  /\ pc' = "crashed"
  /\ sampler' = "off" /\ heartbeat' = "off" /\ pend' = Quiet
  /\ UNCHANGED <<tries, cleanupDone, panicked, run, owed, supervised, disk,
                 world>>

Stopped == pc \in {"done", "crashed"} /\ UNCHANGED vars

-----------------------------------------------------------------------------
Init ==
  /\ plan \in Plans
  /\ pc = "created" /\ tries = 0 /\ cleanupDone = FALSE /\ panicked = FALSE
  /\ run = NewRun
  /\ owed = 0
  /\ sampler = "off" /\ heartbeat = "off" /\ supervised = 0
  /\ pend = Quiet /\ disk = None
  /\ vm = [v \in Attempts |-> "absent"]
  /\ work = [v \in Attempts |-> "idle"]
  /\ ctxDone = FALSE /\ overBudget = FALSE

MainStep ==
  \/ BeginPlanning \/ Validate \/ OpenGate \/ GateDecides \/ Prepare
  \/ StartProvisioning \/ CreateMachine \/ ProvisionOk \/ ProvisionFails
  \/ ProvisionFailed \/ Provisioned \/ Detach
  \/ Supervise \/ FirstRenewal
  \/ StatusError \/ StatusRunning \/ StatusCompleted \/ StatusFailed
  \/ PollAgain \/ PollCanceled \/ PollDeadline
  \/ Fails \/ RetryStopSampler \/ RetryStopHeartbeat \/ RetryCleanup
  \/ Reprovisioned
  \/ CollectBegin \/ CollectAgain \/ Dumped \/ Collected \/ NotCollected
  \/ CleanupSkipped \/ CleanupBegin \/ CleanupOk \/ CleanupAgain
  \/ CleanupFails
  \/ UnwindSampler \/ UnwindHeartbeat \/ Recover \/ Return \/ Exit

SamplerStep ==
  \/ SamplerTick \/ SamplerWithin \/ SamplerOver \/ SamplerTerminate
  \/ SamplerExit

HeartbeatStep == HeartbeatTick \/ HeartbeatRenew \/ HeartbeatExit

EnvironmentStep ==
  \/ \E v \in Attempts : WorkloadEnds(v) \/ MachineHalts(v)
  \/ Cancel \/ SpendGrows \/ Panic \/ Crash

Next ==
  \/ MainStep \/ SamplerStep \/ HeartbeatStep
  \/ \E g \in Goroutines : Flush(g)
  \/ EnvironmentStep
  \/ Stopped

Spec == Init /\ [][Next]_vars

(***************************************************************************)
(* The Go scheduler runs every goroutine that can run, a write returns,    *)
(* and a workload does not run forever.                                    *)
(***************************************************************************)
Fairness ==
  /\ WF_vars(MainStep) /\ WF_vars(SamplerStep) /\ WF_vars(HeartbeatStep)
  /\ \A g \in Goroutines : WF_vars(Flush(g))
  /\ \A v \in Attempts : WF_vars(WorkloadEnds(v))

FairSpec == Spec /\ Fairness

-----------------------------------------------------------------------------
Labels ==
  {"created", "validate", "validated", "gate", "prepare", "provision",
   "provisioning", "provisioned", "provisionFailed", "detach", "supervise",
   "firstRenewal", "status", "poll", "failed", "retryStopSampler",
   "retryStopHeartbeat", "retryCleanup", "reprovisioning", "reprovisioned",
   "dump", "collect", "unwindSampler", "unwindHeartbeat", "recover", "return",
   "exit", "done", "crashed"} \cup CleanupPlaces

SupervisedLabels ==
  {"firstRenewal", "status", "poll", "failed", "retryStopSampler",
   "retryStopHeartbeat", "retryCleanup", "dump", "collect", "cleanup",
   "unwindSampler", "unwindHeartbeat", "deferredCleanup"}

Run == [state : RunState, handle : 0..2, handleState : 0..2, leak : BOOLEAN,
        retries : 0..1]

(***************************************************************************)
(* Every variable has its type; in particular a run holds at most its      *)
(* second machine (RetryCount is 0 or 1).                                  *)
(***************************************************************************)
TypeOK ==
  /\ plan \in Plans
  /\ pc \in Labels
  /\ tries \in Nat
  /\ cleanupDone \in BOOLEAN /\ panicked \in BOOLEAN
  /\ run \in Run
  /\ owed \in 0..2
  /\ sampler \in {"off", "idle", "within", "over", "tripped"}
  /\ heartbeat \in {"off", "idle", "renewing"}
  /\ supervised \in 0..2
  /\ pend \in [Goroutines -> Record \cup {None}]
  /\ disk \in Record \cup {None}
  /\ vm \in [Attempts -> {"absent", "up", "halted", "gone"}]
  /\ work \in [Attempts -> {"idle", "running", "ok", "failed", "killed"}]
  /\ ctxDone \in BOOLEAN /\ overBudget \in BOOLEAN

(***************************************************************************)
(* While a run is not final, every machine it has created is covered by a  *)
(* record on disk that is not final either, so `dispatcher gc`, which      *)
(* takes an absent or final record for an orphan, cannot take the machine  *)
(* of a live run: the reason Execute gives for saving before provisioning. *)
(***************************************************************************)
ActiveRunIsOnRecord ==
  (\E v \in Attempts : Exists(v)) /\ ~IsTerminal(run.state)
    => disk # None /\ ~IsTerminal(disk.state)

(***************************************************************************)
(* From the first renewal of a handle until executeEphemeral has returned, *)
(* the record on disk names the machine the run holds, so a crash at any   *)
(* of these points leaves a run that stop and status can reconnect to.  No *)
(* snapshot taken for an earlier handle may still be written over it.      *)
(***************************************************************************)
SupervisedHandleIsOnRecord ==
  plan.durable /\ run.handle # 0 /\ pc \in SupervisedLabels
    => disk.handle = run.handle

(***************************************************************************)
(* A process that exits leaves on disk what it holds in memory: no write   *)
(* of a goroutine lands after the last save.                               *)
(***************************************************************************)
ExitedRecordIsCurrent ==
  pc = "done" /\ ~panicked => disk = ToRecord(run)

(***************************************************************************)
(* Two machines of one run never execute the workload at the same time: a  *)
(* retry starts only after a definite failure of the first attempt, never  *)
(* because its status could not be read.                                   *)
(***************************************************************************)
NoDoubleExecution ==
  \A v, w \in Attempts : Busy(v) /\ Busy(w) => v = w

(***************************************************************************)
(* A process that exits leaves no workload running, except one it detached *)
(* from (a service on a durable target) or one whose failed teardown is    *)
(* recorded as a leak.                                                     *)
(***************************************************************************)
NoSilentRunaway ==
  pc = "done" =>
    \A v \in Attempts :
      Busy(v) => run.leak \/ (plan.service /\ plan.durable)

(***************************************************************************)
(* A machine whose workload the executor has seen complete is not          *)
(* destroyed before its outputs are retrieved (a panic excepted).          *)
(***************************************************************************)
OutputsOutliveMachine ==
  [][\A v \in Attempts :
       vm[v] # "gone" /\ vm'[v] = "gone" => owed # v \/ panicked]_vars

(***************************************************************************)
(* The executor and its sampler, acting on the run concurrently, implement *)
(* the run state machine.                                                  *)
(***************************************************************************)
Lifecycle == INSTANCE RunLifecycle WITH state <- run.state

ImplementsLifecycle == Lifecycle!Spec

(***************************************************************************)
(* Once it provisions, Execute returns: the joins of the sampler and the   *)
(* heartbeat, the poll loop and the bounded retries all end.               *)
(***************************************************************************)
ExecuteReturns == pc = "provision" ~> pc \in {"done", "crashed"}

(***************************************************************************)
(* executeEphemeral does not return with a handle it has not tried to      *)
(* clean up (executor.go:337, "GUARANTEED CLEANUP"), except that of an     *)
(* ArtifactFailed run, whose machine is kept for its outputs, and that of  *)
(* a run whose budget tripped once its workload was over: then             *)
(* collectArtifacts is refused its transition, which counts as lost        *)
(* outputs, and the machine stays without a cleanup.                       *)
(***************************************************************************)
CleanupIsTried ==
  pc = "done" /\ run.handle # 0 /\ ~(plan.service /\ plan.durable)
    => \/ run.leak
       \/ run.state = "artifact-failed"
       \/ run.state = "budget-exceeded" /\ work[run.handle] # "running"

=============================================================================
