-------------------------- MODULE RunSystemProofs --------------------------
(***************************************************************************)
(* Proofs about RunSystem: what the executor guarantees survives every     *)
(* interleaving with the commands of other processes.  The commands never  *)
(* touch the executor's own variables; they overwrite the record and take  *)
(* machines away, so the layers of ExecutorInvariants that speak of        *)
(* neither the record nor the presence of a machine are kept.              *)
(***************************************************************************)
EXTENDS RunSystem, ExecutorProofs

-----------------------------------------------------------------------------
(***************************************************************************)
(* The invariants.  A machine that a handle names has been started: it has *)
(* been created and its workload launched, neither of which is undone.     *)
(***************************************************************************)
Started(v) == vm[v] # "absent" /\ work[v] # "idle"

Names(h) == h # 0 => Started(h)

(***************************************************************************)
(* Attempt 2 exists only in a retry, which the plan opts into, and what    *)
(* the run or a snapshot of it names has been started.                     *)
(***************************************************************************)
StartInv ==
  /\ pc \in FirstLabels \ {"provisioned"} => work[1] = "idle"
  /\ run.retries = 0 => vm[2] = "absent" /\ work[2] = "idle"
  /\ run.retries = 1 => plan.retry
  /\ pc = "provisioned" => Started(1)
  /\ pc = "reprovisioned" => Started(2)
  /\ Names(run.handle) /\ Names(run.handleState)

SnapshotInv ==
  \A g \in Goroutines :
    /\ Names(pend[g].handle)
    /\ IsTerminal(pend[g].state) => IsTerminal(run.state)

(***************************************************************************)
(* What may have put a final state on the record.                          *)
(***************************************************************************)
Excuse ==
  \/ IsTerminal(run.state)
  \/ \E c \in Stops : Finalized(c)
  \/ Finalized("status")

RecordInv ==
  /\ Names(disk.handle)
  /\ IsTerminal(disk.state) => Excuse

(***************************************************************************)
(* Where each command may be, and what its copy of the record says.  Only  *)
(* a record that is not final is worked on; one that stop has completed is *)
(* of a run whose machine is gone, one that status has made final is of a  *)
(* run whose machine has stopped executing.                                *)
(***************************************************************************)
Written(c) == cmd[c].pc \in {"saving", "saved"}

ClientInv(c) ==
  /\ Names(cmd[c].rec.handle)
  /\ c # "gc" =>
       /\ cmd[c].pc # "sweeping" /\ cmd[c].targets = {}
       /\ cmd[c].pc # "ready" => disk # None /\ cmd[c].rec # None
       /\ cmd[c].pc \in {"connected", "destroying"}
            => cmd[c].rec.handle # 0 /\ ~IsTerminal(cmd[c].rec.state)
       /\ cmd[c].pc = "destroying" => c \in {"stop", "force-stop"}
       /\ cmd[c].pc = "forcing" => c = "force-stop"

OutcomeInv(c) ==
  /\ c = "renew" /\ Written(c) => ~IsTerminal(cmd[c].rec.state)
  /\ c \in {"stop", "force-stop"} /\ Written(c) /\ ~plan.retry
       /\ cmd[c].rec.state = "completed" => vm[1] = "gone"
  /\ c = "status" /\ Written(c) /\ ~plan.retry
       /\ IsTerminal(cmd[c].rec.state) => Started(1) /\ ~Busy(1)

SweepInv(c) ==
  c = "gc" =>
    /\ cmd[c].pc \in {"ready", "connected", "sweeping"}
    /\ cmd[c].targets # {} => cmd[c].pc = "sweeping" /\ Orphaned(cmd[c].rec)
    /\ cmd[c].pc # "ready" /\ IsTerminal(cmd[c].rec.state) => Excuse

CommandInv == \A c \in Commands : ClientInv(c) /\ OutcomeInv(c) /\ SweepInv(c)

ExecutorLayers == ControlInv /\ AttemptInv /\ RunawayInv

SysInv ==
  /\ SysTypeOK /\ ExecutorLayers /\ StartInv /\ SnapshotInv
  /\ RecordInv /\ CommandInv
-----------------------------------------------------------------------------
\* A handle names no machine or one of the two attempts.
LEMMA Handles ==
  /\ Attempts = {1, 2} /\ Attempts \subseteq 0..2
  /\ \A h \in 0..2 : h # 0 => h \in Attempts
  /\ \A r \in Record \cup {None} : r.handle \in 0..2
  /\ \A r \in Record : r.state \in RunState /\ r.handle \in 0..2
<1>1. Attempts = {1, 2} /\ Attempts \subseteq 0..2
  BY DEF Attempts
<1>2. \A h \in 0..2 : h # 0 => h \in Attempts
  BY DEF Attempts
<1>3. \A r \in Record \cup {None} : r.handle \in 0..2
  BY DEF Record, None
<1>4. \A r \in Record : r.state \in RunState /\ r.handle \in 0..2
  BY DEF Record
<1>5. QED
  BY <1>1, <1>2, <1>3, <1>4

\* Both attempts have a machine, there or not.
LEMMA Machines ==
  ASSUME SysTypeOK
  PROVE  1 \in DOMAIN vm /\ 2 \in DOMAIN vm
BY DEF SysTypeOK, TypeOK, Attempts

(***************************************************************************)
(* What a step of the executor does to a machine: it may create it while   *)
(* provisioning, stop it or destroy it.                                    *)
(***************************************************************************)
MachineMoves(v) ==
  \/ vm'[v] = vm[v]
  \/ vm[v] = "absent" /\ vm'[v] = "up" /\ Provisioning /\ v = Attempt
  \/ vm[v] # "absent" /\ vm'[v] \in {"halted", "gone"}

WorkMoves(v) ==
  \/ work'[v] = work[v]
  \/ work'[v] = "running" /\ vm[v] = "up" /\ Provisioning /\ v = Attempt
  \/ work[v] = "running" /\ work'[v] # "idle"

\* A step of the executor moves a machine and its workload forwards only.
LEMMA MachineStep ==
  ASSUME TypeOK, StartInv, [Next]_vars, NEW v \in Attempts
  PROVE  MachineMoves(v) /\ WorkMoves(v) /\ (vm[v] = "gone" => vm'[v] = "gone")
<1>a. /\ run \in Run /\ DOMAIN vm = Attempts /\ DOMAIN work = Attempts
      /\ vm[v] \in {"absent", "up", "halted", "gone"}
  BY DEF TypeOK
<1> USE DEF MachineMoves, WorkMoves, Attempts, At, others, world, mainVars,
      goVars, storeVars, cloudVars, envVars
<1>1. CASE \/ BeginPlanning \/ Validate \/ OpenGate \/ GateDecides \/ Prepare
           \/ StartProvisioning \/ ProvisionFailed \/ Provisioned \/ Detach
           \/ Supervise \/ FirstRenewal
  BY <1>1 DEF BeginPlanning, Moves, Validate, OpenGate, GateDecides, Prepare,
         StartProvisioning, ProvisionFailed, Provisioned, Detach, Supervise,
         FirstRenewal
<1>2. CASE CreateMachine \/ ProvisionOk
  BY <1>2, <1>a DEF CreateMachine, ProvisionOk
<1>3. CASE ProvisionFails
  BY <1>3, <1>a DEF ProvisionFails, TornDown
<1>4. CASE \/ StatusError \/ StatusRunning \/ StatusCompleted \/ StatusFailed
           \/ PollAgain \/ PollCanceled
  BY <1>4 DEF StatusError, StatusRunning, StatusIs, StatusCompleted,
         StatusFailed, PollAgain, PollCanceled, Moves
<1>5. CASE PollDeadline \/ SamplerTerminate
  BY <1>5, <1>a DEF PollDeadline, SamplerTerminate, Terminate, Busy
<1>6. CASE \/ Fails \/ RetryStopSampler \/ RetryStopHeartbeat \/ Reprovisioned
           \/ CollectBegin \/ CollectAgain \/ Dumped \/ Collected
           \/ NotCollected
  BY <1>6 DEF Fails, RetryStopSampler, Moves, RetryStopHeartbeat,
         Reprovisioned, CollectBegin, CollectAgain, Dumped, Collected,
         NotCollected
<1>7. CASE RetryCleanup
  BY <1>7, <1>a DEF RetryCleanup, TornDown
<1>8. CASE CleanupSkipped \/ CleanupBegin
  BY <1>8 DEF CleanupSkipped, CleanupReturns, CleanupBegin
<1>9. CASE CleanupOk
  BY <1>9, <1>a DEF CleanupOk, CleanupReturns, InCleanup, StartInv, Names,
         Started, Run
<1>10. CASE CleanupAgain \/ CleanupFails
  BY <1>10, <1>a DEF CleanupAgain, CleanupFails, CleanupReturns, TornDown
<1>11. CASE \/ UnwindSampler \/ UnwindHeartbeat \/ Recover \/ Return \/ Exit
            \/ Crash \/ Cancel \/ SpendGrows \/ UNCHANGED vars
  BY <1>11 DEF UnwindSampler, Moves, UnwindHeartbeat, Recover, Return, Exit,
         Crash, Cancel, SpendGrows, vars
<1>12. CASE \/ SamplerTick \/ SamplerWithin \/ SamplerOver \/ SamplerExit
            \/ HeartbeatTick \/ HeartbeatRenew \/ HeartbeatExit
  BY <1>12 DEF SamplerTick, SamplerWithin, SamplerOver, SamplerExit,
         HeartbeatTick, HeartbeatRenew, HeartbeatExit
<1>13. ASSUME NEW g \in Goroutines, Flush(g)
       PROVE  vm' = vm /\ work' = work
  BY <1>13 DEF Flush
<1>14. ASSUME NEW w \in Attempts, WorkloadEnds(w) \/ MachineHalts(w)
       PROVE  /\ MachineMoves(v) /\ WorkMoves(v)
              /\ vm[v] = "gone" => vm'[v] = "gone"
  BY <1>14, <1>a DEF WorkloadEnds, MachineHalts, Busy
<1>15. CASE Panic
  BY <1>15, <1>a DEF Panic, TornDown
<1>q. QED
  BY <1>1, <1>2, <1>3, <1>4, <1>5, <1>6, <1>7, <1>8, <1>9, <1>10, <1>11,
     <1>12, <1>13, <1>14, <1>15
     DEF Next, MainStep, SamplerStep, HeartbeatStep, EnvironmentStep, Stopped

(***************************************************************************)
(* What a step of the executor does to the snapshots and the record: a     *)
(* goroutine takes a snapshot of the run as it is before or after the      *)
(* step, and only a snapshot is written.  The plan never changes.          *)
(***************************************************************************)
Snapshots == {ToRecord(run), ToRecord(run'), None}

SnapshotMoves == \A g \in Goroutines : pend'[g] = pend[g] \/ pend'[g] \in Snapshots

\* A step of the executor queues only snapshots of its own record, and writes to
\* the store only what one of its goroutines had queued.
LEMMA SnapshotStep ==
  ASSUME TypeOK, [Next]_vars
  PROVE  /\ SnapshotMoves /\ plan' = plan
         /\ \/ disk' = disk
            \/ \E g \in Goroutines : pend[g] # None /\ disk' = pend[g]
<1>a. DOMAIN pend = Goroutines
  BY DEF TypeOK
<1> USE DEF SnapshotMoves, Snapshots, At, others, world, mainVars, goVars,
      storeVars, cloudVars, envVars
<1>1. CASE \/ BeginPlanning \/ Validate \/ OpenGate \/ GateDecides
           \/ StartProvisioning \/ CreateMachine \/ ProvisionOk
           \/ ProvisionFails \/ Supervise
  BY <1>1 DEF BeginPlanning, Moves, Validate, OpenGate, GateDecides,
         StartProvisioning, CreateMachine, ProvisionOk, ProvisionFails,
         Supervise
<1>2. CASE Prepare \/ ProvisionFailed \/ Provisioned \/ Detach \/ FirstRenewal
  BY <1>2, <1>a DEF Prepare, Moves, ProvisionFailed, Provisioned, Detach,
         FirstRenewal, SaveRun
<1>3. CASE \/ StatusError \/ StatusRunning \/ StatusCompleted \/ StatusFailed
           \/ PollAgain \/ PollCanceled \/ PollDeadline
           \/ Fails \/ RetryStopSampler \/ RetryStopHeartbeat \/ RetryCleanup
  BY <1>3 DEF StatusError, StatusRunning, StatusIs, StatusCompleted,
         StatusFailed, PollAgain, PollCanceled, PollDeadline, Moves, Fails,
         RetryStopSampler, RetryStopHeartbeat, RetryCleanup
<1>4. CASE Reprovisioned \/ NotCollected \/ Recover \/ Return
  BY <1>4, <1>a DEF Reprovisioned, NotCollected, Recover, Return, Moves,
         SaveRun
<1>5. CASE CollectBegin \/ CollectAgain \/ Dumped \/ Collected
  BY <1>5 DEF CollectBegin, CollectAgain, Dumped, Collected
<1>6. CASE CleanupSkipped \/ CleanupOk \/ CleanupFails
  BY <1>6, <1>a DEF CleanupSkipped, CleanupOk, CleanupFails, CleanupReturns,
         SaveRun
<1>7. CASE CleanupBegin \/ CleanupAgain \/ UnwindSampler \/ UnwindHeartbeat
  BY <1>7 DEF CleanupBegin, CleanupAgain, UnwindSampler, UnwindHeartbeat,
         Moves
<1>8. CASE SamplerTick \/ HeartbeatRenew
  BY <1>8, <1>a DEF SamplerTick, HeartbeatRenew, SaveRun
<1>9. CASE \/ SamplerWithin \/ SamplerOver \/ SamplerTerminate \/ SamplerExit
           \/ HeartbeatTick \/ HeartbeatExit
  BY <1>9 DEF SamplerWithin, SamplerOver, SamplerTerminate, SamplerExit,
         HeartbeatTick, HeartbeatExit
<1>10. ASSUME NEW g \in Goroutines, Flush(g)
       PROVE  /\ SnapshotMoves /\ plan' = plan
              /\ disk' = disk \/ (pend[g] # None /\ disk' = pend[g])
  BY <1>10, <1>a DEF Flush
<1>11. ASSUME NEW v \in Attempts, WorkloadEnds(v) \/ MachineHalts(v)
       PROVE  pend' = pend /\ disk' = disk /\ plan' = plan
  BY <1>11 DEF WorkloadEnds, MachineHalts
<1>12. CASE Cancel \/ SpendGrows \/ Panic \/ UNCHANGED vars
  BY <1>12 DEF Cancel, SpendGrows, Panic, vars
<1>13. CASE Exit \/ Crash
  BY <1>13, <1>a DEF Exit, Crash, Quiet
<1>q. QED
  BY <1>1, <1>2, <1>3, <1>4, <1>5, <1>6, <1>7, <1>8, <1>9, <1>10, <1>11,
     <1>12, <1>13
     DEF Next, MainStep, SamplerStep, HeartbeatStep, EnvironmentStep, Stopped
(***************************************************************************)
(* A run that is final stays so: the executor implements the run state     *)
(* machine.                                                                *)
(***************************************************************************)
LEMMA FinalRunStays ==
  ASSUME TypeOK, [Next]_vars, IsTerminal(run.state)
  PROVE  IsTerminal(run'.state)
  BY LifecycleStep, SameStates
     DEF Lifecycle!Next, Lifecycle!Advance, Lifecycle!Fail, CanTransition

(***************************************************************************)
(* A machine that has been started stays so.                               *)
(***************************************************************************)
LEMMA StartedStays ==
  ASSUME TypeOK, StartInv, [Next]_vars, NEW v \in Attempts, Started(v)
  PROVE  Started(v)'
  BY MachineStep DEF Started, MachineMoves, WorkMoves

(***************************************************************************)
(* The first attempt is launched once: when it has stopped executing it    *)
(* stays so.                                                               *)
(***************************************************************************)
LEMMA FirstAttemptStaysOver ==
  ASSUME TypeOK, ControlInv, StartInv, [Next]_vars, Started(1), ~Busy(1)
  PROVE  ~Busy(1)'
<1>1. MachineMoves(1) /\ WorkMoves(1)
  BY MachineStep DEF Attempts
<1>2. run.retries \in 0..1
  BY DEF TypeOK, Run
<1>3. Provisioning => Attempt # 1
  BY <1>2 DEF Provisioning, At, Attempt, StartInv, Started, FirstLabels,
         ControlInv, RetryLabels
<1>4. QED
  BY <1>1, <1>3 DEF Busy, Started, MachineMoves, WorkMoves

-----------------------------------------------------------------------------
(***************************************************************************)
(* StartInv is kept by every step of the executor: the run takes a handle  *)
(* only where adapter.Execute has returned it.                             *)
(***************************************************************************)
LEMMA StartStep ==
  ASSUME TypeOK, ControlInv, AttemptInv, StartInv, [Next]_vars
  PROVE  StartInv'
<1>a. /\ run \in Run /\ DOMAIN vm = Attempts /\ DOMAIN work = Attempts
  BY DEF TypeOK
<1>r. pc \in RetryLabels => run.retries = 1
  BY DEF ControlInv
<1>v. /\ MachineMoves(1) /\ WorkMoves(1)
      /\ MachineMoves(2) /\ WorkMoves(2)
  BY MachineStep DEF Attempts
<1>s. \A h \in 0..2 : Names(h) => Names(h)'
  <2>1. SUFFICES ASSUME NEW h \in 0..2, h # 0, Started(h) PROVE Started(h)'
    BY DEF Names
  <2>2. h \in Attempts
    BY <2>1 DEF Attempts
  <2>3. QED
    BY <2>1, <2>2, StartedStays
<1> USE DEF FirstLabels, Attempts, At, others, world, mainVars, goVars,
      storeVars, cloudVars, envVars
\* A step that neither launches a machine nor moves the handle.
<1>k. ASSUME /\ run'.handle \in {run.handle, 0}
             /\ run'.handleState = run.handleState
             /\ run'.retries = run.retries /\ plan' = plan
             /\ pc' \in FirstLabels \ {"provisioned"}
                  => pc \in FirstLabels \ {"provisioned"}
             /\ pc' # pc => pc' \notin {"provisioned", "reprovisioned"}
             /\ work' = work
             /\ run.retries = 0 => vm'[2] = vm[2]
      PROVE  StartInv'
  <2>1. Names(run.handle)' /\ Names(run.handleState)'
    BY <1>k, <1>s, <1>a DEF StartInv, Names, Run
  <2>2. /\ Started(1) => Started(1)'
        /\ Started(2) => Started(2)'
    BY StartedStays
  <2>3. QED
    BY <1>k, <2>1, <2>2 DEF StartInv
<1>1. CASE \/ BeginPlanning \/ Validate \/ OpenGate \/ GateDecides \/ Prepare
           \/ StartProvisioning \/ ProvisionFailed \/ Detach
  BY <1>1, <1>a, <1>k DEF BeginPlanning, Moves, Validate, OpenGate,
         GateDecides, Prepare, StartProvisioning, ProvisionFailed, Detach, Run
<1>2. CASE CreateMachine
  BY <1>2, <1>a, <1>k DEF CreateMachine, Provisioning, Attempt, Run
<1>3. CASE ProvisionOk
  <2>1. /\ pc = "provisioning" => run.retries = 0
        /\ pc = "reprovisioning" => run.retries = 1
    BY <1>r DEF AttemptInv, RetryLabels
  <2>2. /\ vm[Attempt] = "up" /\ vm' = vm /\ run' = run /\ plan' = plan
        /\ work' = [work EXCEPT ![Attempt] = "running"]
    BY <1>3 DEF ProvisionOk
  <2>3. \/ /\ pc = "provisioning" /\ pc' = "provisioned" /\ Attempt = 1
        \/ /\ pc = "reprovisioning" /\ pc' = "reprovisioned" /\ Attempt = 2
    BY <1>3, <2>1 DEF ProvisionOk, Provisioning, Attempt
  <2>4. Names(run.handle)' /\ Names(run.handleState)'
    BY <1>s, <2>2, <1>a DEF StartInv, Run
  <2>5. QED
    BY <2>1, <2>2, <2>3, <2>4, <1>a DEF StartInv, Started
<1>4. CASE ProvisionFails
  BY <1>4, <1>a, <1>k DEF ProvisionFails, Provisioning, TornDown, StartInv
<1>5. CASE Provisioned
  <2>1. /\ run'.handle = 1 /\ run'.retries = run.retries
        /\ run'.handleState \in {run.handleState, 0, 1}
    BY <1>5, ProvisionedRun, <1>a DEF Provisioned, PersistHandle, Run
  <2>2. Started(1)' /\ pc' \notin FirstLabels \cup {"reprovisioned"}
    BY <1>5, StartedStays DEF Provisioned, StartInv
  <2>3. Names(run.handle)' /\ Names(run.handleState)'
    BY <2>1, <2>2, <1>s, <1>a DEF StartInv, Names, Run
  <2>4. QED
    BY <1>5, <2>1, <2>2, <2>3 DEF Provisioned, StartInv
<1>6. CASE Supervise \/ FirstRenewal
  BY <1>6, <1>a, <1>k DEF Supervise, FirstRenewal, Run
<1>7. CASE \/ StatusError \/ StatusRunning \/ StatusCompleted \/ StatusFailed
           \/ PollAgain \/ PollCanceled
  BY <1>7, <1>a, <1>k DEF StatusError, StatusRunning, StatusIs,
         StatusCompleted, StatusFailed, PollAgain, PollCanceled, Moves, Run
\* A step that ends workloads.
<1>w. ASSUME /\ run'.handle = run.handle /\ run'.handleState = run.handleState
             /\ run'.retries = run.retries /\ plan' = plan /\ vm' = vm
             /\ pc' = pc \/ pc' \notin FirstLabels \cup {"reprovisioned"}
             /\ \A v \in Attempts : work'[v] = work[v] \/ work[v] = "running"
      PROVE  StartInv'
  <2>1. Names(run.handle)' /\ Names(run.handleState)'
    BY <1>w, <1>s, <1>a DEF StartInv, Names, Run
  <2>2. /\ Started(1) => Started(1)'
        /\ Started(2) => Started(2)'
    BY StartedStays
  <2>3. QED
    BY <1>w, <2>1, <2>2 DEF StartInv
<1>8. CASE PollDeadline \/ SamplerTerminate
  BY <1>8, <1>a, <1>w DEF PollDeadline, SamplerTerminate, Terminate, Busy
<1>9. CASE Fails
  <2>1. /\ run'.handle = run.handle /\ run'.handleState = run.handleState
        /\ run'.retries = run.retries \/ (run'.retries = 1 /\ plan.retry)
        /\ plan' = plan /\ vm' = vm /\ work' = work
        /\ pc' \in {"retryStopSampler", "dump"}
    BY <1>9, <1>a DEF Fails, Run
  <2>2. Names(run.handle)' /\ Names(run.handleState)'
    BY <2>1, <1>s, <1>a DEF StartInv, Names, Run
  <2>3. QED
    BY <2>1, <2>2 DEF StartInv
<1>10. CASE RetryStopSampler \/ RetryStopHeartbeat
  BY <1>10, <1>a, <1>k DEF RetryStopSampler, Moves, RetryStopHeartbeat, Run
<1>11. CASE RetryCleanup
  BY <1>11, <1>a, <1>k, <1>r DEF RetryCleanup, Run, RetryLabels
<1>12. CASE Reprovisioned
  <2>1. /\ run'.handle = 2 /\ run'.retries = run.retries
        /\ run'.handleState \in {0, 2}
    BY <1>12, ReprovisionedRun, <1>a DEF Reprovisioned, PersistHandle, Run
  <2>2. Started(2)' /\ run.retries = 1
    BY <1>12, StartedStays, <1>r DEF Reprovisioned, StartInv, RetryLabels
  <2>3. Names(run.handle)' /\ Names(run.handleState)'
    BY <2>1, <2>2 DEF Names
  <2>4. QED
    BY <1>12, <2>1, <2>2, <2>3 DEF Reprovisioned, StartInv
<1>13. CASE \/ CollectBegin \/ CollectAgain \/ Dumped \/ Collected
            \/ NotCollected
  BY <1>13, <1>a, <1>k DEF CollectBegin, CollectAgain, Dumped, Collected,
         NotCollected, Run
<1>14. CASE CleanupSkipped \/ CleanupBegin
  BY <1>14, <1>a, <1>k DEF CleanupSkipped, CleanupReturns, CleanupBegin, Run
\* A cleanup takes only a machine that is there.
<1>c. run.retries = 0 /\ vm'[2] # vm[2] => Provisioning
  BY <1>v DEF StartInv, MachineMoves
<1>15. CASE CleanupOk
  BY <1>15, <1>c, <1>k, CleanupOkRun DEF CleanupOk, CleanupReturns, InCleanup,
         CleanupPlaces, Provisioning
<1>16. CASE CleanupAgain
  BY <1>16, <1>c, <1>k DEF CleanupAgain, InCleanup, CleanupPlaces,
         Provisioning
<1>17. CASE CleanupFails
  BY <1>17, <1>c, <1>k, CleanupFailsRun DEF CleanupFails, CleanupReturns,
         InCleanup, CleanupPlaces, Provisioning
<1>18. CASE \/ UnwindSampler \/ UnwindHeartbeat \/ Recover \/ Return \/ Exit
            \/ Crash \/ Cancel \/ SpendGrows \/ UNCHANGED vars
  BY <1>18, <1>a, <1>k DEF UnwindSampler, Moves, UnwindHeartbeat, Recover,
         Return, Exit, Crash, Cancel, SpendGrows, vars, Run
<1>19. CASE \/ SamplerTick \/ SamplerWithin \/ SamplerOver \/ SamplerExit
            \/ HeartbeatTick \/ HeartbeatRenew \/ HeartbeatExit
  BY <1>19, <1>a, <1>k DEF SamplerTick, SamplerWithin, SamplerOver,
         SamplerExit, HeartbeatTick, HeartbeatRenew, HeartbeatExit, Run
<1>20. ASSUME NEW g \in Goroutines, Flush(g) PROVE StartInv'
  BY <1>20, <1>k DEF Flush
<1>21. ASSUME NEW v \in Attempts, WorkloadEnds(v) PROVE StartInv'
  BY <1>21, <1>a, <1>w DEF WorkloadEnds, Busy
<1>22. ASSUME NEW v \in Attempts, MachineHalts(v) PROVE StartInv'
  <2>1. /\ run' = run /\ plan' = plan /\ pc' = pc
        /\ run.retries = 0 => v = 1
    BY <1>22 DEF MachineHalts, StartInv
  <2>2. Names(run.handle)' /\ Names(run.handleState)'
    BY <2>1, <1>s, <1>a DEF StartInv, Run
  <2>3. /\ Started(1) => Started(1)'
        /\ Started(2) => Started(2)'
    BY StartedStays
  <2>4. \A w \in Attempts : work[w] = "idle" => work'[w] = "idle"
    BY <1>22, <1>a DEF MachineHalts
  <2>5. run.retries = 0 => vm'[2] = vm[2]
    BY <1>22, <2>1, <1>a DEF MachineHalts
  <2>6. QED
    BY <2>1, <2>2, <2>3, <2>4, <2>5 DEF StartInv
<1>23. CASE Panic
  BY <1>23, <1>a, <1>k DEF Panic, TornDown, Provisioning, Attempt, StartInv
<1>q. QED
  BY <1>1, <1>2, <1>3, <1>4, <1>5, <1>6, <1>7, <1>8, <1>9, <1>10, <1>11,
     <1>12, <1>13, <1>14, <1>15, <1>16, <1>17, <1>18, <1>19, <1>20, <1>21,
     <1>22, <1>23
     DEF Next, MainStep, SamplerStep, HeartbeatStep, EnvironmentStep, Stopped
(***************************************************************************)
(* A snapshot names what the run named when it was taken, and is final     *)
(* only of a final run.                                                    *)
(***************************************************************************)
LEMMA SnapshotInvStep ==
  ASSUME TypeOK, StartInv, SnapshotInv, [Next]_vars, TypeOK', StartInv'
  PROVE  SnapshotInv'
<1> SUFFICES ASSUME NEW g \in Goroutines
             PROVE  /\ Names(pend[g].handle)'
                    /\ IsTerminal(pend'[g].state) => IsTerminal(run'.state)
  BY DEF SnapshotInv
<1>a. run \in Run /\ run' \in Run /\ pend[g] \in Record \cup {None}
  BY DEF TypeOK
<1>b. \A h \in 0..2 : Names(h) => Names(h)'
  <2>1. SUFFICES ASSUME NEW h \in 0..2, h # 0, Started(h) PROVE Started(h)'
    BY DEF Names
  <2>2. h \in Attempts
    BY <2>1 DEF Attempts
  <2>3. QED
    BY <2>1, <2>2, StartedStays
<1>c. IsTerminal(run.state) => IsTerminal(run'.state)
  BY FinalRunStays
<1>1. CASE pend'[g] = pend[g]
  <2>1. pend[g].handle \in 0..2
    BY <1>a DEF Record, None
  <2>2. QED
    BY <1>1, <1>b, <1>c, <2>1 DEF SnapshotInv, Names
<1>2. CASE pend'[g] = ToRecord(run)
  <2>1. run.handleState \in 0..2
    BY <1>a DEF Run
  <2>2. QED
    BY <1>2, <1>a, <1>b, <1>c, <2>1, ToRecordType DEF StartInv, Names
<1>3. CASE pend'[g] = ToRecord(run')
  BY <1>3, <1>a, ToRecordType DEF StartInv, Names
<1>4. CASE pend'[g] = None
  BY <1>4 DEF None, Names, IsTerminal, TerminalStates, FailureStates
<1>5. QED
  BY <1>1, <1>2, <1>3, <1>4, SnapshotStep DEF SnapshotMoves, Snapshots

-----------------------------------------------------------------------------
(***************************************************************************)
(* The steps of the commands.                                              *)
(***************************************************************************)
CommandStep ==
  \/ \E c \in Commands :
       \/ ReconnectToRun(c) \/ StopTerminate(c) \/ StopCleanup(c)
       \/ ForceStop(c) \/ Save(c)
  \/ Refresh \/ RenewWatchdog
  \/ GcReadRecords \/ GcListResources \/ \E v \in Attempts : GcDestroy(v)

Copies == [pc : CmdLabels, rec : Record \cup {None}, targets : SUBSET Attempts]

\* What a command changes of the commands: its own label and its own copy.
LEMMA CmdToEffect ==
  ASSUME SysTypeOK, NEW c \in Commands, NEW l \in CmdLabels,
         NEW rec \in Record \cup {None}, CmdTo(c, l, rec)
  PROVE  /\ Commands' = Commands /\ cmd' \in [Commands -> Copies]
         /\ cmd'[c].pc = l /\ cmd'[c].rec = rec
         /\ cmd'[c].targets = cmd[c].targets
         /\ \A d \in Commands : d # c => cmd'[d] = cmd[d]
<1>1. cmd \in [Commands -> Copies]
  BY DEF SysTypeOK, Copies
<1> HIDE DEF CmdLabels, Record, None
<1>2. QED
  BY <1>1 DEF CmdTo, Commands, Copies

(***************************************************************************)
(* The commands are those of InvocationsAssumption.                        *)
(***************************************************************************)
LEMMA CommandNames ==
  ASSUME SysTypeOK
  PROVE  Commands \subseteq {"stop", "force-stop", "status", "renew", "gc"}
  BY InvocationsAssumption DEF SysTypeOK, TypeOK

(***************************************************************************)
(* A record whose state is replaced by another is a record of the same     *)
(* handle.                                                                 *)
(***************************************************************************)
LEMMA RecordState ==
  ASSUME NEW rec \in Record, NEW s \in RunState
  PROVE  LET r == [rec EXCEPT !.state = s] IN
         r \in Record /\ r # None /\ r.state = s /\ r.handle = rec.handle
  BY DEF Record, None, RunState, ActiveStates, TerminalStates, FailureStates

(***************************************************************************)
(* Whatever stop does, the state of its copy is made final only at its     *)
(* end.                                                                    *)
(***************************************************************************)
LEMMA StoppingIsActive ==
  ASSUME NEW s \in RunState, ~IsTerminal(s)
  PROVE  /\ ~IsTerminal(Transition(s, "stopping"))
         /\ ~IsTerminal(Transition(Transition(s, "stopping"), "cleaning-up"))
         /\ SetError(s, "cleanup-failed") = "cleanup-failed"
  BY DEF Transition, SetError, IsTerminal, TerminalStates, FailureStates
-----------------------------------------------------------------------------
(***************************************************************************)
(* What no step, of the executor or of a command, takes back.              *)
(***************************************************************************)
Keeps ==
  /\ \A v \in Attempts : Started(v) => Started(v)'
  /\ vm[1] = "gone" => vm'[1] = "gone"
  /\ Started(1) /\ ~Busy(1) => ~Busy(1)'
  /\ disk # None => disk' # None
  /\ Excuse => Excuse'
  /\ plan' = plan /\ Commands' = Commands

\* A command that only takes machines away keeps it.
LEMMA LossKeeps ==
  ASSUME \A v \in Attempts : vm'[v] = vm[v] \/ (vm[v] # "absent" /\ vm'[v] = "gone"),
         UNCHANGED <<work, plan>>, Commands' = Commands,
         disk # None => disk' # None, Excuse => Excuse'
  PROVE  Keeps
<1>1. \A v \in Attempts : Started(v) => Started(v)'
  BY DEF Started
<1>2. \A v \in Attempts : Busy(v)' => Busy(v)
  BY DEF Busy
<1>3. vm[1] = "gone" => vm'[1] = "gone"
  BY Handles
<1>4. QED
  BY <1>1, <1>2, <1>3, Handles DEF Keeps

\* Nothing un-starts a machine that a handle names.
LEMMA NamesKept ==
  ASSUME Keeps, NEW h \in 0..2, Names(h)
  PROVE  Names(h)'
<1>1. CASE h = 0
  BY <1>1 DEF Names
<1>2. CASE h \in Attempts
  BY <1>2 DEF Names, Keeps
<1>3. QED
  BY <1>1, <1>2 DEF Attempts

(***************************************************************************)
(* So what is known of a command that does not move stays true.            *)
(***************************************************************************)
LEMMA OthersKept ==
  ASSUME SysTypeOK, Keeps, NEW c \in Commands, cmd'[c] = cmd[c],
         ClientInv(c), OutcomeInv(c), SweepInv(c)
  PROVE  ClientInv(c)' /\ OutcomeInv(c)' /\ SweepInv(c)'
<1>1. cmd[c].rec.handle \in 0..2
  <2>1. cmd[c].rec \in Record \cup {None}
    BY DEF SysTypeOK
  <2>2. QED
    BY <2>1 DEF Record, None
<1>2. ClientInv(c)'
  BY <1>1, NamesKept DEF ClientInv, Names, Keeps
<1>3. OutcomeInv(c)'
  BY Handles, Zenon DEF OutcomeInv, Written, Keeps
<1>4. SweepInv(c)'
  BY DEF SweepInv, Keeps
<1>5. QED
  BY <1>2, <1>3, <1>4

(***************************************************************************)
(* A command that is done is not moved, so a final record stays excused.   *)
(***************************************************************************)
LEMMA ExcuseKept ==
  ASSUME NEW c \in Commands, Commands' = Commands, cmd[c].pc # "saved",
         \A d \in Commands : d # c => cmd'[d] = cmd[d],
         run' = run, Excuse
  PROVE  Excuse'
  BY DEF Excuse, Finalized, Stops

(***************************************************************************)
(* The step of one command that leaves its machines alone.                 *)
(***************************************************************************)
LEMMA Untouched ==
  ASSUME SysTypeOK, UNCHANGED <<run, vm, work, plan>>,
         NEW c \in Commands, cmd[c].pc # "saved",
         Commands' = Commands, \A d \in Commands : d # c => cmd'[d] = cmd[d],
         disk # None => disk' # None
  PROVE  Keeps
  BY ExcuseKept DEF Keeps, Started, Busy

\* When one command moves, the others keep what they know.
LEMMA OneMoves ==
  ASSUME SysTypeOK, CommandInv, Keeps, NEW c \in Commands,
         \A d \in Commands : d # c => cmd'[d] = cmd[d],
         ClientInv(c)', OutcomeInv(c)', SweepInv(c)'
  PROVE  CommandInv'
<1> SUFFICES ASSUME NEW d \in Commands
             PROVE  ClientInv(d)' /\ OutcomeInv(d)' /\ SweepInv(d)'
  BY DEF CommandInv, Keeps
<1>1. CASE d = c
  BY <1>1
<1>2. CASE d # c
  BY <1>2, OthersKept DEF CommandInv
<1>3. QED
  BY <1>1, <1>2

\* A command that leaves the stored record alone keeps what is said of it.
LEMMA SameRecord ==
  ASSUME SysTypeOK, RecordInv, Keeps, disk' = disk
  PROVE  RecordInv'
<1>1. disk.handle \in 0..2
  <2>1. disk \in Record \cup {None}
    BY DEF SysTypeOK, TypeOK
  <2>2. QED
    BY <2>1 DEF Record, None
<1>2. QED
  BY <1>1, NamesKept DEF RecordInv, Names, Keeps
-----------------------------------------------------------------------------
(***************************************************************************)
(* What a command leaves of the invariant, in one lemma for each handler.  *)
(***************************************************************************)
CommandsInv == SysTypeOK /\ StartInv /\ RecordInv /\ CommandInv

Kept ==
  /\ Keeps /\ RecordInv' /\ CommandInv'
  /\ cmd' \in [Commands -> Copies] /\ disk' \in Record \cup {None}

\* ReconnectToRun reads the record and takes the handle from it.
LEMMA ReconnectStep ==
  ASSUME CommandsInv, NEW c \in Commands, ReconnectToRun(c)
  PROVE  Kept
<1>a. /\ SysTypeOK /\ RecordInv /\ CommandInv /\ disk \in Record
      /\ c # "gc" /\ cmd[c].pc = "ready" /\ disk # None /\ vars' = vars
  BY DEF CommandsInv, SysTypeOK, TypeOK, ReconnectToRun, vars
<1>b. cmd[c].targets = {}
  BY <1>a DEF CommandInv, ClientInv
<1>c. disk.state \in RunState /\ disk.handle \in 0..2
  BY <1>a DEF Record
<1> DEFINE rec == [disk EXCEPT !.state = Transition(@, "stopping")]
<1>d. /\ rec \in Record /\ rec # None /\ rec.handle = disk.handle
      /\ ~IsTerminal(disk.state) => ~IsTerminal(rec.state)
  <2>1. Transition(disk.state, "stopping") \in RunState
    BY <1>c, TransitionType DEF RunState, ActiveStates
  <2>2. QED
    BY <1>a, <1>c, <2>1, RecordState, StoppingIsActive
<1> HIDE DEF rec
<1>1. \/ CmdTo(c, "noop", disk) \/ CmdTo(c, "failed", disk)
      \/ ~IsTerminal(disk.state) /\ disk.handle # 0 /\ CmdTo(c, "connected", disk)
      \/ c = "force-stop" /\ CmdTo(c, "forcing", disk)
      \/ /\ ~IsTerminal(disk.state) /\ c \in {"stop", "force-stop"}
         /\ CmdTo(c, "saving", rec)
  BY DEF ReconnectToRun, rec
<1>2. PICK l \in CmdLabels, r \in {disk, rec} :
        /\ CmdTo(c, l, r)
        /\ l \in {"noop", "failed", "connected", "forcing", "saving"}
        /\ l = "connected" => ~IsTerminal(r.state) /\ r.handle # 0
        /\ l = "forcing" => c = "force-stop"
        /\ l = "saving" => c \in {"stop", "force-stop"} /\ ~IsTerminal(r.state)
  BY <1>1, <1>d DEF CmdLabels
<1>3. /\ Commands' = Commands /\ cmd' \in [Commands -> Copies]
      /\ cmd'[c].pc = l /\ cmd'[c].rec = r /\ cmd'[c].targets = {}
      /\ \A d \in Commands : d # c => cmd'[d] = cmd[d]
  <2>1. r \in Record \cup {None} /\ CmdTo(c, l, r)
    BY <1>a, <1>d, <1>2
  <2>2. QED
    BY <1>a, <1>b, <2>1, CmdToEffect, Zenon
<1>4. Keeps
  BY <1>a, <1>3, Untouched DEF vars, world, envVars, cloudVars, storeVars
<1>5. Names(r.handle)'
  BY <1>a, <1>c, <1>d, <1>4, NamesKept DEF RecordInv
<1>6. ClientInv(c)' /\ SweepInv(c)'
  BY <1>a, <1>d, <1>2, <1>3, <1>4, <1>5 DEF ClientInv, SweepInv, Names, Keeps
<1>7. OutcomeInv(c)'
  BY <1>2, <1>3, <1>d DEF OutcomeInv, Written, IsTerminal, TerminalStates
<1>8. CommandInv'
  BY <1>a, <1>3, <1>4, <1>6, <1>7, OneMoves
<1>9. QED
  BY <1>a, <1>3, <1>4, <1>8, SameRecord DEF Kept, vars, storeVars

\* The graceful part of stop: Terminate, and the record it will save.
LEMMA StopTerminateStep ==
  ASSUME CommandsInv, NEW c \in Commands, StopTerminate(c)
  PROVE  Kept
<1>a. /\ SysTypeOK /\ TypeOK /\ RecordInv /\ CommandInv
      /\ c \in {"stop", "force-stop"} /\ cmd[c].pc = "connected"
      /\ UNCHANGED <<run, disk, vm, plan>>
  BY DEF CommandsInv, SysTypeOK, StopTerminate, storeVars, envVars
<1>b. /\ cmd[c].targets = {} /\ cmd[c].rec # None /\ disk # None
      /\ cmd[c].rec.handle # 0 /\ ~IsTerminal(cmd[c].rec.state)
      /\ Names(cmd[c].rec.handle)
  BY <1>a DEF CommandInv, ClientInv
<1>c. cmd[c].rec \in Record
  BY <1>a, <1>b DEF SysTypeOK
<1>d. cmd[c].rec.state \in RunState /\ cmd[c].rec.handle \in Attempts
  BY <1>b, <1>c, Handles, Zenon
<1> DEFINE s == Transition(Transition(cmd[c].rec.state, "stopping"), "cleaning-up")
           rec == [cmd[c].rec EXCEPT !.state = s]
<1>1. rec \in Record /\ rec # None /\ rec.handle = cmd[c].rec.handle
        /\ ~IsTerminal(rec.state)
  <2>1. s \in RunState
    BY <1>d, TransitionType DEF RunState, ActiveStates
  <2>2. ~IsTerminal(s)
    BY <1>b, <1>d, StoppingIsActive
  <2> HIDE DEF s
  <2>3. QED
    BY <1>c, <2>1, <2>2, RecordState
<1>2. PICK r \in Record :
        /\ CmdTo(c, "destroying", r) /\ r # None
        /\ r.handle = cmd[c].rec.handle /\ ~IsTerminal(r.state)
  BY <1>1 DEF StopTerminate
<1> HIDE DEF s, rec
<1>3. /\ Commands' = Commands /\ cmd' \in [Commands -> Copies]
      /\ cmd'[c].pc = "destroying" /\ cmd'[c].rec = r
      /\ cmd'[c].targets = {}
      /\ \A d \in Commands : d # c => cmd'[d] = cmd[d]
  BY <1>a, <1>b, <1>2, CmdToEffect DEF CmdLabels
<1>4. Keeps
  <2>1. \A v \in Attempts : \/ work'[v] = work[v]
                            \/ work[v] = "running" /\ work'[v] = "killed"
    BY <1>a DEF StopTerminate, Terminate, Busy, TypeOK
  <2>2. Excuse => Excuse'
    BY <1>a, <1>3, ExcuseKept
  <2>3. QED
    BY <1>a, <1>3, <2>1, <2>2 DEF Keeps, Started, Busy, Attempts
<1>5. Names(r.handle)'
  BY <1>b, <1>d, <1>2, <1>4, NamesKept, Handles, Zenon
<1>6. ClientInv(c)' /\ SweepInv(c)' /\ OutcomeInv(c)'
  BY <1>a, <1>b, <1>2, <1>3, <1>4, <1>5
     DEF ClientInv, SweepInv, OutcomeInv, Written, Names, Keeps
<1>7. CommandInv'
  BY <1>a, <1>3, <1>4, <1>6, OneMoves
<1>8. QED
  BY <1>a, <1>3, <1>4, <1>7, SameRecord DEF Kept, TypeOK
(***************************************************************************)
(* Without the retry, a handle is that of the first attempt.               *)
(***************************************************************************)
LEMMA OneAttempt ==
  ASSUME TypeOK, StartInv, ~plan.retry
  PROVE  ~Started(2) /\ ~Busy(2) /\ vm[2] = "absent"
<1>1. run.retries \in 0..1
  BY DEF TypeOK, Run
<1>2. QED
  BY <1>1 DEF StartInv, Started, Busy

\* The Cleanup of stop, which takes the machine away or reports that it cannot.
LEMMA StopCleanupStep ==
  ASSUME CommandsInv, NEW c \in Commands, StopCleanup(c)
  PROVE  Kept
<1>a. /\ SysTypeOK /\ TypeOK /\ StartInv /\ RecordInv /\ CommandInv
      /\ cmd[c].pc = "destroying" /\ UNCHANGED <<run, disk, work, plan>>
  BY DEF CommandsInv, SysTypeOK, StopCleanup, storeVars, envVars
<1>b. c \in {"stop", "force-stop"}
  BY <1>a DEF CommandInv, ClientInv, SweepInv
<1>c. /\ cmd[c].targets = {} /\ cmd[c].rec # None /\ disk # None
      /\ cmd[c].rec.handle # 0 /\ ~IsTerminal(cmd[c].rec.state)
      /\ Names(cmd[c].rec.handle)
  BY <1>a, <1>b DEF CommandInv, ClientInv
<1>d. cmd[c].rec \in Record
  BY <1>a, <1>c DEF SysTypeOK
<1>e. cmd[c].rec.state \in RunState /\ cmd[c].rec.handle \in Attempts
  BY <1>c, <1>d, Handles, Zenon
<1>f. Started(cmd[c].rec.handle)
  BY <1>c DEF Names
<1>1. PICK r \in Record :
        /\ CmdTo(c, "saving", r) /\ r # None
        /\ r.handle = cmd[c].rec.handle
        /\ r.state = "completed" => vm' = [vm EXCEPT ![r.handle] = "gone"]
        /\ vm' = [vm EXCEPT ![r.handle] = "gone"] \/ vm' = vm
  <2> DEFINE r1 == [cmd[c].rec EXCEPT
                      !.state = Transition(cmd[c].rec.state, "completed")]
             r2 == [cmd[c].rec EXCEPT
                      !.state = SetError(cmd[c].rec.state, "cleanup-failed")]
  <2>1. r1 \in Record /\ r1 # None /\ r1.handle = cmd[c].rec.handle
    <3>1. Transition(cmd[c].rec.state, "completed") \in RunState
      BY <1>e, TransitionType DEF RunState, TerminalStates
    <3>2. QED
      BY <1>d, <3>1, RecordState
  <2>2. /\ r2 \in Record /\ r2 # None /\ r2.handle = cmd[c].rec.handle
        /\ r2.state = "cleanup-failed"
    <3>1. SetError(cmd[c].rec.state, "cleanup-failed") = "cleanup-failed"
      BY <1>c, <1>e, StoppingIsActive
    <3>2. "cleanup-failed" \in RunState
      BY DEF RunState, TerminalStates, FailureStates
    <3>3. QED
      BY <1>d, <3>1, <3>2, RecordState
  <2>3. \/ /\ vm' = [vm EXCEPT ![cmd[c].rec.handle] = "gone"]
           /\ CmdTo(c, "saving", r1)
        \/ /\ TornDown(cmd[c].rec.handle)
           /\ CmdTo(c, "saving", r2)
    BY DEF StopCleanup
  <2>4. TornDown(cmd[c].rec.handle) =>
          vm' = [vm EXCEPT ![cmd[c].rec.handle] = "gone"] \/ vm' = vm
    BY DEF TornDown
  <2> HIDE DEF r1, r2
  <2>5. QED
    BY <2>1, <2>2, <2>3, <2>4
<1>2. /\ Commands' = Commands /\ cmd' \in [Commands -> Copies]
      /\ cmd'[c].pc = "saving" /\ cmd'[c].rec = r /\ cmd'[c].targets = {}
      /\ \A d \in Commands : d # c => cmd'[d] = cmd[d]
  BY <1>a, <1>c, <1>1, CmdToEffect DEF CmdLabels
<1>3. \A v \in Attempts : vm'[v] = vm[v] \/ (vm[v] # "absent" /\ vm'[v] = "gone")
  BY <1>a, <1>e, <1>f, <1>1 DEF Started, TypeOK
<1>4. Keeps
  <2>1. Excuse => Excuse'
    BY <1>a, <1>2, ExcuseKept
  <2>2. QED
    BY <1>a, <1>2, <1>3, <2>1, LossKeeps, Zenon
<1>5. Names(r.handle)'
  BY <1>c, <1>e, <1>1, <1>4, NamesKept, Handles, Zenon
<1>6. ClientInv(c)' /\ SweepInv(c)'
  BY <1>a, <1>b, <1>c, <1>1, <1>2, <1>4, <1>5
     DEF ClientInv, SweepInv, Names, Keeps
<1>7. ~plan.retry => r.handle = 1
  <2>1. r.handle \in Attempts /\ Started(r.handle)
    BY <1>e, <1>f, <1>1, Zenon
  <2>2. Attempts = {1, 2}
    BY DEF Attempts
  <2>3. ~plan.retry => ~Started(2)
    BY <1>a, OneAttempt, Zenon
  <2>4. QED
    BY <2>1, <2>2, <2>3, Zenon
<1>8. OutcomeInv(c)'
  <2>1. 1 \in DOMAIN vm
    BY <1>a, Machines, Zenon
  <2>2. ~plan.retry /\ r.state = "completed" => vm'[1] = "gone"
    BY <1>1, <1>7, <2>1, Zenon
  <2>3. c \in {"stop", "force-stop"} /\ plan' = plan
    BY <1>a, <1>b
  <2>4. QED
    BY <1>2, <2>2, <2>3 DEF OutcomeInv, Written
<1>9. CommandInv'
  BY <1>a, <1>2, <1>4, <1>6, <1>8, OneMoves
<1>10. QED
  BY <1>a, <1>2, <1>4, <1>9, SameRecord DEF Kept, TypeOK

\* stop --force reads the record again, marks it and deletes nothing.
LEMMA ForceStopStep ==
  ASSUME CommandsInv, NEW c \in Commands, ForceStop(c)
  PROVE  Kept
<1>a. /\ SysTypeOK /\ RecordInv /\ CommandInv
      /\ cmd[c].pc = "forcing" /\ vars' = vars
  BY DEF CommandsInv, ForceStop
<1>b. c = "force-stop" /\ disk # None /\ cmd[c].targets = {}
  BY <1>a DEF CommandInv, ClientInv, SweepInv
<1>c. disk \in Record
  BY <1>a, <1>b DEF SysTypeOK, TypeOK
<1>d. disk.state \in RunState /\ disk.handle \in 0..2
  BY <1>c DEF Record
<1>1. PICK l \in {"noop", "saving"}, r \in Record :
        /\ CmdTo(c, l, r) /\ r # None /\ r.handle = disk.handle
        /\ l = "saving" => r.state = "cleanup-failed"
  <2> DEFINE r1 == [disk EXCEPT !.state = SetError(disk.state, "cleanup-failed")]
  <2>1. ~IsTerminal(disk.state) =>
          /\ r1 \in Record /\ r1 # None /\ r1.handle = disk.handle
          /\ r1.state = "cleanup-failed"
    <3>1. "cleanup-failed" \in RunState
      BY DEF RunState, TerminalStates, FailureStates
    <3>2. QED
      BY <1>c, <1>d, <3>1, RecordState, StoppingIsActive
  <2>2. CASE IsTerminal(disk.state)
    BY <1>b, <1>c, <2>2 DEF ForceStop
  <2>3. CASE ~IsTerminal(disk.state)
    BY <2>1, <2>3 DEF ForceStop
  <2>4. QED
    BY <2>2, <2>3
<1>2. /\ Commands' = Commands /\ cmd' \in [Commands -> Copies]
      /\ cmd'[c].pc = l /\ cmd'[c].rec = r /\ cmd'[c].targets = {}
      /\ \A d \in Commands : d # c => cmd'[d] = cmd[d]
  <2>1. l \in CmdLabels /\ r \in Record \cup {None}
    BY DEF CmdLabels
  <2>2. SysTypeOK /\ CmdTo(c, l, r) /\ cmd[c].targets = {}
    BY <1>a, <1>b, <1>1
  <2>3. QED
    BY <2>1, <2>2, CmdToEffect, Zenon
<1>3. Keeps
  BY <1>a, <1>2, Untouched DEF vars, world, envVars, cloudVars, storeVars
<1>4. Names(r.handle)'
  BY <1>a, <1>d, <1>1, <1>3, NamesKept DEF RecordInv
<1>5. ClientInv(c)' /\ SweepInv(c)' /\ OutcomeInv(c)'
  BY <1>a, <1>b, <1>1, <1>2, <1>3, <1>4
     DEF ClientInv, SweepInv, OutcomeInv, Written, Names, Keeps
<1>6. CommandInv'
  BY <1>a, <1>2, <1>3, <1>5, OneMoves
<1>7. QED
  BY <1>a, <1>c, <1>2, <1>3, <1>6, SameRecord DEF Kept, vars, storeVars

\* A command saves its copy of the record over whatever is there.
LEMMA SaveStep ==
  ASSUME CommandsInv, NEW c \in Commands, Save(c)
  PROVE  Kept
<1>a. /\ SysTypeOK /\ TypeOK /\ RecordInv /\ CommandInv
      /\ cmd[c].pc = "saving" /\ UNCHANGED <<run, vm, work, plan>>
  BY DEF CommandsInv, SysTypeOK, Save, cloudVars, envVars
<1>b. c # "gc" /\ cmd[c].rec # None /\ disk # None /\ cmd[c].targets = {}
  BY <1>a DEF CommandInv, ClientInv, SweepInv
<1>c. cmd[c].rec \in Record
  BY <1>a, <1>b DEF SysTypeOK
<1>d. cmd[c].rec.handle \in 0..2
  BY <1>c DEF Record
<1>e. c \in {"stop", "force-stop", "status", "renew"}
  BY <1>a, <1>b, CommandNames
<1>1. PICK l \in {"saved", "failed"} :
        CmdTo(c, l, cmd[c].rec) /\ (disk' = disk \/ (disk' = cmd[c].rec /\ l = "saved"))
  BY DEF Save
<1>2. PICK r \in Record : r = cmd[c].rec
  BY <1>c
<1>3. /\ Commands' = Commands /\ cmd' \in [Commands -> Copies]
      /\ cmd'[c].pc = l /\ cmd'[c].rec = r /\ cmd'[c].targets = {}
      /\ \A d \in Commands : d # c => cmd'[d] = cmd[d]
  BY <1>a, <1>b, <1>1, <1>2, CmdToEffect, Zenon DEF CmdLabels
<1>4. Keeps
  BY <1>a, <1>b, <1>1, <1>3, Untouched
<1>5. Names(r.handle)'
  BY <1>a, <1>d, <1>2, <1>4, NamesKept DEF CommandInv, ClientInv
<1>6. ClientInv(c)' /\ SweepInv(c)'
  BY <1>b, <1>2, <1>3, <1>4, <1>5 DEF ClientInv, SweepInv, Names, Keeps
<1>7. OutcomeInv(c)'
  BY <1>a, <1>2, <1>3 DEF CommandInv, OutcomeInv, Written, Started, Busy
<1>8. CommandInv'
  BY <1>a, <1>3, <1>4, <1>6, <1>7, OneMoves
<1>9. RecordInv'
  <2>1. CASE disk' = disk
    BY <1>a, <1>4, <2>1, SameRecord
  <2>2. CASE disk' = r /\ l = "saved"
    <3>1. IsTerminal(r.state) => Finalized(c)' /\ c # "renew"
      BY <1>a, <1>2, <1>3, <2>2 DEF Finalized, CommandInv, OutcomeInv, Written
    <3>2. IsTerminal(r.state) => Excuse'
      BY <1>e, <1>3, <3>1 DEF Excuse, Stops
    <3>3. QED
      BY <1>5, <2>2, <3>2 DEF RecordInv, Names
  <2>3. QED
    BY <1>1, <1>2, <2>1, <2>2
<1>10. QED
  BY <1>a, <1>c, <1>1, <1>3, <1>4, <1>8, <1>9 DEF Kept, TypeOK

\* status refreshes its copy from the machine it finds.
LEMMA RefreshStep ==
  ASSUME CommandsInv, Refresh
  PROVE  Kept
<1> DEFINE c == "status"
<1>a. /\ SysTypeOK /\ TypeOK /\ StartInv /\ RecordInv /\ CommandInv
      /\ c \in Commands /\ cmd[c].pc = "connected" /\ vars' = vars
  BY DEF CommandsInv, SysTypeOK, Refresh
<1>b. /\ cmd[c].targets = {} /\ cmd[c].rec # None /\ disk # None
      /\ cmd[c].rec.handle # 0 /\ ~IsTerminal(cmd[c].rec.state)
      /\ Names(cmd[c].rec.handle)
  BY <1>a DEF CommandInv, ClientInv
<1>c. cmd[c].rec \in Record
  BY <1>a, <1>b DEF SysTypeOK
<1>d. cmd[c].rec.state \in RunState /\ cmd[c].rec.handle \in Attempts
  BY <1>b, <1>c DEF Record, Attempts
<1>e. Started(cmd[c].rec.handle)
  BY <1>b DEF Names
<1>1. PICK l \in {"saving", "failed"}, r \in Record :
        /\ CmdTo(c, l, r) /\ r # None /\ r.handle = cmd[c].rec.handle
        /\ IsTerminal(r.state) => ~Busy(r.handle)
  <2> DEFINE r(s) == [cmd[c].rec EXCEPT !.state = SetError(cmd[c].rec.state, s)]
  <2>1. ASSUME NEW s \in {"completed", "execution-failed"}
        PROVE  r(s) \in Record /\ r(s) # None /\ r(s).handle = cmd[c].rec.handle
    <3>1. SetError(cmd[c].rec.state, s) \in RunState
      BY <1>d, TransitionType DEF RunState, TerminalStates, FailureStates
    <3>2. QED
      BY <1>c, <3>1, RecordState
  <2>2. \/ /\ ~Busy(cmd[c].rec.handle)
           /\ \/ CmdTo(c, "saving", r("completed"))
              \/ CmdTo(c, "saving", r("execution-failed"))
        \/ CmdTo(c, "saving", cmd[c].rec) \/ CmdTo(c, "failed", cmd[c].rec)
    BY DEF Refresh, Busy
  <2> HIDE DEF r
  <2>3. QED
    BY <1>b, <1>c, <2>1, <2>2
<1>2. /\ Commands' = Commands /\ cmd' \in [Commands -> Copies]
      /\ cmd'[c].pc = l /\ cmd'[c].rec = r /\ cmd'[c].targets = {}
      /\ \A d \in Commands : d # c => cmd'[d] = cmd[d]
  <2>1. l \in CmdLabels /\ r \in Record \cup {None}
    BY DEF CmdLabels
  <2>2. QED
    BY <1>a, <1>b, <1>1, <2>1, CmdToEffect, Zenon
<1>3. Keeps
  BY <1>a, <1>2, Untouched DEF vars, world, envVars, cloudVars, storeVars
<1>4. Names(r.handle)'
  BY <1>b, <1>d, <1>1, <1>3, NamesKept, Handles, Zenon
<1>5. ClientInv(c)' /\ SweepInv(c)'
  BY <1>a, <1>b, <1>1, <1>2, <1>3, <1>4 DEF ClientInv, SweepInv, Names, Keeps
<1>6. ~plan.retry => r.handle = 1
  BY <1>a, <1>d, <1>e, <1>1, OneAttempt, Handles, Zenon
<1>7. OutcomeInv(c)'
  BY <1>a, <1>e, <1>1, <1>2, <1>6
     DEF OutcomeInv, Written, Started, Busy, vars, world, cloudVars, envVars
<1>8. CommandInv'
  BY <1>a, <1>2, <1>3, <1>5, <1>7, OneMoves
<1>9. QED
  BY <1>a, <1>2, <1>3, <1>8, SameRecord DEF Kept, TypeOK, vars, storeVars

\* renew-watchdog renews the lease of the machine it reconnects to.
LEMMA RenewWatchdogStep ==
  ASSUME CommandsInv, RenewWatchdog
  PROVE  Kept
<1> DEFINE c == "renew"
<1>a. /\ SysTypeOK /\ TypeOK /\ RecordInv /\ CommandInv
      /\ c \in Commands /\ cmd[c].pc = "connected" /\ vars' = vars
  BY DEF CommandsInv, SysTypeOK, RenewWatchdog
<1>b. /\ cmd[c].targets = {} /\ cmd[c].rec # None /\ disk # None
      /\ ~IsTerminal(cmd[c].rec.state) /\ Names(cmd[c].rec.handle)
  BY <1>a DEF CommandInv, ClientInv
<1>c. cmd[c].rec \in Record
  BY <1>a, <1>b DEF SysTypeOK
<1>1. PICK l \in {"saving", "failed"}, r \in Record :
        CmdTo(c, l, r) /\ r = cmd[c].rec
  BY <1>c DEF RenewWatchdog
<1>d. r.handle \in 0..2
  BY DEF Record
<1>2. /\ Commands' = Commands /\ cmd' \in [Commands -> Copies]
      /\ cmd'[c].pc = l /\ cmd'[c].rec = r /\ cmd'[c].targets = {}
      /\ \A d \in Commands : d # c => cmd'[d] = cmd[d]
  <2>1. l \in CmdLabels /\ r \in Record \cup {None}
    BY DEF CmdLabels
  <2>2. QED
    BY <1>a, <1>b, <1>1, <2>1, CmdToEffect, Zenon
<1>3. Keeps
  BY <1>a, <1>2, Untouched DEF vars, world, envVars, cloudVars, storeVars
<1>4. Names(r.handle)'
  BY <1>b, <1>d, <1>1, <1>3, NamesKept
<1>5. ClientInv(c)' /\ SweepInv(c)' /\ OutcomeInv(c)'
  BY <1>b, <1>1, <1>2, <1>3, <1>4
     DEF ClientInv, SweepInv, OutcomeInv, Names, Keeps
<1>6. CommandInv'
  BY <1>a, <1>2, <1>3, <1>5, OneMoves
<1>7. QED
  BY <1>a, <1>2, <1>3, <1>6, SameRecord DEF Kept, TypeOK, vars, storeVars

\* gc reads the records and decides from them which runs are over.
LEMMA GcReadRecordsStep ==
  ASSUME CommandsInv, GcReadRecords
  PROVE  Kept
<1> DEFINE c == "gc"
<1>a. /\ SysTypeOK /\ TypeOK /\ RecordInv /\ CommandInv
      /\ c \in Commands /\ cmd[c].pc = "ready" /\ vars' = vars
  BY DEF CommandsInv, SysTypeOK, GcReadRecords
<1>b. cmd[c].targets = {}
  BY <1>a DEF CommandInv, SweepInv
<1>1. PICK r \in Record \cup {None} : CmdTo(c, "connected", r) /\ r = disk
  BY <1>a DEF GcReadRecords, TypeOK
<1>c. r.handle \in 0..2
  BY DEF Record, None
<1>2. /\ Commands' = Commands /\ cmd' \in [Commands -> Copies]
      /\ cmd'[c].pc = "connected" /\ cmd'[c].rec = r /\ cmd'[c].targets = {}
      /\ \A d \in Commands : d # c => cmd'[d] = cmd[d]
  BY <1>a, <1>b, <1>1, CmdToEffect DEF CmdLabels
<1>3. Keeps
  BY <1>a, <1>2, Untouched DEF vars, world, envVars, cloudVars, storeVars
<1>4. Names(r.handle)' /\ (IsTerminal(r.state) => Excuse')
  BY <1>a, <1>c, <1>1, <1>3, NamesKept DEF RecordInv, Keeps
<1>5. ClientInv(c)' /\ SweepInv(c)' /\ OutcomeInv(c)'
  BY <1>2, <1>4 DEF ClientInv, SweepInv, OutcomeInv, Names
<1>6. CommandInv'
  BY <1>a, <1>2, <1>3, <1>5, OneMoves
<1>7. QED
  BY <1>a, <1>2, <1>3, <1>6, SameRecord DEF Kept, TypeOK, vars, storeVars

(***************************************************************************)
(* gc changes only its list of machines.                                   *)
(***************************************************************************)
LEMMA SweepEffect ==
  ASSUME SysTypeOK, "gc" \in Commands, NEW l \in CmdLabels,
         NEW T \in SUBSET Attempts,
         cmd' = [cmd EXCEPT !["gc"].pc = l, !["gc"].targets = T]
  PROVE  /\ Commands' = Commands /\ cmd' \in [Commands -> Copies]
         /\ cmd'["gc"].pc = l /\ cmd'["gc"].rec = cmd["gc"].rec
         /\ cmd'["gc"].targets = T
         /\ \A d \in Commands : d # "gc" => cmd'[d] = cmd[d]
<1>1. cmd \in [Commands -> Copies]
  BY DEF SysTypeOK, Copies
<1> HIDE DEF CmdLabels, Record, None
<1>2. QED
  BY <1>1 DEF Commands, Copies

\* gc lists what the provider has and keeps what belongs to a finished run.
LEMMA GcListResourcesStep ==
  ASSUME CommandsInv, GcListResources
  PROVE  Kept
<1> DEFINE c == "gc"
           T == IF Orphaned(cmd[c].rec) THEN {v \in Attempts : Exists(v)} ELSE {}
<1>a. /\ SysTypeOK /\ TypeOK /\ RecordInv /\ CommandInv
      /\ c \in Commands /\ cmd[c].pc = "connected" /\ vars' = vars
  BY DEF CommandsInv, SysTypeOK, GcListResources
<1>1. T \in SUBSET Attempts /\ (T # {} => Orphaned(cmd[c].rec))
  OBVIOUS
<1>2. cmd' = [cmd EXCEPT !["gc"].pc = "sweeping", !["gc"].targets = T]
  BY DEF GcListResources
<1> HIDE DEF T
<1>3. /\ Commands' = Commands /\ cmd' \in [Commands -> Copies]
      /\ cmd'[c].pc = "sweeping" /\ cmd'[c].rec = cmd[c].rec
      /\ cmd'[c].targets = T
      /\ \A d \in Commands : d # c => cmd'[d] = cmd[d]
  BY <1>a, <1>1, <1>2, SweepEffect DEF CmdLabels
<1>4. Keeps
  BY <1>a, <1>3, Untouched DEF vars, world, envVars, cloudVars, storeVars
<1>5. PICK r \in Record \cup {None} : r = cmd[c].rec
  BY <1>a DEF SysTypeOK
<1>6. r.handle \in 0..2
  BY DEF Record, None
<1>7. Names(r.handle)'
  BY <1>a, <1>4, <1>5, <1>6, NamesKept DEF CommandInv, ClientInv
<1>8. ClientInv(c)' /\ SweepInv(c)' /\ OutcomeInv(c)'
  BY <1>a, <1>1, <1>3, <1>4, <1>5, <1>7
     DEF CommandInv, ClientInv, SweepInv, OutcomeInv, Names, Keeps
<1>9. CommandInv'
  BY <1>a, <1>3, <1>4, <1>8, OneMoves
<1>10. QED
  BY <1>a, <1>3, <1>4, <1>9, SameRecord DEF Kept, TypeOK, vars, storeVars

\* gc deletes one of the machines it listed.
LEMMA GcDestroyStep ==
  ASSUME CommandsInv, NEW v \in Attempts, GcDestroy(v)
  PROVE  Kept
<1> DEFINE c == "gc"
<1>a. /\ SysTypeOK /\ TypeOK /\ StartInv /\ RecordInv /\ CommandInv
      /\ c \in Commands /\ cmd[c].pc = "sweeping" /\ v \in cmd[c].targets
      /\ UNCHANGED <<run, disk, work, plan>>
  BY DEF CommandsInv, SysTypeOK, GcDestroy, storeVars, envVars
<1>b. cmd \in [Commands -> Copies]
  BY <1>a DEF SysTypeOK, Copies
<1>1. PICK T \in SUBSET Attempts : T = cmd[c].targets \ {v}
  BY <1>a, <1>b DEF Copies
<1>2. /\ Commands' = Commands /\ cmd' \in [Commands -> Copies]
      /\ cmd'[c].pc = "sweeping" /\ cmd'[c].rec = cmd[c].rec
      /\ cmd'[c].targets = T
      /\ \A d \in Commands : d # c => cmd'[d] = cmd[d]
  <2>1. cmd' = [cmd EXCEPT !["gc"].targets = T]
    BY <1>a, <1>b, <1>1 DEF GcDestroy, Copies, Commands
  <2> HIDE DEF CmdLabels, Record, None
  <2>2. QED
    BY <1>a, <1>b, <2>1 DEF Copies, Commands
<1>3. \A w \in Attempts : vm'[w] = vm[w] \/ (vm[w] # "absent" /\ vm'[w] = "gone")
  BY <1>a DEF GcDestroy, TornDown, TypeOK
<1>4. Keeps
  <2>1. Excuse => Excuse'
    BY <1>a, <1>2, ExcuseKept
  <2>2. QED
    BY <1>a, <1>2, <1>3, <2>1, LossKeeps, Zenon
<1>5. PICK r \in Record \cup {None} : r = cmd[c].rec
  BY <1>a DEF SysTypeOK
<1>6. r.handle \in 0..2
  BY Handles, Zenon
<1>7. Names(r.handle)'
  BY <1>a, <1>4, <1>5, <1>6, NamesKept DEF CommandInv, ClientInv
<1>8. Orphaned(r)
  BY <1>a, <1>5 DEF CommandInv, SweepInv
<1>9. ClientInv(c)' /\ SweepInv(c)' /\ OutcomeInv(c)'
  BY <1>a, <1>2, <1>4, <1>5, <1>7, <1>8
     DEF CommandInv, ClientInv, SweepInv, OutcomeInv, Names, Keeps
<1>10. CommandInv'
  BY <1>a, <1>2, <1>4, <1>9, OneMoves
<1>11. QED
  BY <1>a, <1>2, <1>4, <1>10, SameRecord DEF Kept, TypeOK
-----------------------------------------------------------------------------
(***************************************************************************)
(* A command leaves the executor's variables alone, and to a machine it    *)
(* can only end its workload or destroy it.                                *)
(***************************************************************************)
MachineState == {"absent", "up", "halted", "gone"}

WorkState == {"idle", "running", "ok", "failed", "killed"}

Touches ==
  /\ UNCHANGED <<mainVars, run, owed, goVars, pend, envVars>>
  /\ vm' \in [Attempts -> MachineState] /\ work' \in [Attempts -> WorkState]
  /\ \A v \in Attempts :
       /\ vm'[v] = vm[v] \/ (vm[v] # "absent" /\ vm'[v] = "gone")
       /\ work'[v] = work[v] \/ (work[v] = "running" /\ work'[v] = "killed")

\* A command writes the stored record and takes machines away, no more.
LEMMA CommandTouches ==
  ASSUME CommandsInv, CommandStep
  PROVE  Touches
<1>a. vm \in [Attempts -> MachineState] /\ work \in [Attempts -> WorkState]
  BY DEF CommandsInv, SysTypeOK, TypeOK, MachineState, WorkState
<1>1. CASE UNCHANGED vars
  BY <1>1, <1>a DEF Touches, vars, storeVars, world, cloudVars
<1>2. ASSUME NEW c \in Commands, StopTerminate(c)
      PROVE  Touches
  BY <1>2, <1>a DEF Touches, StopTerminate, Terminate, Busy, storeVars,
         WorkState
<1>3. ASSUME NEW c \in Commands, StopCleanup(c)
      PROVE  Touches
  <2>1. cmd[c].rec.handle \in Attempts /\ vm[cmd[c].rec.handle] # "absent"
    <3>1. /\ cmd[c].pc = "destroying" /\ cmd[c].rec \in Record \cup {None}
      BY <1>3 DEF StopCleanup, CommandsInv, SysTypeOK
    <3>2. c # "gc"
      BY <3>1 DEF CommandsInv, CommandInv, SweepInv
    <3>3. cmd[c].rec.handle # 0 /\ Names(cmd[c].rec.handle)
      BY <3>1, <3>2 DEF CommandsInv, CommandInv, ClientInv
    <3>4. cmd[c].rec.handle \in 0..2
      BY <3>1, Handles, Zenon
    <3>5. QED
      BY <3>3, <3>4 DEF Names, Started, Attempts
  <2>2. vm' = vm \/ vm' = [vm EXCEPT ![cmd[c].rec.handle] = "gone"]
    BY <1>3 DEF StopCleanup, TornDown
  <2>3. QED
    BY <1>3, <1>a, <2>1, <2>2 DEF Touches, StopCleanup, storeVars,
         MachineState
<1>4. ASSUME NEW c \in Commands, Save(c)
      PROVE  Touches
  BY <1>4, <1>a DEF Touches, Save, cloudVars
<1>5. ASSUME NEW v \in Attempts, GcDestroy(v)
      PROVE  Touches
  BY <1>5, <1>a DEF Touches, GcDestroy, TornDown, storeVars, MachineState
<1>6. QED
  BY <1>1, <1>2, <1>3, <1>4, <1>5
     DEF CommandStep, ReconnectToRun, ForceStop, Refresh, RenewWatchdog,
         GcReadRecords, GcListResources

\* Every step of a command keeps the invariant of the commands.
LEMMA CommandKept ==
  ASSUME CommandsInv, CommandStep
  PROVE  Kept
  BY ReconnectStep, StopTerminateStep, StopCleanupStep, ForceStopStep,
     SaveStep, RefreshStep, RenewWatchdogStep, GcReadRecordsStep,
     GcListResourcesStep, GcDestroyStep
     DEF CommandStep

(***************************************************************************)
(* So every layer is kept by the commands.                                 *)
(***************************************************************************)
LEMMA CommandInvStep ==
  ASSUME SysInv, CommandStep
  PROVE  SysInv'
<1>a. CommandsInv /\ TypeOK
  BY DEF SysInv, CommandsInv, SysTypeOK
<1>1. Touches /\ Kept
  BY <1>a, CommandTouches, CommandKept
<1>2. /\ pc' = pc /\ run' = run /\ pend' = pend /\ plan' = plan
      /\ sampler' = sampler /\ heartbeat' = heartbeat
      /\ panicked' = panicked /\ cleanupDone' = cleanupDone
  BY <1>1 DEF Touches, mainVars, goVars, envVars
<1>3. /\ \A v \in Attempts : Busy(v)' => Busy(v)
      /\ \A v \in Attempts : work'[v] = "running" => work[v] = "running"
  BY <1>1 DEF Touches, Busy
<1>4. SysTypeOK'
  <2>1. TypeOK'
    BY <1>a, <1>1 DEF Touches, Kept, TypeOK, mainVars, goVars, envVars,
         MachineState, WorkState
  <2>2. QED
    BY <1>a, <1>1, <1>2, <2>1 DEF Kept, Keeps, SysTypeOK, CommandsInv, Copies
<1>5. ControlInv'
  BY <1>2 DEF SysInv, ExecutorLayers, ControlInv
<1>h. run.handle \in 0..2 /\ run.handleState \in 0..2
  BY <1>a DEF TypeOK, Run
<1>6. AttemptInv'
  <2>1. pc = "failed" => run.handle \in Attempts
    BY <1>h DEF SysInv, ExecutorLayers, AttemptInv, Attempts
  <2>2. QED
    BY <1>2, <1>3, <2>1 DEF SysInv, ExecutorLayers, AttemptInv, Attempts
<1>7. RunawayInv'
  <2>1. pc = "collect" => ~Busy(run.handle)'
    <3>1. pc = "collect" => run.handle \in Attempts
      BY <1>h DEF SysInv, ExecutorLayers, AttemptInv, Attempts
    <3>2. QED
      BY <1>2, <1>3, <3>1 DEF SysInv, ExecutorLayers, RunawayInv
  <2>2. QED
    BY <1>2, <1>3, <2>1 DEF SysInv, ExecutorLayers, RunawayInv, Excused
<1>8. StartInv'
  <2>1. Names(run.handle)' /\ Names(run.handleState)'
    BY <1>1, <1>2, <1>h, NamesKept DEF Kept, SysInv, StartInv, Names
  <2>2. QED
    BY <1>1, <1>2, <2>1, Handles, Zenon DEF Touches, Kept, Keeps, SysInv, StartInv
<1>9. SnapshotInv'
  <2> SUFFICES ASSUME NEW g \in Goroutines
               PROVE  /\ Names(pend[g].handle)'
                      /\ IsTerminal(pend'[g].state) => IsTerminal(run'.state)
    BY DEF SnapshotInv
  <2>1. PICK r \in Record \cup {None} : r = pend[g]
    BY <1>a DEF TypeOK
  <2>2. r.handle \in 0..2
    BY DEF Record, None
  <2>3. Names(r.handle)'
    BY <1>1, <2>1, <2>2, NamesKept DEF Kept, SysInv, SnapshotInv
  <2>4. QED
    BY <1>2, <2>1, <2>3 DEF SysInv, SnapshotInv, Names
<1>10. QED
  BY <1>1, <1>4, <1>5, <1>6, <1>7, <1>8, <1>9
     DEF SysInv, ExecutorLayers, Kept

(***************************************************************************)
(* And by the executor, while no command moves.                            *)
(***************************************************************************)
LEMMA ExecutorInvStep ==
  ASSUME SysInv, [Next]_vars, cmd' = cmd
  PROVE  SysInv'
<1>a. /\ TypeOK /\ ControlInv /\ AttemptInv /\ RunawayInv /\ StartInv
      /\ SnapshotInv /\ RecordInv /\ CommandInv /\ SysTypeOK
  BY DEF SysInv, SysTypeOK, ExecutorLayers
<1>1. TypeOK' /\ ControlInv' /\ AttemptInv' /\ RunawayInv'
  BY <1>a, TypeStep, ControlStep, AttemptStep, RunawayStep
<1>2. StartInv'
  BY <1>a, StartStep
<1>3. SnapshotInv'
  BY <1>a, <1>1, <1>2, SnapshotInvStep
<1>4. /\ SnapshotMoves /\ plan' = plan
      /\ \/ disk' = disk
         \/ \E g \in Goroutines : pend[g] # None /\ disk' = pend[g]
  BY <1>a, SnapshotStep
<1>5. Keeps
  <2>1. \A v \in Attempts : Started(v) => Started(v)'
    BY <1>a, StartedStays
  <2>2. vm[1] = "gone" => vm'[1] = "gone"
    BY <1>a, MachineStep DEF Attempts
  <2>3. Started(1) /\ ~Busy(1) => ~Busy(1)'
    BY <1>a, FirstAttemptStaysOver
  <2>4. Excuse => Excuse'
    BY <1>a, FinalRunStays DEF Excuse, Finalized, Stops, Commands
  <2>5. QED
    BY <1>4, <2>1, <2>2, <2>3, <2>4 DEF Keeps, Commands
<1>6. CommandInv'
  BY <1>a, <1>5, OthersKept DEF CommandInv, Keeps
<1>7. RecordInv'
  <2>1. CASE disk' = disk
    BY <1>a, <1>5, <2>1, SameRecord
  <2>2. ASSUME NEW g \in Goroutines, disk' = pend[g] PROVE RecordInv'
    <3>1. PICK r \in Record \cup {None} : r = pend[g]
      BY <1>a DEF TypeOK
    <3>2. r.handle \in 0..2
      BY Handles, Zenon
    <3>3. Names(r.handle)' /\ (IsTerminal(r.state) => Excuse')
      BY <1>a, <1>5, <3>1, <3>2, NamesKept DEF SnapshotInv, Excuse, Keeps
    <3>4. QED
      BY <2>2, <3>1, <3>3 DEF RecordInv, Names
  <2>3. QED
    BY <1>4, <2>1, <2>2
<1>8. SysTypeOK'
  BY <1>a, <1>1, <1>4 DEF SysTypeOK, Commands
<1>9. QED
  BY <1>1, <1>2, <1>3, <1>6, <1>7, <1>8 DEF SysInv, ExecutorLayers

-----------------------------------------------------------------------------
\* Before the first command nothing has been read and nothing destroyed.
LEMMA SysInvInit == SysInit => SysInv
<1> SUFFICES ASSUME SysInit PROVE SysInv
  OBVIOUS
<1>1. Init /\ ExecutorInv
  BY InvInit DEF SysInit
<1>2. PICK C \in Invocations(plan) :
        cmd = [c \in C |-> [pc |-> "ready", rec |-> None, targets |-> {}]]
  BY DEF SysInit
<1>3. Commands = C /\ \A c \in C : /\ cmd[c].pc = "ready" /\ cmd[c].rec = None
                                  /\ cmd[c].targets = {}
  BY <1>2 DEF Commands
<1>4. SysTypeOK
  BY <1>1, <1>2, <1>3 DEF ExecutorInv, SysTypeOK, CmdLabels
<1>5. /\ pc = "created" /\ run.retries = 0 /\ run.handle = 0 /\ run.handleState = 0
      /\ \A v \in Attempts : vm[v] = "absent" /\ work[v] = "idle"
      /\ disk = None /\ \A g \in Goroutines : pend[g] = None
  BY <1>1 DEF Init, NewRun, Quiet
<1>6. None.handle = 0 /\ ~IsTerminal(None.state)
  BY DEF None, IsTerminal, TerminalStates, FailureStates
<1>7. StartInv /\ SnapshotInv /\ RecordInv
  BY <1>5, <1>6, Handles DEF StartInv, SnapshotInv, RecordInv, Names
<1>8. CommandInv
  BY <1>3, <1>6, Zenon DEF CommandInv, ClientInv, OutcomeInv, Written, SweepInv, Names
<1>9. QED
  BY <1>1, <1>4, <1>7, <1>8 DEF SysInv, ExecutorInv, ExecutorLayers

\* The executor and the commands keep the invariant together.
LEMMA SysInvStep == SysInv /\ [SysNext]_sysVars => SysInv'
<1> SUFFICES ASSUME SysInv, [SysNext]_sysVars PROVE SysInv'
  OBVIOUS
<1>1. CASE (Next \/ UNCHANGED vars) /\ cmd' = cmd
  BY <1>1, ExecutorInvStep
<1>2. CASE CommandStep
  BY <1>2, CommandInvStep
<1>3. QED
  BY <1>1, <1>2 DEF SysNext, sysVars, CommandStep

(***************************************************************************)
(* SysInv holds in every reachable state, for every set of plans and of    *)
(* commands.                                                               *)
(***************************************************************************)
THEOREM SysInvCorrect == SysSpec => []SysInv
  BY SysInvInit, SysInvStep, PTL DEF SysSpec

(***************************************************************************)
(* Whatever stop, status, renew and gc do to the record and the machines   *)
(* while Execute is under way, the workload never executes on two machines *)
(* at once, and none is left running unrecorded when the process exits.    *)
(***************************************************************************)
THEOREM SysNoRunaway == SysSpec => []SysNoSilentRunaway
<1>1. SysInv => SysNoSilentRunaway
  <2> SUFFICES ASSUME SysInv PROVE NoDoubleExecution /\ NoSilentRunaway
    BY DEF SysNoSilentRunaway
  <2>1. run.retries \in 0..1
    BY DEF SysInv, SysTypeOK, TypeOK, Run
  <2>2. NoDoubleExecution
    BY <2>1 DEF SysInv, ExecutorLayers, AttemptInv, NoDoubleExecution,
         Attempts, Busy
  <2>3. NoSilentRunaway
    BY DEF SysInv, ExecutorLayers, RunawayInv, Excused, NoSilentRunaway
  <2>4. QED
    BY <2>2, <2>3
<1>2. QED
  BY <1>1, SysInvCorrect, PTL

(***************************************************************************)
(* Without the retry, a stop that has reported the run Completed has left  *)
(* no machine of it: the only one is gone, and no step of the executor     *)
(* that is still under way brings it back.                                 *)
(***************************************************************************)
THEOREM StopCorrect == SysSpec => []StopTearsDown
<1>1. SysInv => StopTearsDown
  <2> SUFFICES ASSUME SysInv, NEW c \in Stops, ~plan.retry,
                      cmd[c].pc = "saved", cmd[c].rec.state = "completed",
                      NEW v \in Attempts
               PROVE  ~Exists(v)
    BY DEF StopTearsDown
  <2>1. vm[1] = "gone"
    BY DEF SysInv, CommandInv, OutcomeInv, Written, Stops
  <2>2. vm[2] = "absent"
    BY OneAttempt DEF SysInv, SysTypeOK
  <2>3. QED
    BY <2>1, <2>2, Handles, Zenon DEF Exists
<1>2. QED
  BY <1>1, SysInvCorrect, PTL

(***************************************************************************)
(* gc never destroys a machine of a recorded run that goes on, unless a    *)
(* stop or a status has put a final state on the record.                   *)
(***************************************************************************)
THEOREM GcCorrect == SysSpec => GcSparesRecordedRun
<1> DEFINE Spares ==
      \A v \in Attempts :
        GcReaps(v) /\ cmd["gc"].rec # None =>
          \/ IsTerminal(run.state)
          \/ \E c \in Stops : Finalized(c)
          \/ Finalized("status") /\ (Busy(v) => plan.retry)
<1>1. SysInv /\ [SysNext]_sysVars => [Spares]_sysVars
  <2> SUFFICES ASSUME SysInv, NEW v \in Attempts, GcReaps(v),
                      cmd["gc"].rec # None
               PROVE  \/ IsTerminal(run.state)
                      \/ \E c \in Stops : Finalized(c)
                      \/ Finalized("status") /\ (Busy(v) => plan.retry)
    OBVIOUS
  <2>1. /\ "gc" \in Commands /\ cmd["gc"].targets # {}
    BY DEF GcReaps
  <2>2. Excuse
    BY <2>1 DEF SysInv, CommandInv, SweepInv, Orphaned
  <2>3. ASSUME ~plan.retry, Finalized("status") PROVE ~Busy(v)
    <3>1. ~Busy(1)
      BY <2>3 DEF SysInv, CommandInv, OutcomeInv, Written, Finalized
    <3>2. ~Busy(2)
      BY <2>3, OneAttempt DEF SysInv, SysTypeOK
    <3>3. QED
      BY <3>1, <3>2 DEF Attempts
  <2>4. QED
    BY <2>2, <2>3 DEF Excuse
<1>2. QED
  BY <1>1, SysInvCorrect, PTL DEF SysSpec, GcSparesRecordedRun

=============================================================================
