--------------------------- MODULE ExecutorProofs ---------------------------
(***************************************************************************)
(* Proofs about Executor for every set of plans and every value of its     *)
(* bounds.  Every theorem about a step has one case for each action, or    *)
(* for a few actions that disturb the invariant in the same way.           *)
(***************************************************************************)
EXTENDS ExecutorInvariants, TLAPS

(***************************************************************************)
(* Transition and SetError return states of the run state machine.         *)
(***************************************************************************)
LEMMA TransitionType ==
  ASSUME NEW s \in RunState, NEW to \in RunState
  PROVE  Transition(s, to) \in RunState /\ SetError(s, to) \in RunState
  BY DEF Transition, SetError

(***************************************************************************)
(* Neither moves a run out of a terminal state.                            *)
(***************************************************************************)
LEMMA TerminalStays ==
  ASSUME NEW s, NEW to, IsTerminal(s)
  PROVE  Transition(s, to) = s /\ SetError(s, to) = s
  BY DEF Transition, SetError, CanTransition

(***************************************************************************)
(* A snapshot of a run is a record, and never the absent one.              *)
(***************************************************************************)
LEMMA ToRecordType ==
  ASSUME NEW r \in Run
  PROVE  /\ ToRecord(r) \in Record
         /\ ToRecord(r) # None
         /\ ToRecord(r).state = r.state
         /\ ToRecord(r).handle = r.handleState
  BY DEF ToRecord, Run, Record, None, RunState, ActiveStates, TerminalStates,
         FailureStates

(***************************************************************************)
(* What assigning one field of a run, or two of them, changes.             *)
(***************************************************************************)
LEMMA SetState ==
  ASSUME NEW r \in Run, NEW s \in RunState
  PROVE  LET r2 == [r EXCEPT !.state = s] IN
         /\ r2 \in Run
         /\ r2.state = s
         /\ r2.handle = r.handle
         /\ r2.handleState = r.handleState
         /\ r2.retries = r.retries
  BY DEF Run

(***************************************************************************)
(* What CleanupOk assigns: the handle is dropped and the state set, the    *)
(* serialized handle and the retry count stay.                             *)
(***************************************************************************)
LEMMA DropHandleSetState ==
  ASSUME NEW r \in Run, NEW s \in RunState
  PROVE  LET r2 == [r EXCEPT !.handle = 0, !.state = s] IN
         /\ r2 \in Run
         /\ r2.state = s
         /\ r2.handle = 0
         /\ r2.handleState = r.handleState
         /\ r2.retries = r.retries
<1> DEFINE r1 == [r EXCEPT !.handle = 0]
           r2 == [r EXCEPT !.handle = 0, !.state = s]
<1>1. r2 = [r1 EXCEPT !.state = s]
  OBVIOUS
<1>2. r1 \in Run /\ r1.handle = 0 /\ r1.handleState = r.handleState
        /\ r1.retries = r.retries
  BY DEF Run
<1> HIDE DEF r1, r2
<1>3. QED
  BY <1>1, <1>2, SetState DEF r2

(***************************************************************************)
(* What CleanupFails assigns: the cleanup error is noted and the state     *)
(* set, the handle, its serialized form and the retry count stay.          *)
(***************************************************************************)
LEMMA SetLeakSetState ==
  ASSUME NEW r \in Run, NEW s \in RunState
  PROVE  LET r2 == [r EXCEPT !.leak = TRUE, !.state = s] IN
         /\ r2 \in Run
         /\ r2.state = s
         /\ r2.handle = r.handle
         /\ r2.handleState = r.handleState
         /\ r2.retries = r.retries
<1> DEFINE r1 == [r EXCEPT !.leak = TRUE]
           r2 == [r EXCEPT !.leak = TRUE, !.state = s]
<1>1. r2 = [r1 EXCEPT !.state = s]
  OBVIOUS
<1>2. r1 \in Run /\ r1.handle = r.handle /\ r1.handleState = r.handleState
        /\ r1.retries = r.retries
  BY Zenon DEF Run
<1> HIDE DEF r1, r2
<1>3. QED
  BY <1>1, <1>2, SetState DEF r2

(***************************************************************************)
(* PersistHandle records the handle of a durable run and changes nothing   *)
(* else.                                                                   *)
(***************************************************************************)
LEMMA PersistHandleType ==
  ASSUME NEW r \in Run
  PROVE  /\ PersistHandle(r) \in Run
         /\ PersistHandle(r).state = r.state
         /\ PersistHandle(r).handle = r.handle
         /\ PersistHandle(r).retries = r.retries
         /\ plan.durable => PersistHandle(r).handleState = r.handle
<1>1. CASE plan.durable
  BY <1>1 DEF PersistHandle, Run
<1>2. CASE ~plan.durable
  BY <1>2 DEF PersistHandle, Run
<1>3. QED
  BY <1>1, <1>2

(***************************************************************************)
(* What Provisioned, Reprovisioned, CleanupOk and CleanupFails, the steps  *)
(* that assign more than the state of the run, do to it.                   *)
(***************************************************************************)
LEMMA ProvisionedRun ==
  ASSUME TypeOK, Provisioned
  PROVE  /\ run' \in Run
         /\ run'.state = run.state /\ run'.handle = 1
         /\ run'.retries = run.retries
         /\ pc' = "abortCleanup" => run'.handleState = run.handleState
         /\ pc' # "abortCleanup" /\ plan.durable => run'.handleState = 1
<1> DEFINE r == [run EXCEPT !.handle = 1]
<1>1. run \in Run
  BY DEF TypeOK
<1>2. /\ r \in Run /\ r.state = run.state /\ r.handle = 1
      /\ r.retries = run.retries /\ r.handleState = run.handleState
  BY <1>1 DEF Run
<1>3. \/ pc' = "abortCleanup" /\ run' = r
      \/ pc' \in {"detach", "supervise"} /\ run' = PersistHandle(r)
  BY DEF Provisioned
<1> HIDE DEF r
<1>4. QED
  BY <1>2, <1>3, PersistHandleType

(***************************************************************************)
(* The re-provision of retryTransientFailure: the run holds the second     *)
(* machine, and a durable run has it serialized.                           *)
(***************************************************************************)
LEMMA ReprovisionedRun ==
  ASSUME TypeOK, Reprovisioned
  PROVE  /\ run' \in Run
         /\ run'.state = run.state /\ run'.handle = 2
         /\ run'.retries = run.retries
         /\ plan.durable => run'.handleState = 2
<1> DEFINE r == [run EXCEPT !.handle = 2]
<1>1. run \in Run
  BY DEF TypeOK
<1>2. /\ r \in Run /\ r.state = run.state /\ r.handle = 2
      /\ r.retries = run.retries
  BY <1>1 DEF Run
<1>3. run' = PersistHandle(r)
  BY DEF Reprovisioned
<1> HIDE DEF r
<1>4. QED
  BY <1>2, <1>3, PersistHandleType

(***************************************************************************)
(* A cleanup that succeeds drops the handle and completes the run if the   *)
(* table of transitions allows it.                                         *)
(***************************************************************************)
LEMMA CleanupOkRun ==
  ASSUME TypeOK, CleanupOk
  PROVE  /\ run' \in Run
         /\ run'.state = Transition(run.state, "completed")
         /\ run'.handle = 0
         /\ run'.retries = run.retries
         /\ run'.handleState = run.handleState
<1>1. run \in Run /\ run.state \in RunState /\ "completed" \in RunState
  BY DEF TypeOK, Run, RunState, TerminalStates
<1>2. Transition(run.state, "completed") \in RunState
  BY <1>1, TransitionType
<1>3. QED
  BY <1>1, <1>2, DropHandleSetState, Zenon DEF CleanupOk

(***************************************************************************)
(* A cleanup that fails keeps the handle and marks the run, unless it is   *)
(* terminal already.                                                       *)
(***************************************************************************)
LEMMA CleanupFailsRun ==
  ASSUME TypeOK, CleanupFails
  PROVE  /\ run' \in Run
         /\ run'.state = SetError(run.state, "cleanup-failed")
         /\ run'.handle = run.handle
         /\ run'.retries = run.retries
         /\ run'.handleState = run.handleState
<1>1. run \in Run /\ run.state \in RunState /\ "cleanup-failed" \in RunState
  BY DEF TypeOK, Run, RunState, TerminalStates, FailureStates
<1>2. SetError(run.state, "cleanup-failed") \in RunState
  BY <1>1, TransitionType
<1>3. QED
  BY <1>1, <1>2, SetLeakSetState, Zenon DEF CleanupFails

-----------------------------------------------------------------------------
(***************************************************************************)
(* The initial state has the right types.                                  *)
(***************************************************************************)
THEOREM TypeInit == Init => TypeOK
<1> SUFFICES ASSUME Init PROVE TypeOK
  OBVIOUS
<1>1. run \in Run
  BY DEF Init, NewRun, Run, RunState, ActiveStates
<1>2. pend \in [Goroutines -> Record \cup {None}] /\ disk \in Record \cup {None}
  BY DEF Init, Quiet
<1>3. /\ vm \in [Attempts -> {"absent", "up", "halted", "gone"}]
      /\ work \in [Attempts -> {"idle", "running", "ok", "failed", "killed"}]
  BY DEF Init
<1>4. /\ cleanupDone \in BOOLEAN /\ panicked \in BOOLEAN
      /\ ctxDone \in BOOLEAN /\ overBudget \in BOOLEAN
  BY Zenon DEF Init
<1>5. /\ plan \in Plans /\ pc \in Labels /\ tries \in Nat /\ owed \in 0..2
      /\ sampler \in {"off", "idle", "within", "over", "tripped"}
      /\ heartbeat \in {"off", "idle", "renewing"} /\ supervised \in 0..2
  BY DEF Init, Labels
<1>6. QED
  BY <1>1, <1>2, <1>3, <1>4, <1>5 DEF TypeOK

(***************************************************************************)
(* Every step of the executor, its goroutines and its environment keeps    *)
(* the types.                                                              *)
(***************************************************************************)
THEOREM TypeStep == TypeOK /\ [Next]_vars => TypeOK'
<1> SUFFICES ASSUME TypeOK, [Next]_vars PROVE TypeOK'
  OBVIOUS
<1> USE DEF TypeOK, Labels, CleanupPlaces, Run, RunState, ActiveStates,
      TerminalStates, FailureStates, Goroutines, Attempts, At, others, world,
      mainVars, goVars, storeVars, cloudVars, envVars
<1>1. CASE BeginPlanning \/ Validate \/ OpenGate \/ GateDecides
  BY <1>1 DEF BeginPlanning, Moves, Validate, OpenGate, GateDecides,
         Transition, SetError, CanTransition
<1>2. CASE Prepare
  BY <1>2 DEF Prepare, Moves, SaveRun, ToRecord, Transition, SetError,
         CanTransition, Record
<1>3. CASE StartProvisioning \/ Supervise
  BY <1>3 DEF StartProvisioning, startCostSampler, Supervise
<1>4. CASE CreateMachine \/ ProvisionOk \/ ProvisionFails
  BY <1>4 DEF CreateMachine, Attempt, ProvisionOk, ProvisionFails, TornDown
<1>5. CASE ProvisionFailed
  BY <1>5 DEF ProvisionFailed, Moves, SaveRun, ToRecord, Transition,
         SetError, CanTransition, Record
<1>6. CASE Provisioned
  <2>1. run' \in Run
    BY <1>6, ProvisionedRun
  <2>2. ToRecord(run') \in Record
    BY <2>1, ToRecordType
  <2>3. pend' = pend \/ pend' = [pend EXCEPT !["main"] = ToRecord(run')]
    BY <1>6 DEF Provisioned, SaveRun
  <2>4. pend' \in [Goroutines -> Record \cup {None}]
    BY <2>2, <2>3
  <2>5. QED
    BY <1>6, <2>1, <2>4 DEF Provisioned
<1>7. CASE Detach \/ Return
  BY <1>7 DEF Detach, Moves, SaveRun, ToRecord, Return, Record
<1>8. CASE FirstRenewal
  BY <1>8 DEF FirstRenewal, SaveRun, ToRecord, Record
<1>9. CASE StatusError \/ StatusRunning \/ StatusCompleted \/ StatusFailed
  BY <1>9 DEF StatusError, StatusRunning, StatusIs, StatusCompleted,
         StatusFailed
<1>10. CASE PollAgain \/ PollCanceled \/ PollDeadline
  BY <1>10 DEF PollAgain, Moves, PollCanceled, PollDeadline, Terminate
<1>11. CASE Fails
  BY <1>11 DEF Fails
<1>12. CASE RetryStopSampler \/ RetryStopHeartbeat
  BY <1>12 DEF RetryStopSampler, Moves, RetryStopHeartbeat
<1>13. CASE RetryCleanup
  BY <1>13 DEF RetryCleanup, TornDown
<1>14. CASE Reprovisioned
  <2>1. run' \in Run
    BY <1>14, ReprovisionedRun
  <2>2. ToRecord(run') \in Record
    BY <2>1, ToRecordType
  <2>3. pend' = pend \/ pend' = [pend EXCEPT !["main"] = ToRecord(run')]
    BY <1>14 DEF Reprovisioned, SaveRun
  <2>4. pend' \in [Goroutines -> Record \cup {None}]
    BY <2>2, <2>3
  <2>5. QED
    BY <1>14, <2>1, <2>4 DEF Reprovisioned
<1>15. CASE CollectBegin \/ CollectAgain
  BY <1>15 DEF CollectBegin, CollectAgain, Transition, SetError,
         CanTransition
<1>16. CASE Dumped \/ Collected
  BY <1>16 DEF Dumped, Collected, Transition, SetError, CanTransition
<1>17. CASE NotCollected
  BY <1>17 DEF NotCollected, SaveRun, ToRecord, Transition, SetError,
         CanTransition, Record
<1>18. CASE CleanupSkipped
  BY <1>18 DEF CleanupSkipped, CleanupReturns, SaveRun, ToRecord, Record
<1>19. CASE CleanupBegin \/ CleanupAgain
  BY <1>19 DEF CleanupBegin, CleanupAgain, TornDown, Transition, SetError,
         CanTransition
<1>20. CASE CleanupOk
  <2>1. run' \in Run
    BY <1>20, CleanupOkRun
  <2>2. ToRecord(run') \in Record
    BY <2>1, ToRecordType
  <2>3. pend' = pend \/ pend' = [pend EXCEPT !["main"] = ToRecord(run')]
    BY <1>20 DEF CleanupOk, CleanupReturns, SaveRun
  <2>4. pend' \in [Goroutines -> Record \cup {None}]
    BY <2>2, <2>3
  <2>5. QED
    BY <1>20, <2>1, <2>4, ZenonT(120) DEF CleanupOk, CleanupReturns
<1>21. CASE CleanupFails
  <2>1. run' \in Run
    BY <1>21, CleanupFailsRun
  <2>2. ToRecord(run') \in Record
    BY <2>1, ToRecordType
  <2>3. pend' = pend \/ pend' = [pend EXCEPT !["main"] = ToRecord(run')]
    BY <1>21 DEF CleanupFails, CleanupReturns, SaveRun
  <2>4. pend' \in [Goroutines -> Record \cup {None}]
    BY <2>2, <2>3
  <2>5. QED
    BY <1>21, <2>1, <2>4 DEF CleanupFails, CleanupReturns, TornDown
<1>22. CASE UnwindSampler \/ UnwindHeartbeat
  BY <1>22 DEF UnwindSampler, Moves, UnwindHeartbeat
<1>23. CASE Recover
  BY <1>23 DEF Recover, Moves, SaveRun, ToRecord, Transition, SetError,
         CanTransition, Record
<1>24. CASE SamplerTick
  BY <1>24 DEF SamplerTick, SaveRun, ToRecord, Record
<1>25. CASE SamplerWithin \/ SamplerOver \/ SamplerTerminate \/ SamplerExit
  BY <1>25 DEF SamplerWithin, SamplerOver, SamplerTerminate, Terminate,
         SamplerExit, Transition, SetError, CanTransition
<1>26. CASE HeartbeatTick \/ HeartbeatRenew \/ HeartbeatExit
  BY <1>26 DEF HeartbeatTick, HeartbeatRenew, SaveRun, ToRecord,
         HeartbeatExit, Record
<1>27. ASSUME NEW g \in Goroutines, Flush(g) PROVE TypeOK'
  BY <1>27 DEF Flush
<1>28. ASSUME NEW v \in Attempts, WorkloadEnds(v) \/ MachineHalts(v)
      PROVE  TypeOK'
  BY <1>28 DEF WorkloadEnds, MachineHalts
<1>29. CASE Cancel
  BY <1>29 DEF Cancel
<1>30. CASE SpendGrows
  BY <1>30 DEF SpendGrows
<1>31. CASE Panic
  BY <1>31 DEF Panic, TornDown, Attempt
<1>32. CASE Exit \/ Crash
  BY <1>32 DEF Exit, Quiet, Crash
<1>33. CASE UNCHANGED vars
  BY <1>33 DEF vars
<1>q. QED
  BY <1>1, <1>2, <1>3, <1>4, <1>5, <1>6, <1>7, <1>8, <1>9, <1>10, <1>11,
     <1>12, <1>13, <1>14, <1>15, <1>16, <1>17, <1>18, <1>19, <1>20, <1>21,
     <1>22, <1>23, <1>24, <1>25, <1>26, <1>27, <1>28, <1>29, <1>30, <1>31,
     <1>32, <1>33, Zenon
     DEF Next, MainStep, SamplerStep, HeartbeatStep, EnvironmentStep, Stopped

(***************************************************************************)
(* Every variable has its type in every reachable state.                   *)
(***************************************************************************)
THEOREM TypeCorrect == Spec => []TypeOK
  BY TypeInit, TypeStep, PTL DEF Spec

-----------------------------------------------------------------------------
(***************************************************************************)
(* ControlInv is an invariant of every step: each stop function waits for  *)
(* its goroutine before main goes on.                                      *)
(***************************************************************************)
THEOREM ControlStep == TypeOK /\ ControlInv /\ [Next]_vars => ControlInv'
<1> SUFFICES ASSUME TypeOK, ControlInv, [Next]_vars PROVE ControlInv'
  OBVIOUS
<1>a. /\ run \in Run /\ DOMAIN pend = Goroutines
      /\ panicked \in BOOLEAN
  BY DEF TypeOK
<1> USE DEF ControlInv, SamplerLabels, HeartbeatLabels, PanicLabels,
      RetryLabels, Goroutines, CleanupPlaces, At, others, world, mainVars,
      goVars, storeVars, cloudVars, envVars
<1>1. CASE BeginPlanning \/ Validate \/ OpenGate \/ GateDecides
  BY <1>1, <1>a DEF BeginPlanning, Moves, Validate, OpenGate, GateDecides,
         Run
<1>2. CASE Prepare
  BY <1>2, <1>a DEF Prepare, Moves, SaveRun, ToRecord, Run
<1>3. CASE StartProvisioning \/ Supervise
  BY <1>3, <1>a DEF StartProvisioning, startCostSampler, Supervise, Run
<1>4. CASE CreateMachine \/ ProvisionOk \/ ProvisionFails
  BY <1>4, <1>a DEF CreateMachine, Attempt, ProvisionOk, ProvisionFails,
         TornDown, Provisioning, Run
<1>5. CASE ProvisionFailed
  BY <1>5, <1>a DEF ProvisionFailed, Moves, SaveRun, ToRecord, Run
<1>6. CASE Provisioned
  <2>1. run'.retries = run.retries
    BY <1>6, ProvisionedRun
  <2>2. QED
    BY <1>6, <1>a, <2>1 DEF Provisioned, SaveRun
<1>7. CASE Detach \/ Return
  BY <1>7, <1>a DEF Detach, Moves, SaveRun, ToRecord, Return, Run
<1>8. CASE FirstRenewal
  BY <1>8, <1>a DEF FirstRenewal, SaveRun, ToRecord, Run
<1>9. CASE StatusError \/ StatusRunning \/ StatusCompleted \/ StatusFailed
  BY <1>9, <1>a DEF StatusError, StatusRunning, StatusIs, StatusCompleted,
         StatusFailed, Run
<1>10. CASE PollAgain \/ PollCanceled \/ PollDeadline
  BY <1>10, <1>a DEF PollAgain, Moves, PollCanceled, PollDeadline, Terminate,
         Run
<1>11. CASE Fails
  BY <1>11, <1>a DEF Fails, Run
<1>12. CASE RetryStopSampler \/ RetryStopHeartbeat
  BY <1>12, <1>a DEF RetryStopSampler, Moves, RetryStopHeartbeat, Run
<1>13. CASE RetryCleanup
  BY <1>13, <1>a DEF RetryCleanup, TornDown, Run
<1>14. CASE Reprovisioned
  <2>1. run'.retries = run.retries
    BY <1>14, ReprovisionedRun
  <2>2. QED
    BY <1>14, <1>a, <2>1 DEF Reprovisioned, SaveRun
<1>15. CASE CollectBegin \/ CollectAgain
  BY <1>15, <1>a DEF CollectBegin, CollectAgain, Run
<1>16. CASE Dumped \/ Collected
  BY <1>16, <1>a DEF Dumped, Collected, Run
<1>17. CASE NotCollected
  BY <1>17, <1>a DEF NotCollected, SaveRun, ToRecord, Run
<1>18. CASE CleanupSkipped
  BY <1>18, <1>a DEF CleanupSkipped, CleanupReturns, SaveRun, ToRecord,
         InCleanup, Run
<1>19. CASE CleanupBegin \/ CleanupAgain
  BY <1>19, <1>a DEF CleanupBegin, CleanupAgain, TornDown, InCleanup, Run
<1>20. CASE CleanupOk
  <2>1. run'.retries = run.retries
    BY <1>20, CleanupOkRun
  <2>2. QED
    BY <1>20, <1>a, <2>1 DEF CleanupOk, InCleanup, CleanupReturns, SaveRun
<1>21. CASE CleanupFails
  <2>1. run'.retries = run.retries
    BY <1>21, CleanupFailsRun
  <2>2. QED
    BY <1>21, <1>a, <2>1 DEF CleanupFails, InCleanup, CleanupReturns, SaveRun
<1>22. CASE UnwindSampler \/ UnwindHeartbeat
  BY <1>22, <1>a DEF UnwindSampler, Moves, UnwindHeartbeat, SamplerJoined,
         Run
<1>23. CASE Recover
  BY <1>23, <1>a DEF Recover, Moves, SaveRun, ToRecord, Run
<1>24. CASE SamplerTick
  BY <1>24, <1>a DEF SamplerTick, SaveRun, ToRecord, SamplerCanceled, Run
<1>25. CASE SamplerWithin \/ SamplerOver \/ SamplerTerminate \/ SamplerExit
  BY <1>25, <1>a DEF SamplerWithin, SamplerOver, SamplerTerminate, Terminate,
         SamplerExit, Run, SamplerCanceled
<1>26. CASE HeartbeatTick \/ HeartbeatRenew \/ HeartbeatExit
  BY <1>26, <1>a DEF HeartbeatTick, HeartbeatRenew, SaveRun, ToRecord,
         HeartbeatExit, HeartbeatCanceled, Run
<1>27. ASSUME NEW g \in Goroutines, Flush(g) PROVE ControlInv'
  BY <1>27, <1>a DEF Flush
<1>28. ASSUME NEW v \in Attempts, WorkloadEnds(v) \/ MachineHalts(v)
      PROVE  ControlInv'
  BY <1>28, <1>a DEF WorkloadEnds, MachineHalts
<1>29. CASE Cancel \/ SpendGrows
  BY <1>29, <1>a DEF Cancel, SpendGrows, Run
<1>30. CASE Panic
  BY <1>30, <1>a DEF Panic, TornDown, Attempt, Provisioning, Run
<1>31. CASE Exit \/ Crash
  BY <1>31, <1>a DEF Exit, Quiet, Crash, Run
<1>32. CASE UNCHANGED vars
  BY <1>32, <1>a DEF vars
<1>q. QED
  BY <1>1, <1>2, <1>3, <1>4, <1>5, <1>6, <1>7, <1>8, <1>9, <1>10, <1>11,
     <1>12, <1>13, <1>14, <1>15, <1>16, <1>17, <1>18, <1>19, <1>20, <1>21,
     <1>22, <1>23, <1>24, <1>25, <1>26, <1>27, <1>28, <1>29, <1>30, <1>31,
     <1>32, Zenon
     DEF Next, MainStep, SamplerStep, HeartbeatStep, EnvironmentStep, Stopped

-----------------------------------------------------------------------------
(***************************************************************************)
(* AttemptInv is an invariant of every step: the retry begins at "failed", *)
(* where the first machine's workload is known to have ended, and a        *)
(* workload is started only on the machine of the current attempt.         *)
(***************************************************************************)
THEOREM AttemptStep ==
  TypeOK /\ ControlInv /\ AttemptInv /\ [Next]_vars => AttemptInv'
<1> SUFFICES ASSUME TypeOK, ControlInv, AttemptInv, [Next]_vars
             PROVE  AttemptInv'
  OBVIOUS
<1>a. /\ run \in Run
      /\ vm \in [Attempts -> {"absent", "up", "halted", "gone"}]
      /\ work \in [Attempts -> {"idle", "running", "ok", "failed", "killed"}]
  BY DEF TypeOK
<1>b. pc \in RetryLabels => run.retries = 1
  BY DEF ControlInv
<1> USE DEF AttemptInv, Busy, FirstLabels, RetryLabels, CleanupPlaces,
      Attempts, At, others, world, mainVars, goVars, storeVars, cloudVars, envVars
<1>1. CASE BeginPlanning \/ Validate \/ OpenGate \/ GateDecides
  BY <1>1, <1>a, <1>b DEF BeginPlanning, Moves, Validate, OpenGate,
         GateDecides, Run
<1>2. CASE Prepare
  BY <1>2, <1>a, <1>b DEF Prepare, Moves, Run
<1>3. CASE StartProvisioning \/ Supervise
  BY <1>3, <1>a, <1>b DEF StartProvisioning, startCostSampler, Supervise, Run
<1>4. CASE CreateMachine \/ ProvisionOk \/ ProvisionFails
  BY <1>4, <1>a, <1>b DEF CreateMachine, Attempt, ProvisionOk,
         ProvisionFails, TornDown, Provisioning, Run
<1>5. CASE ProvisionFailed
  BY <1>5, <1>a, <1>b DEF ProvisionFailed, Moves, Run
<1>6. CASE Provisioned
  <2>1. run'.retries = run.retries /\ run'.handle = 1
    BY <1>6, ProvisionedRun
  <2>2. run'.retries \in 0..1
    BY <1>6, <1>a, <2>1 DEF Run
  <2>3. QED
    BY <1>6, <1>a, <1>b, <2>1, <2>2 DEF Provisioned
<1>7. CASE Detach \/ Return
  BY <1>7, <1>a, <1>b DEF Detach, Moves, Return, Run
<1>8. CASE FirstRenewal
  BY <1>8, <1>a, <1>b DEF FirstRenewal, Run
<1>9. CASE StatusError \/ StatusRunning \/ StatusCompleted \/ StatusFailed
  BY <1>9, <1>a, <1>b DEF StatusError, StatusRunning, StatusIs,
         StatusCompleted, StatusFailed, Run
<1>10. CASE PollAgain \/ PollCanceled \/ PollDeadline
  BY <1>10, <1>a, <1>b DEF PollAgain, Moves, PollCanceled, PollDeadline,
         Terminate, Run
<1>11. CASE Fails
  BY <1>11, <1>a, <1>b DEF Fails, Run
<1>12. CASE RetryStopSampler \/ RetryStopHeartbeat
  BY <1>12, <1>a, <1>b DEF RetryStopSampler, Moves, RetryStopHeartbeat, Run
<1>13. CASE RetryCleanup
  BY <1>13, <1>a, <1>b DEF RetryCleanup, TornDown, Run
<1>14. CASE Reprovisioned
  <2>1. run'.retries = run.retries /\ run'.handle = 2
    BY <1>14, ReprovisionedRun
  <2>2. run'.retries \in 0..1
    BY <1>14, <1>a, <2>1 DEF Run
  <2>3. QED
    BY <1>14, <1>a, <1>b, <2>1, <2>2 DEF Reprovisioned
<1>15. CASE CollectBegin \/ CollectAgain
  BY <1>15, <1>a, <1>b DEF CollectBegin, CollectAgain, Run
<1>16. CASE Dumped \/ Collected
  BY <1>16, <1>a, <1>b DEF Dumped, Collected, Run
<1>17. CASE NotCollected
  BY <1>17, <1>a, <1>b DEF NotCollected, Run
<1>18. CASE CleanupSkipped
  BY <1>18, <1>a, <1>b DEF CleanupSkipped, CleanupReturns, InCleanup, Run
<1>19. CASE CleanupBegin \/ CleanupAgain
  BY <1>19, <1>a, <1>b DEF CleanupBegin, CleanupAgain, TornDown, InCleanup,
         Run
<1>20. CASE CleanupOk
  <2>1. run'.retries = run.retries /\ run'.handle = 0
    BY <1>20, CleanupOkRun
  <2>2. run'.retries \in 0..1
    BY <1>20, <1>a, <2>1 DEF Run
  <2>3. QED
    BY <1>20, <1>a, <1>b, <2>1, <2>2 DEF CleanupOk, InCleanup, CleanupReturns
<1>21. CASE CleanupFails
  <2>1. run'.retries = run.retries /\ run'.handle = run.handle
    BY <1>21, CleanupFailsRun
  <2>2. run'.retries \in 0..1
    BY <1>21, <1>a, <2>1 DEF Run
  <2>3. QED
    BY <1>21, <1>a, <1>b, <2>1, <2>2 DEF CleanupFails, InCleanup, CleanupReturns, TornDown
<1>22. CASE UnwindSampler \/ UnwindHeartbeat
  BY <1>22, <1>a, <1>b DEF UnwindSampler, Moves, UnwindHeartbeat, Run
<1>23. CASE Recover
  BY <1>23, <1>a, <1>b DEF Recover, Moves, Run
<1>24. CASE SamplerTick
  BY <1>24, <1>a, <1>b DEF SamplerTick, Run
<1>25. CASE SamplerWithin \/ SamplerOver \/ SamplerTerminate \/ SamplerExit
  BY <1>25, <1>a, <1>b DEF SamplerWithin, SamplerOver, SamplerTerminate,
         Terminate, SamplerExit, Run
<1>26. CASE HeartbeatTick \/ HeartbeatRenew \/ HeartbeatExit
  BY <1>26, <1>a, <1>b DEF HeartbeatTick, HeartbeatRenew, HeartbeatExit, Run
<1>27. ASSUME NEW g \in Goroutines, Flush(g) PROVE AttemptInv'
  BY <1>27, <1>a, <1>b DEF Flush
<1>28. ASSUME NEW v \in Attempts, WorkloadEnds(v)
      PROVE  AttemptInv'
  BY <1>28, <1>a, <1>b DEF WorkloadEnds, Run
<1>29. ASSUME NEW v \in Attempts, MachineHalts(v)
      PROVE  AttemptInv'
  BY <1>29, <1>a, <1>b DEF MachineHalts, Run
<1>30. CASE Cancel \/ SpendGrows
  BY <1>30, <1>a, <1>b DEF Cancel, SpendGrows, Run
<1>31. CASE Panic
  BY <1>31, <1>a, <1>b DEF Panic, TornDown, Attempt, Provisioning, Run
<1>32. CASE Exit \/ Crash
  BY <1>32, <1>a, <1>b DEF Exit, Crash, Run
<1>33. CASE UNCHANGED vars
  BY <1>33, <1>a, <1>b DEF vars
<1>q. QED
  BY <1>1, <1>2, <1>3, <1>4, <1>5, <1>6, <1>7, <1>8, <1>9, <1>10, <1>11,
     <1>12, <1>13, <1>14, <1>15, <1>16, <1>17, <1>18, <1>19, <1>20, <1>21,
     <1>22, <1>23, <1>24, <1>25, <1>26, <1>27, <1>28, <1>29, <1>30, <1>31,
     <1>32, <1>33, Zenon
     DEF Next, MainStep, SamplerStep, HeartbeatStep, EnvironmentStep, Stopped

-----------------------------------------------------------------------------
(***************************************************************************)
(* RunawayInv is an invariant of every step: the handle of an executing    *)
(* workload is dropped only by a cleanup that succeeds, and Execute goes   *)
(* to "return" only past a cleanup or a detach.                            *)
(***************************************************************************)
THEOREM RunawayStep ==
  TypeOK /\ ControlInv /\ AttemptInv /\ RunawayInv /\ [Next]_vars => RunawayInv'
<1> SUFFICES ASSUME TypeOK, ControlInv, AttemptInv, RunawayInv, [Next]_vars
             PROVE  RunawayInv'
  OBVIOUS
<1>a. /\ run \in Run /\ cleanupDone \in BOOLEAN
      /\ vm \in [Attempts -> {"absent", "up", "halted", "gone"}]
      /\ work \in [Attempts -> {"idle", "running", "ok", "failed", "killed"}]
  BY DEF TypeOK
<1>r. pc \in RetryLabels => run.retries = 1
  BY DEF ControlInv
<1> USE DEF RunawayInv, Excused, Busy, LateLabels, CleanupPlaces, Attempts,
      At, others, world, mainVars, goVars, storeVars, cloudVars, envVars
<1>1. CASE BeginPlanning \/ Validate \/ OpenGate \/ GateDecides
  BY <1>1, <1>a DEF BeginPlanning, Moves, Validate, OpenGate, GateDecides,
         Run, Transition, SetError, CanTransition, AttemptInv, FirstLabels,
         RetryLabels
<1>2. CASE Prepare
  BY <1>2, <1>a DEF Prepare, Moves, Run, Transition, SetError, CanTransition,
         AttemptInv, FirstLabels, RetryLabels
<1>3. CASE StartProvisioning \/ Supervise
  BY <1>3, <1>a DEF StartProvisioning, startCostSampler, Supervise, Run
<1>4. CASE CreateMachine
  BY <1>4, <1>a, <1>r DEF CreateMachine, Attempt, Provisioning, Run,
         AttemptInv, FirstLabels, RetryLabels
<1>5. CASE ProvisionOk
  BY <1>5, <1>a DEF ProvisionOk, Attempt, Provisioning, Run
<1>6. CASE ProvisionFails
  BY <1>6, <1>a DEF ProvisionFails, TornDown, Attempt, Provisioning, Run
<1>7. CASE ProvisionFailed
  BY <1>7, <1>a DEF ProvisionFailed, Moves, Run, Transition, SetError,
         CanTransition, AttemptInv, FirstLabels, RetryLabels
<1>8. CASE Provisioned
  <2>1. /\ run' \in Run /\ run'.handle = 1 /\ run'.state = run.state
    BY <1>8, ProvisionedRun
  <2>2. run.handle = 0 /\ run.retries = 0 /\ work[2] # "running"
    BY <1>8 DEF Provisioned, AttemptInv, FirstLabels
  <2>3. QED
    BY <1>8, <1>a, <2>1, <2>2 DEF Provisioned
<1>9. CASE Detach \/ Return
  BY <1>9, <1>a DEF Detach, Moves, Return, Run
<1>10. CASE FirstRenewal
  BY <1>10, <1>a DEF FirstRenewal, Run
<1>11. CASE StatusError \/ StatusRunning \/ StatusCompleted \/ StatusFailed
  BY <1>11, <1>a DEF StatusError, StatusRunning, StatusIs, StatusCompleted,
         StatusFailed, Run
<1>12. CASE PollAgain \/ PollCanceled \/ PollDeadline
  BY <1>12, <1>a DEF PollAgain, Moves, PollCanceled, PollDeadline, Terminate,
         Run
<1>13. CASE Fails
  BY <1>13, <1>a DEF Fails, Run
<1>14. CASE RetryStopSampler \/ RetryStopHeartbeat
  BY <1>14, <1>a DEF RetryStopSampler, Moves, RetryStopHeartbeat, Run
<1>15. CASE RetryCleanup
  BY <1>15, <1>a, <1>r DEF RetryCleanup, TornDown, Run, AttemptInv,
         FirstLabels, RetryLabels
<1>16. CASE Reprovisioned
  <2>1. run' \in Run /\ run'.handle = 2 /\ run'.state = run.state
    BY <1>16, ReprovisionedRun
  <2>2. ~Busy(1)
    BY <1>16, <1>r DEF Reprovisioned, AttemptInv, RetryLabels
  <2>3. QED
    BY <1>16, <1>a, <2>1, <2>2 DEF Reprovisioned
<1>17. CASE CollectBegin \/ CollectAgain
  BY <1>17, <1>a DEF CollectBegin, CollectAgain, Run, Transition, SetError,
         CanTransition
<1>18. CASE Dumped \/ Collected
  BY <1>18, <1>a DEF Dumped, Collected, Run, Transition, SetError,
         CanTransition
<1>19. CASE NotCollected
  BY <1>19, <1>a DEF NotCollected, Run, Transition, SetError, CanTransition
<1>20. CASE CleanupSkipped
  BY <1>20, <1>a DEF CleanupSkipped, CleanupReturns, InCleanup,
         NothingToClean, Run
<1>21. CASE CleanupBegin \/ CleanupAgain
  BY <1>21, <1>a DEF CleanupBegin, CleanupAgain, TornDown, InCleanup, Run,
         Transition, SetError, CanTransition
<1>22. CASE CleanupOk
  <2>1. run' \in Run /\ run'.handle = 0
    BY <1>22, CleanupOkRun
  <2>2. QED
    BY <1>22, <1>a, <2>1 DEF CleanupOk, InCleanup, CleanupReturns
<1>23. CASE CleanupFails
  <2>1. /\ run' \in Run /\ run'.handle = run.handle
        /\ run'.state = SetError(run.state, "cleanup-failed")
    BY <1>23, CleanupFailsRun
  <2>2. run'.leak
    BY <1>23, <1>a DEF CleanupFails, Run
  <2>3. QED
    BY <1>23, <1>a, <2>1, <2>2 DEF CleanupFails, InCleanup, CleanupReturns,
         TornDown, SetError
<1>24. CASE UnwindSampler \/ UnwindHeartbeat
  BY <1>24, <1>a DEF UnwindSampler, Moves, UnwindHeartbeat, Run
<1>25. CASE Recover
  BY <1>25, <1>a DEF Recover, Moves, Run, Transition, SetError, CanTransition
<1>26. CASE SamplerTick
  BY <1>26, <1>a DEF SamplerTick, Run
<1>27. CASE SamplerWithin \/ SamplerOver \/ SamplerTerminate \/ SamplerExit
  BY <1>27, <1>a DEF SamplerWithin, SamplerOver, SamplerTerminate, Terminate,
         SamplerExit, Run, Transition, SetError, CanTransition
<1>28. CASE HeartbeatTick \/ HeartbeatRenew \/ HeartbeatExit
  BY <1>28, <1>a DEF HeartbeatTick, HeartbeatRenew, HeartbeatExit, Run
<1>29. ASSUME NEW g \in Goroutines, Flush(g) PROVE RunawayInv'
  BY <1>29, <1>a DEF Flush
<1>30. ASSUME NEW v \in Attempts, WorkloadEnds(v)
      PROVE  RunawayInv'
  BY <1>30, <1>a DEF WorkloadEnds, Run
<1>31. ASSUME NEW v \in Attempts, MachineHalts(v)
      PROVE  RunawayInv'
  BY <1>31, <1>a DEF MachineHalts, Run
<1>32. CASE Cancel \/ SpendGrows
  BY <1>32, <1>a DEF Cancel, SpendGrows, Run
<1>33. CASE Panic
  BY <1>33, <1>a DEF Panic, TornDown, Attempt, Provisioning, Run
<1>34. CASE Exit \/ Crash
  BY <1>34, <1>a DEF Exit, Crash, Run
<1>35. CASE UNCHANGED vars
  BY <1>35, <1>a DEF vars
<1>q. QED
  BY <1>1, <1>2, <1>3, <1>4, <1>5, <1>6, <1>7, <1>8, <1>9, <1>10, <1>11,
     <1>12, <1>13, <1>14, <1>15, <1>16, <1>17, <1>18, <1>19, <1>20, <1>21,
     <1>22, <1>23, <1>24, <1>25, <1>26, <1>27, <1>28, <1>29, <1>30, <1>31,
     <1>32, <1>33, <1>34, <1>35, Zenon
     DEF Next, MainStep, SamplerStep, HeartbeatStep, EnvironmentStep, Stopped

-----------------------------------------------------------------------------
(***************************************************************************)
(* StateInv is an invariant of every step: each transition of Execute      *)
(* starts from the state the one before it has left, and only the sampler, *)
(* which trips a Running run, comes in between.                            *)
(***************************************************************************)
THEOREM StateStep ==
  TypeOK /\ ControlInv /\ AttemptInv /\ StateInv /\ [Next]_vars => StateInv'
<1> SUFFICES ASSUME TypeOK, ControlInv, AttemptInv, StateInv, [Next]_vars
             PROVE  StateInv'
  OBVIOUS
<1>a. /\ run \in Run /\ tries \in Nat
      /\ work \in [Attempts -> {"idle", "running", "ok", "failed", "killed"}]
  BY DEF TypeOK
<1>h. pc = "collect" => run.handle \in Attempts
  BY <1>a DEF AttemptInv, Run, Attempts
<1> USE DEF StateInv, UnderwayLabels, RetryLabels, CleanupPlaces, At, others,
      world, mainVars, goVars, storeVars, cloudVars, envVars
<1>1. CASE \/ BeginPlanning \/ Validate \/ OpenGate \/ GateDecides \/ Prepare
  BY <1>1, <1>a DEF BeginPlanning, Moves, Validate, OpenGate, GateDecides,
         Prepare, Run, Transition, CanTransition, validTransitions,
         IsTerminal, TerminalStates, FailureStates
<1>2. CASE StartProvisioning \/ Supervise \/ FirstRenewal
  BY <1>2, <1>a DEF StartProvisioning, startCostSampler, Supervise,
         FirstRenewal
<1>3. CASE CreateMachine \/ ProvisionFails
  BY <1>3, <1>a DEF CreateMachine, ProvisionFails, Provisioning
<1>4. CASE ProvisionOk
  BY <1>4, <1>a DEF ProvisionOk, Provisioning
<1>5. CASE ProvisionFailed \/ Detach \/ Return
  BY <1>5, <1>a DEF ProvisionFailed, Detach, Return, Moves
<1>6. CASE Provisioned
  BY <1>6, <1>a, ProvisionedRun DEF Provisioned
<1>7. CASE StatusError \/ StatusRunning \/ StatusCompleted \/ StatusFailed
  BY <1>7, <1>a DEF StatusError, StatusRunning, StatusIs, StatusCompleted,
         StatusFailed
<1>8. CASE PollAgain \/ PollCanceled \/ PollDeadline
  BY <1>8, <1>a DEF PollAgain, Moves, PollCanceled, PollDeadline, Run
<1>9. CASE Fails
  BY <1>9, <1>a DEF Fails, Run
<1>10. CASE RetryStopSampler \/ RetryStopHeartbeat
  BY <1>10, <1>a DEF RetryStopSampler, Moves, RetryStopHeartbeat, Run
<1>11. CASE RetryCleanup
  BY <1>11, <1>a DEF RetryCleanup, Run
<1>12. CASE Reprovisioned
  BY <1>12, <1>a, ReprovisionedRun DEF Reprovisioned
<1>13. CASE CollectBegin \/ CollectAgain
  BY <1>13, <1>a DEF CollectBegin, CollectAgain, ArtifactsFail, Run
<1>14. CASE Dumped \/ Collected \/ NotCollected
  BY <1>14, <1>a DEF Dumped, Collected, NotCollected
<1>15. CASE CleanupSkipped \/ CleanupOk \/ CleanupFails
  BY <1>15, <1>a DEF CleanupSkipped, CleanupOk, CleanupFails, CleanupReturns,
         InCleanup
<1>16. CASE CleanupBegin \/ CleanupAgain
  BY <1>16, <1>a DEF CleanupBegin, CleanupAgain, InCleanup
<1>17. CASE UnwindSampler \/ UnwindHeartbeat \/ Recover
  BY <1>17, <1>a DEF UnwindSampler, Moves, UnwindHeartbeat, Recover
<1>18. CASE SamplerTick \/ SamplerWithin \/ SamplerExit
  BY <1>18, <1>a DEF SamplerTick, SamplerWithin, SamplerExit
<1>19. CASE SamplerOver
  <2>1. /\ run'.state \in {run.state, "budget-exceeded"}
        /\ run.state # "running" => run'.state = run.state
        /\ run'.handle = run.handle
    BY <1>19, <1>a DEF SamplerOver, Transition, CanTransition,
         validTransitions, Run
  <2>2. sampler # "off" /\ UNCHANGED <<pc, tries, work>>
    BY <1>19 DEF SamplerOver
  <2>3. QED
    BY <2>1, <2>2
<1>20. CASE SamplerTerminate
  BY <1>20, <1>a, <1>h DEF SamplerTerminate, Terminate
<1>21. CASE HeartbeatTick \/ HeartbeatRenew \/ HeartbeatExit
  BY <1>21, <1>a DEF HeartbeatTick, HeartbeatRenew, HeartbeatExit
<1>22. ASSUME NEW g \in Goroutines, Flush(g) PROVE StateInv'
  BY <1>22 DEF Flush
<1>23. ASSUME NEW v \in Attempts, WorkloadEnds(v) \/ MachineHalts(v)
       PROVE  StateInv'
  BY <1>23, <1>a, <1>h DEF WorkloadEnds, MachineHalts
<1>24. CASE Cancel \/ SpendGrows \/ UNCHANGED vars
  BY <1>24 DEF Cancel, SpendGrows, vars
<1>25. CASE Panic \/ Exit \/ Crash
  BY <1>25, <1>a DEF Panic, Exit, Crash
<1>q. QED
  BY <1>1, <1>2, <1>3, <1>4, <1>5, <1>6, <1>7, <1>8, <1>9, <1>10, <1>11,
     <1>12, <1>13, <1>14, <1>15, <1>16, <1>17, <1>18, <1>19, <1>20, <1>21,
     <1>22, <1>23, <1>24, <1>25, Zenon
     DEF Next, MainStep, SamplerStep, HeartbeatStep, EnvironmentStep, Stopped

(***************************************************************************)
(* TriedInv is an invariant of every step: executeEphemeral leaves a       *)
(* handle to its deferred cleanup, unless it has tried the cleanup or the  *)
(* outputs could not be collected.                                         *)
(***************************************************************************)
THEOREM TriedStep ==
  /\ TypeOK /\ ControlInv /\ AttemptInv /\ RunawayInv /\ StateInv /\ TriedInv
  /\ [Next]_vars
  => TriedInv'
<1> SUFFICES ASSUME TypeOK, ControlInv, AttemptInv, RunawayInv, StateInv,
                    TriedInv, [Next]_vars
             PROVE  TriedInv'
  OBVIOUS
<1>a. /\ run \in Run /\ cleanupDone \in BOOLEAN /\ tries \in Nat
      /\ work \in [Attempts -> {"idle", "running", "ok", "failed", "killed"}]
  BY DEF TypeOK
<1>l. cleanupDone => pc \in LateLabels
  BY DEF RunawayInv
<1> USE DEF TriedInv, Tried, LateLabels, CleanupPlaces, At, others, world,
      mainVars, goVars, storeVars, cloudVars, envVars
<1>1. CASE \/ BeginPlanning \/ Validate \/ OpenGate \/ GateDecides \/ Prepare
  BY <1>1, <1>a, <1>l DEF BeginPlanning, Moves, Validate, OpenGate,
         GateDecides, Prepare, Run, AttemptInv, FirstLabels
<1>2. CASE \/ StartProvisioning \/ Supervise \/ FirstRenewal \/ Provisioned
           \/ CreateMachine \/ ProvisionOk \/ ProvisionFails
  BY <1>2, <1>l DEF StartProvisioning, Supervise, FirstRenewal, Provisioned,
         CreateMachine, ProvisionOk, ProvisionFails, Provisioning
<1>3. CASE ProvisionFailed
  BY <1>3, <1>a, <1>l DEF ProvisionFailed, Moves, Run, AttemptInv, FirstLabels
<1>4. CASE Detach
  BY <1>4, <1>a DEF Detach, Moves, RunawayInv, Run
<1>5. CASE \/ StatusError \/ StatusRunning \/ StatusCompleted \/ StatusFailed
           \/ PollAgain \/ PollCanceled \/ PollDeadline
  BY <1>5, <1>l DEF StatusError, StatusRunning, StatusIs, StatusCompleted,
         StatusFailed, PollAgain, Moves, PollCanceled, PollDeadline
<1>6. CASE \/ Fails \/ RetryStopSampler \/ RetryStopHeartbeat \/ RetryCleanup
           \/ Reprovisioned
  BY <1>6, <1>l DEF Fails, RetryStopSampler, Moves, RetryStopHeartbeat,
         RetryCleanup, Reprovisioned
<1>7. CASE CollectBegin \/ CollectAgain \/ Dumped \/ Collected
  BY <1>7, <1>l DEF CollectBegin, CollectAgain, Dumped, Collected
<1>8. CASE NotCollected
  <2>1. run.state = "budget-exceeded" \/ run.state = "collecting-artifacts"
    BY <1>8, <1>a DEF NotCollected, CollectFails, ArtifactsFail, AttemptInv,
         StateInv, CanTransition, validTransitions, IsTerminal,
         TerminalStates, FailureStates
  <2>2. /\ run'.state \in {"budget-exceeded", "artifact-failed"}
        /\ run'.handle = run.handle /\ work' = work
    BY <1>8, <1>a, <2>1 DEF NotCollected, Run, Transition, CanTransition,
         validTransitions, IsTerminal, TerminalStates, FailureStates
  <2>3. work[run.handle] # "running"
    BY <1>8 DEF NotCollected, StateInv
  <2>4. QED
    BY <2>2, <2>3
<1>9. CASE CleanupSkipped
  BY <1>9, <1>a DEF CleanupSkipped, NothingToClean, CleanupReturns, InCleanup,
         RunawayInv
<1>10. CASE CleanupBegin
  BY <1>10, <1>a DEF CleanupBegin, InCleanup, Run, Transition, CanTransition,
         IsTerminal, TerminalStates, FailureStates
<1>11. CASE CleanupOk
  BY <1>11, CleanupOkRun
<1>12. CASE CleanupAgain
  BY <1>12, <1>a DEF CleanupAgain, InCleanup
<1>13. CASE CleanupFails
  <2>1. run'.leak
    BY <1>13, <1>a DEF CleanupFails, Run
  <2>2. QED
    BY <2>1
<1>14. CASE UnwindSampler \/ UnwindHeartbeat \/ Return
  BY <1>14, <1>a DEF UnwindSampler, Moves, UnwindHeartbeat, Return, Run
<1>15. CASE Recover
  BY <1>15, <1>a DEF Recover, Moves, Run, SetError, IsTerminal,
         TerminalStates, FailureStates
<1>16. CASE SamplerTick \/ SamplerWithin \/ SamplerExit
  BY <1>16, <1>a DEF SamplerTick, SamplerWithin, SamplerExit
<1>17. CASE SamplerOver
  BY <1>17, <1>a DEF SamplerOver, Run, Transition, CanTransition, IsTerminal,
         TerminalStates, FailureStates
<1>18. CASE SamplerTerminate
  BY <1>18, <1>a DEF SamplerTerminate, Terminate, Run, Attempts
<1>19. CASE HeartbeatTick \/ HeartbeatRenew \/ HeartbeatExit
  BY <1>19, <1>a DEF HeartbeatTick, HeartbeatRenew, HeartbeatExit
<1>20. ASSUME NEW g \in Goroutines, Flush(g) PROVE TriedInv'
  BY <1>20 DEF Flush
<1>21. ASSUME NEW v \in Attempts, WorkloadEnds(v) \/ MachineHalts(v)
       PROVE  TriedInv'
  BY <1>21, <1>a DEF WorkloadEnds, MachineHalts, Run, Attempts
<1>22. CASE Cancel \/ SpendGrows \/ UNCHANGED vars
  BY <1>22 DEF Cancel, SpendGrows, vars
<1>23. CASE Panic
  BY <1>23, <1>a DEF Panic
<1>24. CASE Exit \/ Crash
  BY <1>24, <1>a DEF Exit, Crash
<1>q. QED
  BY <1>1, <1>2, <1>3, <1>4, <1>5, <1>6, <1>7, <1>8, <1>9, <1>10, <1>11,
     <1>12, <1>13, <1>14, <1>15, <1>16, <1>17, <1>18, <1>19, <1>20, <1>21,
     <1>22, <1>23, <1>24, Zenon
     DEF Next, MainStep, SamplerStep, HeartbeatStep, EnvironmentStep, Stopped

-----------------------------------------------------------------------------
(***************************************************************************)
(* OutputInv is an invariant of every step: outputs become owed at         *)
(* "collect", which is left by retrieving them, by exempting the machine   *)
(* from the cleanup, or by a panic.                                        *)
(***************************************************************************)
THEOREM OutputStep == TypeOK /\ OutputInv /\ [Next]_vars => OutputInv'
<1> SUFFICES ASSUME TypeOK, OutputInv, [Next]_vars PROVE OutputInv'
  OBVIOUS
<1>a. panicked \in BOOLEAN /\ cleanupDone \in BOOLEAN
  BY DEF TypeOK
<1> USE DEF OutputInv, CleanupPlaces, At, others, world, mainVars, goVars,
      storeVars, cloudVars, envVars
<1>1. CASE BeginPlanning \/ Validate \/ OpenGate \/ GateDecides
  BY <1>1, <1>a DEF BeginPlanning, Moves, Validate, OpenGate, GateDecides
<1>2. CASE Prepare
  BY <1>2, <1>a DEF Prepare, Moves
<1>3. CASE StartProvisioning \/ Supervise
  BY <1>3, <1>a DEF StartProvisioning, Supervise
<1>4. CASE CreateMachine \/ ProvisionOk \/ ProvisionFails
  BY <1>4, <1>a DEF CreateMachine, ProvisionOk, ProvisionFails, Provisioning
<1>5. CASE ProvisionFailed
  BY <1>5, <1>a DEF ProvisionFailed, Moves
<1>6. CASE Provisioned
  BY <1>6, <1>a DEF Provisioned
<1>7. CASE Detach \/ Return
  BY <1>7, <1>a DEF Detach, Moves, Return
<1>8. CASE FirstRenewal
  BY <1>8, <1>a DEF FirstRenewal
<1>9. CASE StatusError \/ StatusRunning \/ StatusCompleted \/ StatusFailed
  BY <1>9, <1>a DEF StatusError, StatusRunning, StatusIs, StatusCompleted,
         StatusFailed
<1>10. CASE PollAgain \/ PollCanceled \/ PollDeadline
  BY <1>10, <1>a DEF PollAgain, Moves, PollCanceled, PollDeadline
<1>11. CASE Fails
  BY <1>11, <1>a DEF Fails
<1>12. CASE RetryStopSampler \/ RetryStopHeartbeat
  BY <1>12, <1>a DEF RetryStopSampler, Moves, RetryStopHeartbeat
<1>13. CASE RetryCleanup
  BY <1>13, <1>a DEF RetryCleanup
<1>14. CASE Reprovisioned
  BY <1>14, <1>a DEF Reprovisioned
<1>15. CASE CollectBegin \/ CollectAgain
  BY <1>15, <1>a DEF CollectBegin, CollectAgain
<1>16. CASE Dumped \/ Collected
  BY <1>16, <1>a DEF Dumped, Collected
<1>17. CASE NotCollected
  BY <1>17, <1>a DEF NotCollected
<1>18. CASE CleanupSkipped
  BY <1>18, <1>a DEF CleanupSkipped, CleanupReturns, InCleanup
<1>19. CASE CleanupBegin \/ CleanupAgain
  BY <1>19, <1>a DEF CleanupBegin, CleanupAgain, InCleanup
<1>20. CASE CleanupOk
  BY <1>20, <1>a DEF CleanupOk, CleanupReturns, InCleanup
<1>21. CASE CleanupFails
  BY <1>21, <1>a DEF CleanupFails, CleanupReturns, InCleanup
<1>22. CASE UnwindSampler \/ UnwindHeartbeat
  BY <1>22, <1>a DEF UnwindSampler, Moves, UnwindHeartbeat
<1>23. CASE Recover
  BY <1>23, <1>a DEF Recover, Moves
<1>24. CASE SamplerTick
  BY <1>24, <1>a DEF SamplerTick
<1>25. CASE SamplerWithin \/ SamplerOver \/ SamplerTerminate \/ SamplerExit
  BY <1>25, <1>a DEF SamplerWithin, SamplerOver, SamplerTerminate,
         SamplerExit
<1>26. CASE HeartbeatTick \/ HeartbeatRenew \/ HeartbeatExit
  BY <1>26, <1>a DEF HeartbeatTick, HeartbeatRenew, HeartbeatExit
<1>27. ASSUME NEW g \in Goroutines, Flush(g) PROVE OutputInv'
  BY <1>27, <1>a DEF Flush
<1>28. ASSUME NEW v \in Attempts, WorkloadEnds(v) \/ MachineHalts(v)
      PROVE  OutputInv'
  BY <1>28, <1>a DEF WorkloadEnds, MachineHalts
<1>29. CASE Cancel \/ SpendGrows
  BY <1>29, <1>a DEF Cancel, SpendGrows
<1>30. CASE Panic
  BY <1>30, <1>a DEF Panic, Provisioning
<1>31. CASE Exit \/ Crash
  BY <1>31, <1>a DEF Exit, Crash
<1>32. CASE UNCHANGED vars
  BY <1>32, <1>a DEF vars
<1>q. QED
  BY <1>1, <1>2, <1>3, <1>4, <1>5, <1>6, <1>7, <1>8, <1>9, <1>10, <1>11,
     <1>12, <1>13, <1>14, <1>15, <1>16, <1>17, <1>18, <1>19, <1>20, <1>21,
     <1>22, <1>23, <1>24, <1>25, <1>26, <1>27, <1>28, <1>29, <1>30, <1>31,
     <1>32, Zenon
     DEF Next, MainStep, SamplerStep, HeartbeatStep, EnvironmentStep, Stopped

(***************************************************************************)
(* A step that destroys a machine is a teardown of an attempt to provision *)
(* or of a retry, or a cleanup; at none of them are outputs owed.          *)
(***************************************************************************)
THEOREM OutputsStep ==
  TypeOK /\ OutputInv /\ [Next]_vars
    => [\A v \in Attempts :
          vm[v] # "gone" /\ vm'[v] = "gone" => owed # v \/ panicked]_vars
<1> SUFFICES ASSUME TypeOK, OutputInv, [Next]_vars,
                    NEW v \in Attempts, vm[v] # "gone", vm'[v] = "gone"
             PROVE  owed # v \/ panicked
  OBVIOUS
<1>a. owed = v /\ ~panicked => pc \notin CleanupPlaces
        /\ pc \notin {"provisioning", "reprovisioning", "retryCleanup"}
  BY DEF OutputInv, CleanupPlaces, Attempts
<1> USE DEF At, others, world, mainVars, goVars, storeVars, cloudVars, envVars
<1>1. CASE CreateMachine \/ ProvisionFails \/ RetryCleanup
  BY <1>1, <1>a DEF CreateMachine, ProvisionFails, TornDown, RetryCleanup,
         Provisioning
<1>2. CASE CleanupOk \/ CleanupAgain \/ CleanupFails
  BY <1>2, <1>a DEF CleanupOk, CleanupReturns, CleanupAgain, TornDown,
         CleanupFails, InCleanup
<1>3. CASE Panic
  BY <1>3, <1>a DEF Panic, TornDown, Provisioning
<1>4. ASSUME NEW w \in Attempts, MachineHalts(w)
      PROVE  owed # v \/ panicked
  BY <1>4 DEF MachineHalts, TypeOK
<1>5. CASE BeginPlanning \/ Validate \/ OpenGate \/ GateDecides \/ Prepare \/
          StartProvisioning \/ ProvisionOk \/ ProvisionFailed \/
          Provisioned \/ Detach
  BY <1>5 DEF BeginPlanning, Moves, Validate, OpenGate, GateDecides, Prepare,
         StartProvisioning, ProvisionOk, ProvisionFailed, Provisioned, Detach
<1>6. CASE Supervise \/ FirstRenewal \/ StatusError \/ StatusRunning \/
          StatusCompleted \/ StatusFailed \/ PollAgain \/ PollCanceled \/
          PollDeadline
  BY <1>6 DEF Supervise, FirstRenewal, StatusError, StatusRunning, StatusIs,
         StatusCompleted, StatusFailed, PollAgain, Moves, PollCanceled,
         PollDeadline
<1>7. CASE Fails \/ RetryStopSampler \/ RetryStopHeartbeat \/
          Reprovisioned \/ CollectBegin \/ CollectAgain \/ Dumped \/
          Collected \/ NotCollected
  BY <1>7 DEF Fails, RetryStopSampler, Moves, RetryStopHeartbeat,
         Reprovisioned, CollectBegin, CollectAgain, Dumped, Collected,
         NotCollected
<1>8. CASE CleanupSkipped \/ CleanupBegin \/ UnwindSampler \/
          UnwindHeartbeat \/ Recover \/ Return \/ Exit
  BY <1>8 DEF CleanupSkipped, CleanupReturns, CleanupBegin, UnwindSampler,
         Moves, UnwindHeartbeat, Recover, Return, Exit
<1>9. CASE SamplerTick \/ SamplerWithin \/ SamplerOver \/ SamplerTerminate \/
          SamplerExit \/ HeartbeatTick \/ HeartbeatRenew \/ HeartbeatExit
  BY <1>9 DEF SamplerTick, SamplerWithin, SamplerOver, SamplerTerminate,
         SamplerExit, HeartbeatTick, HeartbeatRenew, HeartbeatExit
<1>10. ASSUME NEW g \in Goroutines, Flush(g) PROVE owed # v \/ panicked
  BY <1>10 DEF Flush
<1>11. ASSUME NEW w \in Attempts, WorkloadEnds(w)
      PROVE  owed # v \/ panicked
  BY <1>11 DEF WorkloadEnds
<1>12. CASE Cancel \/ SpendGrows \/ Crash
  BY <1>12 DEF Cancel, SpendGrows, Crash
<1>13. CASE UNCHANGED vars
  BY <1>13 DEF vars
<1>q. QED
  BY <1>1, <1>2, <1>3, <1>4, <1>5, <1>6, <1>7, <1>8, <1>9, <1>10, <1>11,
     <1>12, <1>13
     DEF Next, MainStep, SamplerStep, HeartbeatStep, EnvironmentStep, Stopped

-----------------------------------------------------------------------------
(***************************************************************************)
(* ActiveInv is an invariant of every step if no write fails: a run leaves *)
(* no final state, so a snapshot of a live run is never final, and nothing *)
(* is created before the save that precedes provisioning is written.       *)
(***************************************************************************)
THEOREM ActiveStep ==
  ASSUME ~StoreFaults
  PROVE  TypeOK /\ ActiveInv /\ [Next]_vars => ActiveInv'
<1> SUFFICES ASSUME TypeOK, ActiveInv, [Next]_vars PROVE ActiveInv'
  OBVIOUS
<1>a. /\ run \in Run
      /\ pend \in [Goroutines -> Record \cup {None}]
      /\ vm \in [Attempts -> {"absent", "up", "halted", "gone"}]
  BY DEF TypeOK
<1> USE DEF ActiveInv, SavedLabels, SupervisedLabels, Goroutines,
      CleanupPlaces, Attempts, At, others, world, mainVars, goVars,
      storeVars, cloudVars, envVars
<1>1. CASE BeginPlanning \/ Validate \/ OpenGate \/ GateDecides
  BY <1>1, <1>a DEF BeginPlanning, Moves, Validate, OpenGate, GateDecides,
         Run, Transition, SetError, CanTransition
<1>2. CASE Prepare
  <2>1. run' \in Run /\ run'.handle = run.handle
    BY <1>2, <1>a DEF Prepare, Moves, Run, Transition, SetError, CanTransition,
         RunState, ActiveStates, TerminalStates, FailureStates
  <2>2. IsTerminal(run.state) => IsTerminal(run'.state)
    BY <1>2, <1>a, TerminalStays DEF Prepare, Moves, Run
  <2>3. ToRecord(run') # None /\ ToRecord(run').state = run'.state
    BY <2>1, ToRecordType
  <2>4. \/ pc' = "provision" /\ pend' = [pend EXCEPT !["main"] = ToRecord(run')]
        \/ pc' = "return" /\ pend' = pend
    BY <1>2 DEF Prepare, Moves, SaveRun
  <2>5. QED
    BY <1>2, <1>a, <2>1, <2>2, <2>3, <2>4 DEF Prepare, Moves
<1>3. CASE StartProvisioning \/ Supervise
  BY <1>3, <1>a DEF StartProvisioning, startCostSampler, Supervise, Run
<1>4. CASE CreateMachine \/ ProvisionOk \/ ProvisionFails
  BY <1>4, <1>a DEF CreateMachine, Attempt, ProvisionOk, ProvisionFails,
         TornDown, Provisioning, Run
<1>5. CASE ProvisionFailed
  BY <1>5, <1>a DEF ProvisionFailed, Moves, SaveRun, ToRecord, Run,
         Transition, SetError, CanTransition, None
<1>6. CASE Provisioned
  <2>1. run' \in Run /\ run'.state = run.state
    BY <1>6, ProvisionedRun
  <2>2. ToRecord(run') # None /\ ToRecord(run').state = run'.state
    BY <2>1, ToRecordType
  <2>3. IsTerminal(run.state) => IsTerminal(run'.state)
    BY <2>1, TerminalStays
  <2>4. pend' = pend \/ pend' = [pend EXCEPT !["main"] = ToRecord(run')]
    BY <1>6 DEF Provisioned, SaveRun
  <2>5. QED
    BY <1>6, <1>a, <2>1, <2>2, <2>3, <2>4 DEF Provisioned
<1>7. CASE Detach \/ Return
  BY <1>7, <1>a DEF Detach, Moves, SaveRun, ToRecord, Return, Run, None
<1>8. CASE FirstRenewal
  <2>1. ToRecord(run) # None /\ ToRecord(run).state = run.state
    BY <1>a, ToRecordType
  <2>2. /\ pc = "firstRenewal" /\ pc' = "status" /\ UNCHANGED <<run, disk, vm, plan>>
        /\ pend["main"] = None
        /\ pend' = pend \/ pend' = [pend EXCEPT !["main"] = ToRecord(run)]
    BY <1>8 DEF FirstRenewal, SaveRun
  <2>3. QED
    BY <1>a, <2>1, <2>2
<1>9. CASE StatusError \/ StatusRunning \/ StatusCompleted \/ StatusFailed
  BY <1>9, <1>a DEF StatusError, StatusRunning, StatusIs, StatusCompleted,
         StatusFailed, Run
<1>10. CASE PollAgain \/ PollCanceled \/ PollDeadline
  BY <1>10, <1>a DEF PollAgain, Moves, PollCanceled, PollDeadline, Terminate,
         Run
<1>11. CASE Fails
  BY <1>11, <1>a DEF Fails, Run
<1>12. CASE RetryStopSampler \/ RetryStopHeartbeat
  BY <1>12, <1>a DEF RetryStopSampler, Moves, RetryStopHeartbeat, Run
<1>13. CASE RetryCleanup
  BY <1>13, <1>a DEF RetryCleanup, TornDown, Run
<1>14. CASE Reprovisioned
  <2>1. run' \in Run /\ run'.state = run.state
    BY <1>14, ReprovisionedRun
  <2>2. ToRecord(run') # None /\ ToRecord(run').state = run'.state
    BY <2>1, ToRecordType
  <2>3. IsTerminal(run.state) => IsTerminal(run'.state)
    BY <2>1, TerminalStays
  <2>4. pend' = pend \/ pend' = [pend EXCEPT !["main"] = ToRecord(run')]
    BY <1>14 DEF Reprovisioned, SaveRun
  <2>5. QED
    BY <1>14, <1>a, <2>1, <2>2, <2>3, <2>4 DEF Reprovisioned
<1>15. CASE CollectBegin \/ CollectAgain
  BY <1>15, <1>a DEF CollectBegin, CollectAgain, Run, Transition, SetError,
         CanTransition
<1>16. CASE Dumped \/ Collected
  BY <1>16, <1>a DEF Dumped, Collected, Run, Transition, SetError,
         CanTransition
<1>17. CASE NotCollected
  BY <1>17, <1>a DEF NotCollected, SaveRun, ToRecord, Run, Transition,
         SetError, CanTransition, None
<1>18. CASE CleanupSkipped
  BY <1>18, <1>a DEF CleanupSkipped, CleanupReturns, SaveRun, ToRecord,
         InCleanup, Run, None
<1>19. CASE CleanupBegin \/ CleanupAgain
  BY <1>19, <1>a DEF CleanupBegin, CleanupAgain, TornDown, InCleanup, Run,
         Transition, SetError, CanTransition
<1>20. CASE CleanupOk
  <2>1. run' \in Run /\ run'.handle = 0
      /\ run'.state = Transition(run.state, "completed")
    BY <1>20, CleanupOkRun
  <2>2. ToRecord(run') # None /\ ToRecord(run').state = run'.state
    BY <2>1, ToRecordType
  <2>3. IsTerminal(run.state) => IsTerminal(run'.state)
    BY <2>1, TerminalStays
  <2>4. pend' = pend \/ pend' = [pend EXCEPT !["main"] = ToRecord(run')]
    BY <1>20 DEF CleanupOk, CleanupReturns, SaveRun
  <2>5. QED
    BY <1>20, <1>a, <2>1, <2>2, <2>3, <2>4 DEF CleanupOk, InCleanup, CleanupReturns
<1>21. CASE CleanupFails
  <2>1. run' \in Run /\ run'.handle = run.handle
      /\ run'.state = SetError(run.state, "cleanup-failed")
    BY <1>21, CleanupFailsRun
  <2>2. ToRecord(run') # None /\ ToRecord(run').state = run'.state
    BY <2>1, ToRecordType
  <2>3. IsTerminal(run.state) => IsTerminal(run'.state)
    BY <2>1, TerminalStays
  <2>4. pend' = pend \/ pend' = [pend EXCEPT !["main"] = ToRecord(run')]
    BY <1>21 DEF CleanupFails, CleanupReturns, SaveRun
  <2>5. QED
    BY <1>21, <1>a, <2>1, <2>2, <2>3, <2>4 DEF CleanupFails, InCleanup, CleanupReturns, TornDown
<1>22. CASE UnwindSampler \/ UnwindHeartbeat
  BY <1>22, <1>a DEF UnwindSampler, Moves, UnwindHeartbeat, Run
<1>23. CASE Recover
  BY <1>23, <1>a DEF Recover, Moves, SaveRun, ToRecord, Run, Transition,
         SetError, CanTransition, None
<1>24. CASE SamplerTick
  BY <1>24, <1>a DEF SamplerTick, SaveRun, ToRecord, Run, None
<1>25. CASE SamplerWithin \/ SamplerOver \/ SamplerTerminate \/ SamplerExit
  BY <1>25, <1>a DEF SamplerWithin, SamplerOver, SamplerTerminate, Terminate,
         SamplerExit, Run, Transition, SetError, CanTransition
<1>26. CASE HeartbeatTick \/ HeartbeatRenew \/ HeartbeatExit
  <2>1. ToRecord(run) # None /\ ToRecord(run).state = run.state
    BY <1>a, ToRecordType
  <2>2. /\ UNCHANGED <<pc, run, disk, vm, plan>>
        /\ pend' = pend \/ pend' = [pend EXCEPT !["heartbeat"] = ToRecord(run)]
    BY <1>26 DEF HeartbeatTick, HeartbeatRenew, HeartbeatExit, SaveRun
  <2>3. QED
    BY <1>a, <2>1, <2>2
<1>27. ASSUME NEW g \in Goroutines, Flush(g) PROVE ActiveInv'
  <2>1. disk' = pend[g] /\ pend[g] # None /\ pend' = [pend EXCEPT ![g] = None]
    BY <1>27 DEF Flush
  <2>2. ~IsTerminal(None.state)
    BY DEF None, IsTerminal, TerminalStates, FailureStates
  <2>3. QED
    BY <1>27, <1>a, <2>1, <2>2 DEF Flush
<1>28. ASSUME NEW v \in Attempts, WorkloadEnds(v) \/ MachineHalts(v)
      PROVE  ActiveInv'
  BY <1>28, <1>a DEF WorkloadEnds, MachineHalts
<1>29. CASE Cancel \/ SpendGrows
  BY <1>29, <1>a DEF Cancel, SpendGrows, Run
<1>30. CASE Panic
  BY <1>30, <1>a DEF Panic, TornDown, Attempt, Provisioning, Run
<1>31. CASE Exit \/ Crash
  <2>1. /\ pc' \in {"done", "crashed"} /\ UNCHANGED <<run, disk, vm>>
        /\ \A g \in Goroutines : pend'[g] = None
    BY <1>31 DEF Exit, Crash, Quiet
  <2>2. ~IsTerminal(None.state)
    BY DEF None, IsTerminal, TerminalStates, FailureStates
  <2>3. QED
    BY <2>1, <2>2
<1>32. CASE UNCHANGED vars
  BY <1>32, <1>a DEF vars
<1>q. QED
  BY <1>1, <1>2, <1>3, <1>4, <1>5, <1>6, <1>7, <1>8, <1>9, <1>10, <1>11,
     <1>12, <1>13, <1>14, <1>15, <1>16, <1>17, <1>18, <1>19, <1>20, <1>21,
     <1>22, <1>23, <1>24, <1>25, <1>26, <1>27, <1>28, <1>29, <1>30, <1>31,
     <1>32, Zenon
     DEF Next, MainStep, SamplerStep, HeartbeatStep, EnvironmentStep, Stopped

-----------------------------------------------------------------------------
(***************************************************************************)
(* HandleInv is an invariant of every step if no write fails: the handle   *)
(* changes only while both goroutines are joined and hold no snapshot.     *)
(***************************************************************************)
THEOREM HandleStep ==
  ASSUME ~StoreFaults
  PROVE  /\ TypeOK /\ ControlInv /\ AttemptInv /\ ActiveInv
         /\ HandleInv /\ [Next]_vars
         => HandleInv'
<1> SUFFICES ASSUME TypeOK, ControlInv, AttemptInv, ActiveInv, HandleInv,
                    [Next]_vars
             PROVE  HandleInv'
  OBVIOUS
<1>a. run \in Run /\ pend \in [Goroutines -> Record \cup {None}]
  BY DEF TypeOK
<1>b. pc \in SavedLabels => disk # None
  BY DEF ActiveInv
<1>c. pc \in {"reprovisioning", "reprovisioned"} => run.handle = 0
  BY DEF AttemptInv
<1> USE DEF HandleInv, SavedLabels, SupervisedLabels, Goroutines,
      CleanupPlaces, At, others, world, mainVars, goVars, storeVars,
      cloudVars, envVars
<1>1. CASE BeginPlanning \/ Validate \/ OpenGate \/ GateDecides
  BY <1>1, <1>a, <1>b DEF BeginPlanning, Moves, Validate, OpenGate,
         GateDecides, Run
<1>2. CASE Prepare
  BY <1>2, <1>a, <1>b DEF Prepare, Moves, SaveRun, ToRecord, Run
<1>3. CASE StartProvisioning \/ Supervise
  BY <1>3, <1>a, <1>b DEF StartProvisioning, startCostSampler, Supervise, Run
<1>4. CASE CreateMachine \/ ProvisionOk \/ ProvisionFails
  BY <1>4, <1>a, <1>b, <1>c DEF CreateMachine, ProvisionOk, ProvisionFails,
         Provisioning, Run
<1>5. CASE ProvisionFailed
  BY <1>5, <1>a, <1>b DEF ProvisionFailed, Moves, SaveRun, ToRecord, Run
<1>6. CASE Provisioned
  <2>1. pend["sampler"] = None /\ pend["heartbeat"] = None
    BY <1>6 DEF Provisioned, ControlInv, SamplerLabels, HeartbeatLabels, PanicLabels
  <2>2. run' \in Run /\ run'.handle = 1
    BY <1>6, ProvisionedRun
  <2>3. ToRecord(run') # None /\ ToRecord(run').handle = run'.handleState
    BY <2>2, ToRecordType
  <2>4. \/ /\ pc' = "abortCleanup" /\ pend' = pend
           /\ run'.handleState = run.handleState
        \/ /\ pc' \in {"detach", "supervise"}
           /\ pend' = [pend EXCEPT !["main"] = ToRecord(run')]
           /\ plan.durable => run'.handleState = 1
    BY <1>6, ProvisionedRun DEF Provisioned, SaveRun
  <2>5. QED
    BY <1>6, <1>a, <2>1, <2>2, <2>3, <2>4 DEF Provisioned
<1>7. CASE Detach \/ Return
  BY <1>7, <1>a, <1>b DEF Detach, Moves, SaveRun, ToRecord, Return, Run
<1>8. CASE FirstRenewal
  <2>1. ToRecord(run) # None /\ ToRecord(run).handle = run.handleState
    BY <1>a, ToRecordType
  <2>2. /\ pc = "firstRenewal" /\ pc' = "status" /\ UNCHANGED <<run, disk, vm, plan>>
        /\ pend["main"] = None
        /\ pend' = pend \/ pend' = [pend EXCEPT !["main"] = ToRecord(run)]
    BY <1>8 DEF FirstRenewal, SaveRun
  <2>3. QED
    BY <1>a, <1>b, <2>1, <2>2
<1>9. CASE StatusError \/ StatusRunning \/ StatusCompleted \/ StatusFailed
  BY <1>9, <1>a, <1>b DEF StatusError, StatusRunning, StatusIs,
         StatusCompleted, StatusFailed, Run
<1>10. CASE PollAgain \/ PollCanceled \/ PollDeadline
  BY <1>10, <1>a, <1>b DEF PollAgain, Moves, PollCanceled, PollDeadline,
         Terminate, Run
<1>11. CASE Fails
  BY <1>11, <1>a, <1>b DEF Fails, Run
<1>12. CASE RetryStopSampler \/ RetryStopHeartbeat
  BY <1>12, <1>a, <1>b DEF RetryStopSampler, Moves, RetryStopHeartbeat, Run
<1>13. CASE RetryCleanup
  BY <1>13, <1>a, <1>b DEF RetryCleanup, Run
<1>14. CASE Reprovisioned
  <2>1. pend["sampler"] = None /\ pend["heartbeat"] = None
    BY <1>14 DEF Reprovisioned, ControlInv, SamplerLabels, HeartbeatLabels, PanicLabels
  <2>2. run' \in Run /\ run'.handle = 2
    BY <1>14, ReprovisionedRun
  <2>3. ToRecord(run') # None /\ ToRecord(run').handle = run'.handleState
    BY <2>2, ToRecordType
  <2>4. /\ pend' = [pend EXCEPT !["main"] = ToRecord(run')]
        /\ plan.durable => run'.handleState = 2
    BY <1>14, ReprovisionedRun DEF Reprovisioned, SaveRun
  <2>5. QED
    BY <1>14, <1>a, <2>1, <2>2, <2>3, <2>4 DEF Reprovisioned
<1>15. CASE CollectBegin \/ CollectAgain
  BY <1>15, <1>a, <1>b DEF CollectBegin, CollectAgain, Run
<1>16. CASE Dumped \/ Collected
  BY <1>16, <1>a, <1>b DEF Dumped, Collected, Run
<1>17. CASE NotCollected
  BY <1>17, <1>a, <1>b DEF NotCollected, SaveRun, ToRecord, Run
<1>18. CASE CleanupSkipped
  BY <1>18, <1>a, <1>b DEF CleanupSkipped, CleanupReturns, SaveRun, ToRecord,
         InCleanup, Run
<1>19. CASE CleanupBegin \/ CleanupAgain
  BY <1>19, <1>a, <1>b DEF CleanupBegin, CleanupAgain, InCleanup, Run
<1>20. CASE CleanupOk
  <2>1. /\ run' \in Run /\ run'.handleState = run.handleState
        /\ run'.handle = 0
    BY <1>20, CleanupOkRun
  <2>2. ToRecord(run') # None /\ ToRecord(run').handle = run'.handleState
    BY <2>1, ToRecordType
  <2>3. pend' = pend \/ pend' = [pend EXCEPT !["main"] = ToRecord(run')]
    BY <1>20 DEF CleanupOk, CleanupReturns, SaveRun
  <2>4. QED
    BY <1>20, <1>a, <1>b, <2>1, <2>2, <2>3 DEF CleanupOk, InCleanup, CleanupReturns
<1>21. CASE CleanupFails
  <2>1. /\ run' \in Run /\ run'.handleState = run.handleState
        /\ run'.handle = run.handle
    BY <1>21, CleanupFailsRun
  <2>2. ToRecord(run') # None /\ ToRecord(run').handle = run'.handleState
    BY <2>1, ToRecordType
  <2>3. pend' = pend \/ pend' = [pend EXCEPT !["main"] = ToRecord(run')]
    BY <1>21 DEF CleanupFails, CleanupReturns, SaveRun
  <2>4. QED
    BY <1>21, <1>a, <1>b, <2>1, <2>2, <2>3 DEF CleanupFails, InCleanup, CleanupReturns
<1>22. CASE UnwindSampler \/ UnwindHeartbeat
  BY <1>22, <1>a, <1>b DEF UnwindSampler, Moves, UnwindHeartbeat, Run
<1>23. CASE Recover
  BY <1>23, <1>a, <1>b DEF Recover, Moves, SaveRun, ToRecord, Run
<1>24. CASE SamplerTick
  BY <1>24, <1>a, <1>b DEF SamplerTick, SaveRun, ToRecord, Run
<1>25. CASE SamplerWithin \/ SamplerOver \/ SamplerTerminate \/ SamplerExit
  BY <1>25, <1>a, <1>b DEF SamplerWithin, SamplerOver, SamplerTerminate,
         Terminate, SamplerExit, Run
<1>26. CASE HeartbeatTick \/ HeartbeatRenew \/ HeartbeatExit
  <2>1. ToRecord(run) # None /\ ToRecord(run).handle = run.handleState
    BY <1>a, ToRecordType
  <2>2. /\ UNCHANGED <<pc, run, disk, vm, plan>>
        /\ pend' = pend \/ pend' = [pend EXCEPT !["heartbeat"] = ToRecord(run)]
    BY <1>26 DEF HeartbeatTick, HeartbeatRenew, HeartbeatExit, SaveRun
  <2>3. QED
    BY <1>a, <1>b, <2>1, <2>2
<1>27. ASSUME NEW g \in Goroutines, Flush(g) PROVE HandleInv'
  <2>1. disk' = pend[g] /\ pend[g] # None /\ pend' = [pend EXCEPT ![g] = None]
    BY <1>27 DEF Flush
  <2>2. QED
    BY <1>27, <1>a, <2>1 DEF Flush
<1>28. ASSUME NEW v \in Attempts, WorkloadEnds(v) \/ MachineHalts(v)
      PROVE  HandleInv'
  BY <1>28, <1>a, <1>b DEF WorkloadEnds, MachineHalts
<1>29. CASE Cancel \/ SpendGrows
  BY <1>29, <1>a, <1>b DEF Cancel, SpendGrows, Run
<1>30. CASE Panic
  BY <1>30, <1>a, <1>b, <1>c DEF Panic, Provisioning, Run
<1>31. CASE Exit \/ Crash
  BY <1>31, <1>a, <1>b DEF Exit, Quiet, Crash, Run
<1>32. CASE UNCHANGED vars
  BY <1>32, <1>a, <1>b DEF vars
<1>q. QED
  BY <1>1, <1>2, <1>3, <1>4, <1>5, <1>6, <1>7, <1>8, <1>9, <1>10, <1>11,
     <1>12, <1>13, <1>14, <1>15, <1>16, <1>17, <1>18, <1>19, <1>20, <1>21,
     <1>22, <1>23, <1>24, <1>25, <1>26, <1>27, <1>28, <1>29, <1>30, <1>31,
     <1>32, Zenon
     DEF Next, MainStep, SamplerStep, HeartbeatStep, EnvironmentStep, Stopped

-----------------------------------------------------------------------------
(***************************************************************************)
(* ExitInv is an invariant of every step if no write fails: past Return no *)
(* goroutine is left that could change the run or write a snapshot.        *)
(***************************************************************************)
THEOREM ExitStep ==
  ASSUME ~StoreFaults
  PROVE  TypeOK /\ ControlInv /\ ExitInv /\ [Next]_vars => ExitInv'
<1> SUFFICES ASSUME TypeOK, ControlInv, ExitInv, [Next]_vars PROVE ExitInv'
  OBVIOUS
<1>a. run \in Run /\ pend \in [Goroutines -> Record \cup {None}]
  BY DEF TypeOK
<1>b. pc \in {"exit", "done"} /\ ~panicked =>
        /\ sampler = "off" /\ heartbeat = "off"
        /\ pend["sampler"] = None /\ pend["heartbeat"] = None
  BY DEF ControlInv, SamplerLabels, HeartbeatLabels
<1> USE DEF ExitInv, Goroutines, CleanupPlaces, At, others, world, mainVars,
      goVars, storeVars, cloudVars, envVars
<1>1. CASE BeginPlanning \/ Validate \/ OpenGate \/ GateDecides
  BY <1>1, <1>a, <1>b DEF BeginPlanning, Moves, Validate, OpenGate,
         GateDecides
<1>2. CASE Prepare
  BY <1>2, <1>a, <1>b DEF Prepare, Moves, SaveRun
<1>3. CASE StartProvisioning \/ Supervise
  BY <1>3, <1>a, <1>b DEF StartProvisioning, startCostSampler, Supervise
<1>4. CASE CreateMachine \/ ProvisionOk \/ ProvisionFails
  BY <1>4, <1>a, <1>b DEF CreateMachine, ProvisionOk, ProvisionFails,
         Provisioning
<1>5. CASE ProvisionFailed
  BY <1>5, <1>a, <1>b DEF ProvisionFailed, Moves, SaveRun
<1>6. CASE Provisioned
  BY <1>6, <1>a, <1>b DEF Provisioned, SaveRun
<1>7. CASE Detach \/ Return
  <2>1. ToRecord(run) # None
    BY <1>a, ToRecordType
  <2>2. run' = run
    BY <1>7, <1>a DEF Detach, Return, Moves, Run
  <2>3. QED
    BY <1>7, <1>a, <2>1, <2>2 DEF Detach, Return, Moves, SaveRun
<1>8. CASE FirstRenewal
  BY <1>8, <1>a, <1>b DEF FirstRenewal, SaveRun
<1>9. CASE StatusError \/ StatusRunning \/ StatusCompleted \/ StatusFailed
  BY <1>9, <1>a, <1>b DEF StatusError, StatusRunning, StatusIs,
         StatusCompleted, StatusFailed
<1>10. CASE PollAgain \/ PollCanceled \/ PollDeadline
  BY <1>10, <1>a, <1>b DEF PollAgain, Moves, PollCanceled, PollDeadline,
         Terminate
<1>11. CASE Fails
  BY <1>11, <1>a, <1>b DEF Fails
<1>12. CASE RetryStopSampler \/ RetryStopHeartbeat
  BY <1>12, <1>a, <1>b DEF RetryStopSampler, Moves, RetryStopHeartbeat
<1>13. CASE RetryCleanup
  BY <1>13, <1>a, <1>b DEF RetryCleanup
<1>14. CASE Reprovisioned
  BY <1>14, <1>a, <1>b DEF Reprovisioned, SaveRun
<1>15. CASE CollectBegin \/ CollectAgain
  BY <1>15, <1>a, <1>b DEF CollectBegin, CollectAgain
<1>16. CASE Dumped \/ Collected
  BY <1>16, <1>a, <1>b DEF Dumped, Collected
<1>17. CASE NotCollected
  BY <1>17, <1>a, <1>b DEF NotCollected, SaveRun
<1>18. CASE CleanupSkipped
  BY <1>18, <1>a, <1>b DEF CleanupSkipped, CleanupReturns, SaveRun, InCleanup
<1>19. CASE CleanupBegin \/ CleanupAgain
  BY <1>19, <1>a, <1>b DEF CleanupBegin, CleanupAgain, InCleanup
<1>20. CASE CleanupOk
  BY <1>20, <1>a, <1>b DEF CleanupOk, CleanupReturns, SaveRun, InCleanup
<1>21. CASE CleanupFails
  BY <1>21, <1>a, <1>b DEF CleanupFails, CleanupReturns, SaveRun, InCleanup
<1>22. CASE UnwindSampler \/ UnwindHeartbeat
  BY <1>22, <1>a, <1>b DEF UnwindSampler, Moves, UnwindHeartbeat
<1>23. CASE Recover
  BY <1>23, <1>a, <1>b DEF Recover, Moves, SaveRun
<1>24. CASE SamplerTick
  BY <1>24, <1>a, <1>b DEF SamplerTick, SaveRun
<1>25. CASE SamplerWithin \/ SamplerOver \/ SamplerTerminate \/ SamplerExit
  BY <1>25, <1>a, <1>b DEF SamplerWithin, SamplerOver, SamplerTerminate,
         Terminate, SamplerExit
<1>26. CASE HeartbeatTick \/ HeartbeatRenew \/ HeartbeatExit
  BY <1>26, <1>a, <1>b DEF HeartbeatTick, HeartbeatRenew, SaveRun,
         HeartbeatExit
<1>27. ASSUME NEW g \in Goroutines, Flush(g) PROVE ExitInv'
  <2>1. disk' = pend[g] /\ pend[g] # None /\ pend' = [pend EXCEPT ![g] = None]
    BY <1>27 DEF Flush
  <2>2. CASE g = "main"
    BY <1>27, <1>a, <2>1, <2>2 DEF Flush
  <2>3. CASE g # "main"
    BY <1>27, <1>a, <1>b, <2>1, <2>3 DEF Flush
  <2>4. QED
    BY <2>2, <2>3
<1>28. ASSUME NEW v \in Attempts, WorkloadEnds(v) \/ MachineHalts(v)
      PROVE  ExitInv'
  BY <1>28, <1>a, <1>b DEF WorkloadEnds, MachineHalts
<1>29. CASE Cancel \/ SpendGrows
  BY <1>29, <1>a, <1>b DEF Cancel, SpendGrows
<1>30. CASE Panic
  BY <1>30, <1>a, <1>b DEF Panic, Provisioning
<1>31. CASE Exit \/ Crash
  BY <1>31, <1>a, <1>b DEF Exit, Quiet, Crash
<1>32. CASE UNCHANGED vars
  BY <1>32, <1>a, <1>b DEF vars
<1>q. QED
  BY <1>1, <1>2, <1>3, <1>4, <1>5, <1>6, <1>7, <1>8, <1>9, <1>10, <1>11,
     <1>12, <1>13, <1>14, <1>15, <1>16, <1>17, <1>18, <1>19, <1>20, <1>21,
     <1>22, <1>23, <1>24, <1>25, <1>26, <1>27, <1>28, <1>29, <1>30, <1>31,
     <1>32, Zenon
     DEF Next, MainStep, SamplerStep, HeartbeatStep, EnvironmentStep, Stopped

-----------------------------------------------------------------------------
(***************************************************************************)
(* The layers together are an inductive invariant.                         *)
(***************************************************************************)
THEOREM InvInit == Init => ExecutorInv
<1> SUFFICES ASSUME Init PROVE ExecutorInv
  OBVIOUS
<1>1. TypeOK
  BY TypeInit
<1>2. ControlInv
  BY DEF Init, Quiet, NewRun, ControlInv, Goroutines, PanicLabels, RetryLabels
<1>3. AttemptInv
  BY DEF Init, NewRun, AttemptInv, Busy, Attempts, RetryLabels
<1>4. ActiveInv
  BY DEF Init, Quiet, NewRun, None, ActiveInv, SavedLabels, SupervisedLabels,
         Goroutines, Attempts, IsTerminal, TerminalStates, FailureStates
<1>5. HandleInv
  BY DEF Init, Quiet, NewRun, HandleInv, SupervisedLabels, Goroutines
<1>6. ExitInv
  BY DEF Init, ExitInv
<1>7. RunawayInv /\ OutputInv
  BY DEF Init, NewRun, RunawayInv, OutputInv, Busy, Attempts
<1>8. StateInv /\ TriedInv
  BY DEF Init, NewRun, StateInv, TriedInv, UnderwayLabels, RetryLabels
<1>9. QED
  BY <1>1, <1>2, <1>3, <1>4, <1>5, <1>6, <1>7, <1>8 DEF ExecutorInv

(***************************************************************************)
(* ExecutorInv is an invariant of every step: the layers are preserved one *)
(* after the other.                                                        *)
(***************************************************************************)
THEOREM InvStep == ExecutorInv /\ [Next]_vars => ExecutorInv'
  BY TypeStep, ControlStep, AttemptStep, RunawayStep, StateStep, TriedStep,
     OutputStep, ActiveStep, HandleStep, ExitStep
     DEF ExecutorInv

(***************************************************************************)
(* ExecutorInv holds in every reachable state.                             *)
(***************************************************************************)
THEOREM InvCorrect == Spec => []ExecutorInv
  BY InvInit, InvStep, PTL DEF Spec

(***************************************************************************)
(* The workload of a run never executes on two machines at once, whatever  *)
(* the store, the goroutines and the provider do.                          *)
(***************************************************************************)
THEOREM SingleExecution == Spec => []NoDoubleExecution
<1>1. ExecutorInv => NoDoubleExecution
  <2> SUFFICES ASSUME ExecutorInv, NEW v \in Attempts, NEW w \in Attempts,
                      Busy(v), Busy(w)
               PROVE  v = w
    BY DEF NoDoubleExecution
  <2>1. run.retries \in 0..1
    BY DEF ExecutorInv, TypeOK, Run
  <2>2. ~Busy(1) \/ ~Busy(2)
    BY <2>1 DEF ExecutorInv, AttemptInv, Busy
  <2>3. QED
    BY <2>2 DEF Attempts
<1>2. QED
  BY <1>1, InvCorrect, PTL

(***************************************************************************)
(* If no write of the record fails, a live run's machines are covered by a *)
(* record that gc takes for active.                                        *)
(***************************************************************************)
THEOREM ActiveOnRecord ==
  ASSUME ~StoreFaults
  PROVE  Spec => []ActiveRunIsOnRecord
<1>1. ExecutorInv => ActiveRunIsOnRecord
  BY DEF ExecutorInv, ActiveInv, ActiveRunIsOnRecord, Exists
<1>2. QED
  BY <1>1, InvCorrect, PTL

(***************************************************************************)
(* If no write of the record fails, the record of a supervised run names   *)
(* the machine the run holds.                                              *)
(***************************************************************************)
THEOREM HandleOnRecord ==
  ASSUME ~StoreFaults
  PROVE  Spec => []SupervisedHandleIsOnRecord
<1>1. ExecutorInv => SupervisedHandleIsOnRecord
  BY DEF ExecutorInv, HandleInv, SupervisedHandleIsOnRecord
<1>2. QED
  BY <1>1, InvCorrect, PTL

(***************************************************************************)
(* If no write of the record fails, a process that exits has left on disk  *)
(* what it held in memory.                                                 *)
(***************************************************************************)
THEOREM ExitOnRecord ==
  ASSUME ~StoreFaults
  PROVE  Spec => []ExitedRecordIsCurrent
<1>1. ExecutorInv => ExitedRecordIsCurrent
  BY DEF ExecutorInv, ExitInv, ExitedRecordIsCurrent
<1>2. QED
  BY <1>1, InvCorrect, PTL

(***************************************************************************)
(* A process that exits leaves no workload running that is not recorded as *)
(* a leak or detached from, whether or not its writes succeed.             *)
(***************************************************************************)
THEOREM NoRunaway == Spec => []NoSilentRunaway
<1>1. ExecutorInv => NoSilentRunaway
  BY DEF ExecutorInv, RunawayInv, Excused, NoSilentRunaway
<1>2. QED
  BY <1>1, InvCorrect, PTL

(***************************************************************************)
(* A process that exits with a handle has tried to clean it up, unless it  *)
(* detached from it or keeps it for outputs it could not collect.          *)
(***************************************************************************)
THEOREM CleanupTried == Spec => []CleanupIsTried
<1>1. ExecutorInv => CleanupIsTried
  BY DEF ExecutorInv, TriedInv, Tried, CleanupIsTried
<1>2. QED
  BY <1>1, InvCorrect, PTL

(***************************************************************************)
(* No step but a panic's destroys a machine whose outputs are owed.        *)
(***************************************************************************)
THEOREM OutputsKept == Spec => OutputsOutliveMachine
<1>1. ExecutorInv /\ [Next]_vars
        => [\A v \in Attempts :
              vm[v] # "gone" /\ vm'[v] = "gone" => owed # v \/ panicked]_vars
  BY OutputsStep DEF ExecutorInv
<1>2. QED
  BY <1>1, InvCorrect, PTL DEF Spec, OutputsOutliveMachine

-----------------------------------------------------------------------------
(***************************************************************************)
(* The instance's copies of the operators of RunStates are the same.       *)
(***************************************************************************)
LEMMA SameStates ==
  /\ Lifecycle!RunState = RunState
  /\ Lifecycle!FailureStates = FailureStates
  /\ \A s : Lifecycle!IsTerminal(s) = IsTerminal(s)
  /\ \A s, to : Lifecycle!CanTransition(s, to) = CanTransition(s, to)
  BY DEF Lifecycle!RunState, RunState, Lifecycle!ActiveStates, ActiveStates,
         Lifecycle!TerminalStates, TerminalStates, Lifecycle!FailureStates,
         FailureStates, Lifecycle!IsTerminal, IsTerminal,
         Lifecycle!CanTransition, CanTransition, Lifecycle!validTransitions,
         validTransitions

(***************************************************************************)
(* A state assigned with Transition, or with SetError to a failure, is a   *)
(* step of the run state machine or no step at all.                        *)
(***************************************************************************)
LEMMA LifecycleMove ==
  ASSUME NEW to, \/ to \in RunState /\ run'.state = Transition(run.state, to)
                 \/ to \in FailureStates /\ run'.state = SetError(run.state, to)
  PROVE  [Lifecycle!Next]_(run.state)
<1>1. CASE to \in RunState /\ run'.state = Transition(run.state, to)
  <2>1. CASE CanTransition(run.state, to)
    BY <1>1, <2>1, SameStates
       DEF Transition, Lifecycle!Next, Lifecycle!Advance
  <2>2. CASE ~CanTransition(run.state, to)
    BY <1>1, <2>2 DEF Transition
  <2>3. QED
    BY <2>1, <2>2
<1>2. CASE to \in FailureStates /\ run'.state = SetError(run.state, to)
  BY <1>2, SameStates DEF SetError, Lifecycle!Next, Lifecycle!Fail
<1>3. QED
  BY <1>1, <1>2

(***************************************************************************)
(* Every step of the executor is a step of the run state machine.          *)
(***************************************************************************)
THEOREM LifecycleStep == TypeOK /\ [Next]_vars => [Lifecycle!Next]_(run.state)
<1> SUFFICES ASSUME TypeOK, [Next]_vars PROVE [Lifecycle!Next]_(run.state)
  OBVIOUS
<1>a. run \in Run
  BY DEF TypeOK
<1>b. /\ \A s \in {"planning", "validated", "awaiting-approval", "preparing",
                   "running", "budget-exceeded", "collecting-artifacts",
                   "reconciling-cost", "artifact-failed", "cleaning-up",
                   "completed"} : s \in RunState
      /\ \A s \in {"plan-invalid", "approval-denied", "package-failed",
                   "provisioning-failed", "execution-failed",
                   "cleanup-failed"} : s \in FailureStates
  BY DEF RunState, ActiveStates, TerminalStates, FailureStates
<1> USE DEF others, world, mainVars, goVars, storeVars, cloudVars, envVars
<1>1. CASE BeginPlanning
  <2>1. run'.state = Transition(run.state, "planning")
    BY <1>1, <1>a DEF BeginPlanning, Moves, Run
  <2>2. QED
    BY <2>1, <1>b, LifecycleMove
<1>2. CASE Validate
  <2>1. \/ run'.state = Transition(run.state, "validated")
        \/ run'.state = SetError(run.state, "plan-invalid")
    BY <1>2, <1>a DEF Validate, Moves, Run
  <2>2. QED
    BY <2>1, <1>b, LifecycleMove
<1>3. CASE OpenGate
  <2>1. \/ run'.state = Transition(run.state, "awaiting-approval")
        \/ run'.state = Transition(run.state, "preparing")
    BY <1>3, <1>a DEF OpenGate, Moves, Run
  <2>2. QED
    BY <2>1, <1>b, LifecycleMove
<1>4. CASE GateDecides
  <2>1. \/ run'.state = Transition(run.state, "preparing")
        \/ run'.state = SetError(run.state, "approval-denied")
    BY <1>4, <1>a DEF GateDecides, Moves, Run
  <2>2. QED
    BY <2>1, <1>b, LifecycleMove
<1>5. CASE Prepare
  <2>1. \/ run'.state = Transition(run.state, "running")
        \/ run'.state = SetError(run.state, "package-failed")
    BY <1>5, <1>a DEF Prepare, Moves, Run
  <2>2. QED
    BY <2>1, <1>b, LifecycleMove
<1>6. CASE ProvisionFailed
  <2>1. \/ run'.state = run.state
        \/ run'.state = SetError(run.state, "provisioning-failed")
    BY <1>6, <1>a DEF ProvisionFailed, Moves, Run
  <2>2. QED
    BY <2>1, <1>b, LifecycleMove
<1>7. CASE CollectBegin
  <2>1. run'.state = Transition(run.state, "collecting-artifacts")
    BY <1>7, <1>a DEF CollectBegin, Transition, Run
  <2>2. QED
    BY <2>1, <1>b, LifecycleMove
<1>8. CASE Dumped
  <2>1. run'.state = SetError(run.state, "execution-failed")
    BY <1>8, <1>a DEF Dumped, Run
  <2>2. QED
    BY <2>1, <1>b, LifecycleMove
<1>9. CASE Collected
  <2>1. run'.state = Transition(run.state, "reconciling-cost")
    BY <1>9, <1>a DEF Collected, Run
  <2>2. QED
    BY <2>1, <1>b, LifecycleMove
<1>10. CASE NotCollected
  <2>1. run'.state = Transition(run.state, "artifact-failed")
    BY <1>10, <1>a DEF NotCollected, Run
  <2>2. QED
    BY <2>1, <1>b, LifecycleMove
<1>11. CASE CleanupBegin
  <2>1. run'.state = Transition(run.state, "cleaning-up")
    BY <1>11, <1>a DEF CleanupBegin, Run
  <2>2. QED
    BY <2>1, <1>b, LifecycleMove
<1>12. CASE CleanupOk
  BY <1>12, <1>b, CleanupOkRun, LifecycleMove
<1>13. CASE CleanupFails
  BY <1>13, <1>b, CleanupFailsRun, LifecycleMove
<1>14. CASE Recover
  <2>1. run'.state = SetError(run.state, "execution-failed")
    BY <1>14, <1>a DEF Recover, Moves, Run
  <2>2. QED
    BY <2>1, <1>b, LifecycleMove
<1>15. CASE SamplerOver
  <2>1. run'.state = Transition(run.state, "budget-exceeded")
    BY <1>15, <1>a DEF SamplerOver, Run
  <2>2. QED
    BY <2>1, <1>b, LifecycleMove
<1>16. CASE Provisioned \/ Reprovisioned
  BY <1>16, ProvisionedRun, ReprovisionedRun
<1>17. CASE Detach \/ Return \/ PollAgain \/ RetryStopSampler \/
          RetryStopHeartbeat \/ UnwindSampler \/ UnwindHeartbeat
  BY <1>17, <1>a DEF Detach, Moves, Return, PollAgain, RetryStopSampler,
         RetryStopHeartbeat, UnwindSampler, UnwindHeartbeat, Run
<1>18. CASE Fails \/ RetryCleanup
  BY <1>18, <1>a DEF Fails, RetryCleanup, Run
<1>19. CASE StartProvisioning \/ CreateMachine \/ ProvisionOk \/
          ProvisionFails \/ Supervise \/ FirstRenewal
  BY <1>19, <1>a DEF StartProvisioning, CreateMachine, ProvisionOk,
         ProvisionFails, Supervise, FirstRenewal
<1>20. CASE StatusError \/ StatusRunning \/ StatusCompleted \/
          StatusFailed \/ PollCanceled \/ PollDeadline
  BY <1>20, <1>a DEF StatusError, StatusRunning, StatusIs, StatusCompleted,
         StatusFailed, PollCanceled, PollDeadline
<1>21. CASE CollectAgain \/ CleanupSkipped \/ CleanupAgain \/ Exit
  BY <1>21, <1>a DEF CollectAgain, CleanupSkipped, CleanupReturns, CleanupAgain,
         Exit
<1>22. CASE SamplerTick \/ SamplerWithin \/ SamplerTerminate \/
          SamplerExit \/ HeartbeatTick \/ HeartbeatRenew \/
          HeartbeatExit
  BY <1>22, <1>a DEF SamplerTick, SamplerWithin, SamplerTerminate, SamplerExit,
         HeartbeatTick, HeartbeatRenew, HeartbeatExit
<1>23. CASE Cancel \/ SpendGrows \/ Panic \/ Crash
  BY <1>23, <1>a DEF Cancel, SpendGrows, Panic, Crash
<1>24. ASSUME NEW g \in Goroutines, Flush(g) PROVE run' = run
  BY <1>24 DEF Flush
<1>25. ASSUME NEW v \in Attempts, WorkloadEnds(v) \/ MachineHalts(v)
       PROVE  run' = run
  BY <1>25 DEF WorkloadEnds, MachineHalts
<1>26. CASE UNCHANGED vars
  BY <1>26 DEF vars
<1>q. QED
  BY <1>1, <1>2, <1>3, <1>4, <1>5, <1>6, <1>7, <1>8, <1>9, <1>10, <1>11,
     <1>12, <1>13, <1>14, <1>15, <1>16, <1>17, <1>18, <1>19, <1>20, <1>21,
     <1>22, <1>23, <1>24, <1>25, <1>26
     DEF Next, MainStep, SamplerStep, HeartbeatStep, EnvironmentStep, Stopped

(***************************************************************************)
(* The executor implements the run state machine: the sampler and main,    *)
(* acting on the run concurrently, never leave a final state and never     *)
(* take a transition the table does not have.                              *)
(***************************************************************************)
THEOREM LifecycleCorrect == Spec => ImplementsLifecycle
<1>1. Init => Lifecycle!Init
  BY DEF Init, NewRun, Lifecycle!Init
<1>2. QED
  BY <1>1, TypeCorrect, LifecycleStep, PTL
     DEF Spec, ImplementsLifecycle, Lifecycle!Spec

=============================================================================
