---------------------------- MODULE CloudVMProofs ----------------------------
(***************************************************************************)
(* Proofs about one machine of a run, for every number of status errors    *)
(* and every set of declared outputs.                                      *)
(***************************************************************************)
EXTENDS CloudVM, TLAPS

(***************************************************************************)
(* What the machine, the workload and the poll loop have to do with each   *)
(* other.  A workload is there only once Execute has launched it, and      *)
(* launches it once; an exit code is written by a runner that then ends,   *)
(* so no code is ever written over another.  The poll loop goes on as long *)
(* as it has failed less often than it may.                                *)
(***************************************************************************)
WorkInv ==
  /\ work.job = "none" => work.runner = "none"
  /\ work.job = "running" => work.runner \in {"alive", "killed"}
  /\ work.job = "ended" => work.runner \in {"killed", "ended"}
  /\ work.code # NoCode => work.job = "ended"

SupInv ==
  /\ sup = "setup" => work.job = "none" /\ view.state = "running" /\ view.errs = 0
  /\ sup \in {"attached", "detached"} => work.job # "none"
  /\ sup = "attached" => view.errs < MaxErrs

VMInv == TypeOK /\ WorkInv /\ SupInv /\ StatusIsReal /\ FetchedOrReported

-----------------------------------------------------------------------------
(***************************************************************************)
(* Lemmas about single operators.                                          *)
(***************************************************************************)

\* Execute has a fixed number of steps.
LEMMA LenSteps == Len(Steps) \in Nat
BY DEF Steps, SetupSteps, K8sSteps

\* ClassifyFailure gives one of the three classes, whatever the details.
LEMMA ClassType ==
  ASSUME NEW d
  PROVE  ClassifyFailure(d) \in {"transient", "permanent", "unknown"}
<1> DEFINE P == d.code = 0 /\ d.signal = "" /\ ~d.message
           Q == d.signal \in {"killed", "SIGKILL", "SIGTERM", "terminated"}
           R == killSignalExit(d.code)
<1>1. ClassifyFailure(d) =
        CASE d.reclaimed \/ d.oom -> "transient"
          [] Q -> "transient" [] R -> "transient" [] P -> "unknown"
          [] OTHER -> "permanent"
  BY DEF ClassifyFailure
<1> HIDE DEF P, Q, R
<1> QED
  BY <1>1

(***************************************************************************)
(* The provider says "terminated" of a machine that is down: for lima      *)
(* also when limactl fails, for a Job when its command has ended well.     *)
(***************************************************************************)
LEMMA TerminatedIsDown ==
  ASSUME TypeOK, "terminated" \in GetVM, provider \notin {"lima", "kubernetes"}
  PROVE  vm.st \in Down
<1>1. provider \in {"aws", "azure", "gcp", "hetzner", "oci", "lambda", "firecracker"}
  BY ProvidersAssumption DEF TypeOK
<1> QED
  BY <1>1 DEF GetVM, awsGetVM, azureGetVM, gcpGetVM, hetznerGetVM, ociGetVM,
              lambdaGetVM, firecrackerGetVM, Down

\* What a Status may return, whatever the provider answers and ssh shows.
Reports(v) ==
  /\ v \in View
  /\ v.errs = IF v.err THEN view.errs + 1 ELSE 0
  /\ v.state = "completed" => work.code = 0
  /\ v.state = "failed" /\ ~v.err /\ provider # "lima"
       => vm.st \in Down \/ work.runner \in {"killed", "ended"}

\* The view after a Status that could tell, and after one that could not.
LEMMA DeterminedIs ==
  ASSUME TypeOK, NEW s \in {"running", "failed", "completed"}
  PROVE  /\ Determined(s) \in View
         /\ Determined(s).state = s /\ ~Determined(s).err /\ Determined(s).errs = 0
<1>1. view \in View /\ 0 \in 0..MaxErrs
  BY StatusAssumption DEF TypeOK
<1>2. Determined(s) \in View
  BY <1>1 DEF View, Determined
<1>3. Determined(s).state = s /\ Determined(s).errs = 0
  BY <1>1 DEF View, Determined
<1>4. Determined(s).err = FALSE
  BY <1>1 DEF View, Determined
<1> QED
  BY <1>2, <1>3, <1>4

\* A Status that fails counts one more error in a row.
LEMMA UndeterminedIs ==
  ASSUME TypeOK, view.errs < MaxErrs, NEW s \in {"running", "failed", "completed"}
  PROVE  /\ Undetermined(s) \in View
         /\ Undetermined(s).state = s /\ Undetermined(s).err
         /\ Undetermined(s).errs = view.errs + 1
<1>1. view \in View /\ view.errs + 1 \in 0..MaxErrs
  BY StatusAssumption DEF TypeOK, View
<1>2. Undetermined(s) \in View
  BY <1>1 DEF View, Undetermined
<1>3. Undetermined(s).state = s /\ Undetermined(s).errs = view.errs + 1
  BY <1>1 DEF View, Undetermined
<1>4. Undetermined(s).err = TRUE
  BY <1>1 DEF View, Undetermined
<1> QED
  BY <1>2, <1>3, <1>4

\* The exit code read is the one that was written.
LEMMA ReadExitCodeReports ==
  ASSUME TypeOK, WorkInv, work.job # "none", work.runner # "alive",
         NEW v \in ReadExitCode
  PROVE  Reports(v)
<1>1. work.runner \in {"killed", "ended"}
  BY DEF TypeOK, WorkInv, Workloads
<1>2. CASE v = [Determined("failed") EXCEPT !.read = FALSE, !.code = -1]
  <2>1. Determined("failed") \in View /\ Determined("failed").state = "failed"
        /\ ~Determined("failed").err /\ Determined("failed").errs = 0
    BY DeterminedIs
  <2>2. v \in View /\ v.state = "failed" /\ ~v.err /\ v.errs = 0
    <3>1. -1 \in Codes
      BY DEF Codes, NoCode
    <3> QED
      BY <1>2, <2>1, <3>1 DEF View
  <2> QED
    BY <1>1, <2>2 DEF Reports
<1>3. CASE /\ work.code # NoCode
           /\ v = [Determined(IF work.code = 0 THEN "completed" ELSE "failed")
                     EXCEPT !.read = TRUE, !.code = work.code]
  <2> DEFINE s == IF work.code = 0 THEN "completed" ELSE "failed"
  <2>1. Determined(s) \in View /\ Determined(s).state = s
        /\ ~Determined(s).err /\ Determined(s).errs = 0
    BY DeterminedIs
  <2>2. v \in View /\ v.state = s /\ ~v.err /\ v.errs = 0
    BY <1>3, <2>1 DEF View, TypeOK, Workloads
  <2> QED
    BY <1>1, <2>2 DEF Reports
<1> QED
  BY <1>2, <1>3 DEF ReadExitCode

\* So a probe of the runner reports the truth, or that it has none.
LEMMA ProbeReports ==
  ASSUME TypeOK, WorkInv, work.job # "none", view.errs < MaxErrs, NEW v \in Probe
  PROVE  Reports(v)
<1>1. Reports(Determined("running"))
  BY DeterminedIs DEF Reports
<1>2. Reports(Undetermined("running"))
  BY UndeterminedIs DEF Reports
<1>3. \/ v \in {Determined("running"), Undetermined("running")}
      \/ work.runner # "alive" /\ v \in ReadExitCode
  BY DEF Probe
<1> QED
  BY <1>1, <1>2, <1>3, ReadExitCodeReports

\* And so does Status, for a machine of any provider and for a Job.
LEMMA StatusReports ==
  ASSUME TypeOK, WorkInv, work.job # "none", view.errs < MaxErrs,
         NEW s \in GetVM, NEW v \in Status(s)
  PROVE  Reports(v)
<1>1. Reports(Undetermined("failed"))
  BY UndeterminedIs DEF Reports
<1>2. Reports(Determined("running"))
  BY DeterminedIs DEF Reports
<1>3. CASE provider = "kubernetes"
  <2>1. s \in {k8sGetVM, "fails"}
    BY <1>3 DEF GetVM
  <2>2. s = "terminated" => work.code = 0
    BY <2>1 DEF k8sGetVM
  <2>3. s = "error" => vm.st \in Down \/ work.job = "ended"
    BY <2>1 DEF k8sGetVM, Down
  <2>4. v = Undetermined("failed") \/ v = Determined("running")
        \/ (s = "terminated" /\ v = Determined("completed"))
        \/ (s = "error" /\ v = Determined("failed"))
    BY <1>3 DEF Status, K8sStatus
  <2>5. CASE s = "terminated" /\ v = Determined("completed")
    BY <2>2, <2>5, DeterminedIs DEF Reports
  <2>6. CASE s = "error" /\ v = Determined("failed")
    BY <2>3, <2>6, DeterminedIs DEF Reports, WorkInv
  <2> QED
    BY <1>1, <1>2, <2>4, <2>5, <2>6
<1>4. CASE provider # "kubernetes"
  <2>1. v = Undetermined("failed") \/ v \in Probe
        \/ (s = "terminated"
            /\ v = [Determined("failed") EXCEPT !.reclaimed = @ \/ spot])
    BY <1>4 DEF Status, CloudVMStatus
  <2>2. CASE s = "terminated"
             /\ v = [Determined("failed") EXCEPT !.reclaimed = @ \/ spot]
    <3>1. provider # "lima" => vm.st \in Down
      BY <1>4, <2>2, TerminatedIsDown
    <3>2. /\ Determined("failed") \in View /\ Determined("failed").state = "failed"
          /\ ~Determined("failed").err /\ Determined("failed").errs = 0
      BY DeterminedIs
    <3>3. v \in View /\ v.state = "failed" /\ ~v.err /\ v.errs = 0
      BY <2>2, <3>2 DEF View, TypeOK
    <3> QED
      BY <3>1, <3>3 DEF Reports
  <2> QED
    BY <1>1, <2>1, <2>2, ProbeReports
<1> QED
  BY <1>3, <1>4

-----------------------------------------------------------------------------
(***************************************************************************)
(* The steps.                                                              *)
(***************************************************************************)

\* The workload without its machine keeps its shape, and its exit code.
LEMMA LostIs ==
  ASSUME VMInv
  PROVE  /\ Lost \in Workloads
         /\ Lost.code = work.code
         /\ Lost.job = "none" <=> work.job = "none"
         /\ Lost.job = "none" => Lost.runner = "none"
         /\ Lost.job # "running"
         /\ Lost.job = "ended" => Lost.runner \in {"killed", "ended"}
         /\ work.runner \in {"killed", "ended"} => Lost.runner = work.runner
         /\ work.code # NoCode => Lost.job = "ended"
BY DEF VMInv, TypeOK, WorkInv, Lost, Workloads

(***************************************************************************)
(* The state of the machine and of the workload may change under a run as  *)
(* long as a machine that is down stays down, a runner that is over stays  *)
(* over, and an exit code stays as it is once written.                     *)
(***************************************************************************)
LEMMA UnderTheRun ==
  ASSUME VMInv, WorkInv',
         vm' \in Machines,
         work' \in Workloads,
         vm.st \in Down => vm'.st \in Down,
         work.runner \in {"killed", "ended"} => work'.runner \in {"killed", "ended"},
         work.code # NoCode => work'.code = work.code,
         work.job = "none" <=> work'.job = "none",
         UNCHANGED <<provider, spot, setupVars, view, class, got>>
  PROVE  VMInv'
<1>1. TypeOK'
  BY DEF VMInv, TypeOK, setupVars, Steps, View
<1>2. SupInv'
  BY DEF VMInv, SupInv, setupVars
<1>3. StatusIsReal'
  BY DEF VMInv, StatusIsReal, NoCode
<1>4. FetchedOrReported'
  BY DEF VMInv, FetchedOrReported
<1> QED
  BY <1>1, <1>2, <1>3, <1>4 DEF VMInv

\* What happens to the machine and the workload by themselves.
LEMMA MachineStep ==
  ASSUME VMInv, Machine
  PROVE  VMInv'
<1> USE DEF VMInv
<1>1. CASE Boots
  <2>1. vm' \in Machines
        /\ vm'.st = vm.st
    BY <1>1 DEF Boots, TypeOK, Machines
  <2>2. work' = work
    BY <1>1 DEF Boots
  <2>3. WorkInv'
    BY <2>2 DEF WorkInv
  <2> QED
    BY <1>1, <2>1, <2>2, <2>3, UnderTheRun DEF Boots, TypeOK
<1>2. ASSUME vm.st = "up", work' = Lost,
             vm' \in Machines,
             UNCHANGED <<provider, spot, setupVars, view, class, got>>
      PROVE  VMInv'
  <2>1. WorkInv'
    BY <1>2, LostIs DEF WorkInv
  <2>2. vm.st \notin Down
    BY <1>2 DEF Down
  <2> HIDE DEF VMInv
  <2> QED
    BY <1>2, <2>1, <2>2, LostIs, UnderTheRun
<1>3. CASE WatchdogFires
  <2>1. vm' \in Machines
    BY <1>3 DEF WatchdogFires, SelfDestruct, Down, TypeOK, Machines
  <2> QED
    BY <1>2, <1>3, <2>1 DEF WatchdogFires, Watched
<1>4. CASE Reboots
  <2>1. vm' \in Machines
    BY <1>4 DEF Reboots, TypeOK, Machines
  <2> QED
    BY <1>2, <1>4, <2>1 DEF Reboots
<1>5. CASE Reclaimed
  <2>1. vm' \in Machines
    BY <1>5 DEF Reclaimed, Down, TypeOK, Machines
  <2> QED
    BY <1>2, <1>5, <2>1 DEF Reclaimed
<1>6. CASE JobEnds
  <2>1. PICK c \in {0, 1, 137} :
          work' = [work EXCEPT !.job = "ended", !.oom = c = 137,
                     !.runner = IF @ = "alive" THEN "ended" ELSE @,
                     !.code = IF work.runner = "alive" THEN c ELSE @]
    BY <1>6 DEF JobEnds
  <2>2. work.runner \in {"alive", "killed"} /\ work.job = "running" /\ work.code = NoCode
    BY <1>6 DEF JobEnds, WorkInv
  <2>3. (c = 137) \in BOOLEAN
    OBVIOUS
  <2>4. c \in Codes
    BY <2>1 DEF Codes
  <2>5. work' \in Workloads
        /\ work'.job = "ended" /\ work'.runner \in {"killed", "ended"}
    BY <2>1, <2>2, <2>3, <2>4 DEF TypeOK, Workloads
  <2>6. WorkInv'
    BY <2>5 DEF WorkInv
  <2>7. vm' = vm /\ UNCHANGED <<provider, spot, setupVars, view, class, got>>
    BY <1>6 DEF JobEnds
  <2>8. vm \in Machines
    BY DEF TypeOK
  <2> HIDE DEF VMInv
  <2> QED
    BY <2>2, <2>5, <2>6, <2>7, <2>8, UnderTheRun
<1> QED
  BY <1>1, <1>3, <1>4, <1>5, <1>6 DEF Machine

\* A step of Execute before the workload starts: it may create the machine,
\* and the files in keys/.
LEMMA SetupStep ==
  ASSUME VMInv, NEW op, At(op),
         vm' \in Machines,
         local' \in Files
  PROVE  VMInv'
<1>1. sup = "setup" /\ step <= Len(Steps) /\ step' = step + 1
      /\ UNCHANGED <<provider, spot, conf, unmatched, work, sup, view, class, got>>
  BY DEF At
<1>2. Steps' = Steps
  BY <1>1 DEF Steps
<1>3. step' \in 1..(Len(Steps) + 2)
  BY <1>1, LenSteps DEF VMInv, TypeOK
<1>4. TypeOK'
  BY <1>1, <1>2, <1>3 DEF VMInv, TypeOK, View
<1>5. WorkInv' /\ SupInv'
  BY <1>1 DEF VMInv, WorkInv, SupInv
<1>6. StatusIsReal'
  BY <1>1 DEF VMInv, SupInv, StatusIsReal
<1>7. FetchedOrReported'
  BY <1>1 DEF VMInv, FetchedOrReported
<1> QED
  BY <1>4, <1>5, <1>6, <1>7 DEF VMInv

\* Everything Execute does until it launches the workload.
LEMMA PreparationStep ==
  ASSUME VMInv,
         \/ generateSSHKey \/ validateGPUInstance \/ confidentialAttestationPreflight
         \/ CreateVM \/ WaitReady \/ PinHostKey \/ WaitForSSHAuth \/ writeSSHWrapper
         \/ verifyConfidential \/ waitForCloudInit \/ rsyncToVM \/ installRunner
         \/ getPodName \/ copyToInit
  PROVE  VMInv'
<1>1. vm \in Machines /\ local \in Files
  BY DEF VMInv, TypeOK, Machines, Files
<1>2. \A f \in KeyFiles : Keeps(f) \in Files
  BY <1>1 DEF Keeps, Files
<1>3. ASSUME NEW op, At(op), vm' \in Machines, local' \in Files PROVE VMInv'
  BY <1>3, SetupStep DEF Machines, Files
<1>4. CASE generateSSHKey \/ PinHostKey
  BY <1>1, <1>2, <1>3, <1>4 DEF generateSSHKey, PinHostKey, KeyFiles
<1>5. CASE CreateVM
  <2>1. vm' \in Machines
    BY <1>1, <1>5 DEF CreateVM, Machines
  <2> QED
    BY <1>1, <1>3, <1>5, <2>1 DEF CreateVM
<1>6. CASE WaitReady
  <2>1. local' \in Files
    BY <1>1, <1>6 DEF WaitReady, Files
  <2> QED
    BY <1>1, <1>3, <1>6, <2>1 DEF WaitReady
<1>7. CASE writeSSHWrapper
  <2>1. Keeps("wrapper") \in Files
    BY <1>2 DEF KeyFiles
  <2>2. ("known_hosts" \in local.files) \in BOOLEAN
    OBVIOUS
  <2>3. local' \in Files
    BY <1>7, <2>1, <2>2 DEF writeSSHWrapper, Files
  <2> QED
    BY <1>1, <1>3, <1>7, <2>3 DEF writeSSHWrapper
<1>8. CASE rsyncToVM
  <2>1. local' \in Files
    BY <1>1, <1>8 DEF rsyncToVM, Upload, Files
  <2> QED
    BY <1>1, <1>3, <1>8, <2>1 DEF rsyncToVM
<1>9. CASE \/ validateGPUInstance \/ confidentialAttestationPreflight
           \/ WaitForSSHAuth \/ verifyConfidential \/ waitForCloudInit
           \/ installRunner \/ getPodName \/ copyToInit
  BY <1>1, <1>3, <1>9
     DEF validateGPUInstance, confidentialAttestationPreflight, WaitForSSHAuth,
         verifyConfidential, waitForCloudInit, installRunner, getPodName, copyToInit
<1> QED
  BY <1>4, <1>5, <1>6, <1>7, <1>8, <1>9

\* A workload is launched where there was none.
LEMMA LaunchedIs ==
  ASSUME VMInv, sup = "setup"
  PROVE  /\ Launched \in Workloads /\ Launched.job = "running"
         /\ Launched.runner = "alive" /\ Launched.code = NoCode
BY DEF VMInv, TypeOK, WorkInv, SupInv, Launched, Workloads

\* Execute launches the workload and returns.
LEMMA StartStep ==
  ASSUME VMInv, startWorkload
  PROVE  VMInv'
<1>1. PICK pid \in {TRUE, provider = "kubernetes"} : view' = [view EXCEPT !.pid = pid]
  BY DEF startWorkload
<1>2. sup = "setup" /\ step' = Len(Steps) + 2 /\ sup' \in {"attached", "detached"}
      /\ work' = Launched
      /\ UNCHANGED <<provider, spot, conf, unmatched, vm, local, class, got>>
  BY LenSteps DEF startWorkload
<1>3. view \in View /\ view.state = "running" /\ pid \in BOOLEAN
  BY <1>2 DEF VMInv, TypeOK, SupInv
<1>4. view' \in View /\ view'.state = "running" /\ view'.errs = view.errs
  BY <1>1, <1>3 DEF View
<1>5. work' \in Workloads /\ work'.job = "running" /\ work'.runner = "alive"
      /\ work'.code = NoCode
  BY <1>2, LaunchedIs
<1>6. step' \in 1..(Len(Steps) + 2) /\ Steps' = Steps
  BY <1>2, LenSteps DEF Steps
<1>7. TypeOK'
  BY <1>2, <1>4, <1>5, <1>6 DEF VMInv, TypeOK, Workloads, View
<1>8. WorkInv'
  BY <1>5 DEF WorkInv
<1>9. SupInv'
  <2>1. view.errs < MaxErrs
    BY <1>2, StatusAssumption DEF VMInv, SupInv
  <2> QED
    BY <1>2, <1>4, <1>5, <2>1 DEF SupInv
<1>10. StatusIsReal' /\ FetchedOrReported'
  BY <1>2, <1>4 DEF StatusIsReal, VMInv, FetchedOrReported
<1> QED
  BY <1>7, <1>8, <1>9, <1>10 DEF VMInv

\* Execute fails, and the deferred functions clean up after it.
LEMMA SetupFailsStep ==
  ASSUME VMInv, SetupFails
  PROVE  VMInv'
<1>1. PICK st \in {"none", vm.st, "gone"} :
        /\ vm' = [vm EXCEPT !.st = st]
        /\ work' \in {work, Launched, Lost}
  BY DEF SetupFails
<1>2. sup = "setup" /\ sup' = "failed" /\ local' = [local EXCEPT !.files = @ \ local.early]
      /\ UNCHANGED <<provider, spot, conf, unmatched, step, view, class, got>>
  BY DEF SetupFails
<1>3. vm' \in Machines
  BY <1>1 DEF VMInv, TypeOK, Machines, Down
<1>4. local' \in Files
  BY <1>2 DEF VMInv, TypeOK, Files
<1>5. work' \in Workloads
  BY <1>1, <1>2, LaunchedIs, LostIs DEF VMInv, TypeOK, Workloads
<1>6. WorkInv'
  <2>1. CASE work' = work
    BY <2>1 DEF VMInv, WorkInv
  <2>2. CASE work' = Launched
    BY <1>2, <2>2, LaunchedIs DEF WorkInv
  <2>3. CASE work' = Lost
    BY <2>3, LostIs DEF WorkInv
  <2> QED
    BY <1>1, <2>1, <2>2, <2>3
<1>7. TypeOK'
  BY <1>2, <1>3, <1>4, <1>5 DEF VMInv, TypeOK, Machines, Files, Workloads, Steps, View
<1>8. SupInv'
  BY <1>2 DEF SupInv
<1>9. StatusIsReal' /\ FetchedOrReported'
  BY <1>2 DEF VMInv, SupInv, StatusIsReal, FetchedOrReported
<1> QED
  BY <1>6, <1>7, <1>8, <1>9 DEF VMInv

\* A machine that may have been deleted is a machine still.
LEMMA DeletedIs ==
  ASSUME VMInv, NEW st \in {vm.st, "gone"}
  PROVE  /\ [vm EXCEPT !.st = st] \in Machines
         /\ vm.st \in Down => [vm EXCEPT !.st = st].st \in Down
BY DEF VMInv, TypeOK, Machines, Down

\* So is the workload, once its runner was signalled.
LEMMA SignalledIs ==
  ASSUME VMInv, work.job # "none",
         NEW w \in {work, Lost,
                    [work EXCEPT !.runner = IF @ = "alive" THEN "killed" ELSE @]}
  PROVE  /\ w \in Workloads /\ w.code = work.code /\ w.job # "none"
         /\ w.job = "running" => w.runner \in {"alive", "killed"}
         /\ w.job = "ended" => w.runner \in {"killed", "ended"}
         /\ w.code # NoCode => w.job = "ended"
         /\ work.runner \in {"killed", "ended"} => w.runner \in {"killed", "ended"}
<1>1. CASE w = work
  BY <1>1 DEF VMInv, TypeOK, WorkInv
<1>2. CASE w = Lost
  BY <1>2, LostIs
<1>3. CASE w = [work EXCEPT !.runner = IF @ = "alive" THEN "killed" ELSE @]
  BY <1>3 DEF VMInv, TypeOK, WorkInv, Workloads
<1> QED
  BY <1>1, <1>2, <1>3

\* stop, or the budget sampler, signals the runner or deletes the Job.
LEMMA TerminateStep ==
  ASSUME VMInv, Terminate
  PROVE  VMInv'
<1>1. /\ work.job # "none" /\ work.runner = "alive"
      /\ UNCHANGED <<provider, spot, setupVars, view, class, got>>
  BY DEF Terminate, VMInv, SupInv
<1>2. PICK st \in {vm.st, "gone"} : vm' = [vm EXCEPT !.st = st]
  BY DEF Terminate
<1>3. [work EXCEPT !.runner = "killed"]
        = [work EXCEPT !.runner = IF @ = "alive" THEN "killed" ELSE @]
  BY <1>1
<1>4. work' \in {work, Lost,
                 [work EXCEPT !.runner = IF @ = "alive" THEN "killed" ELSE @]}
  BY <1>3 DEF Terminate
<1>5. WorkInv'
  BY <1>1, <1>4, SignalledIs DEF WorkInv
<1> QED
  BY <1>1, <1>2, <1>4, <1>5, DeletedIs, SignalledIs, UnderTheRun

\* A turn of the poll loop stores what Status has reported.
LEMMA PolledStep ==
  ASSUME VMInv, Polled
  PROVE  VMInv'
<1>1. /\ sup = "attached" /\ work.job # "none" /\ view.errs < MaxErrs
      /\ UNCHANGED <<provider, spot, conf, unmatched, vm, work, step, local, got>>
  BY DEF Polled, VMInv, SupInv
<1>2. Reports(view')
  <2>1. PICK s \in GetVM : view' \in Status(s)
    BY DEF Polled
  <2> QED
    BY <1>1, <2>1, StatusReports DEF VMInv
<1>3. class' \in {"none", "transient", "permanent", "unknown"}
  <2>1. class' = class \/ \E d \in FailureDetails(view') : class' = ClassifyFailure(d)
    BY DEF Polled
  <2> QED
    BY <2>1, ClassType DEF VMInv, TypeOK
<1>4. sup' \in {"attached", "ended"} /\ (sup' = "attached" => ~Final(view'))
  BY <1>1 DEF Polled
<1>5. TypeOK'
  BY <1>1, <1>2, <1>3, <1>4 DEF VMInv, TypeOK, Reports, Steps, View
<1>6. WorkInv' /\ FetchedOrReported'
  BY <1>1 DEF VMInv, WorkInv, FetchedOrReported
<1>7. SupInv'
  <2>1. ASSUME sup' = "attached" PROVE view'.errs < MaxErrs
    <3>1. ~Final(view')
      BY <1>4, <2>1
    <3>2. CASE view'.err
      BY <1>2, <3>1, <3>2, StatusAssumption DEF Final, Reports, View
    <3>3. CASE ~view'.err
      BY <1>2, <3>3, StatusAssumption DEF Reports
    <3> QED
      BY <3>2, <3>3
  <2> QED
    BY <1>1, <1>4, <2>1 DEF SupInv
<1>8. StatusIsReal'
  BY <1>1, <1>2 DEF Reports, StatusIsReal
<1> QED
  BY <1>5, <1>6, <1>7, <1>8 DEF VMInv

\* The wait may be over before the workload is.
LEMMA PollDeadlineStep ==
  ASSUME VMInv, PollDeadline
  PROVE  VMInv'
<1>1. /\ sup = "attached" /\ sup' = "ended" /\ work.job # "none"
      /\ UNCHANGED <<provider, spot, conf, unmatched, step, local, view, class, got>>
  BY DEF PollDeadline, VMInv, SupInv
<1>2. PICK st \in {vm.st, "gone"} : vm' = [vm EXCEPT !.st = st]
  BY DEF PollDeadline
<1>3. vm' \in Machines /\ (vm.st \in Down => vm'.st \in Down)
  BY <1>2, DeletedIs
<1>4. /\ work' \in Workloads /\ work'.code = work.code /\ work'.job # "none"
      /\ work'.job = "running" => work'.runner \in {"alive", "killed"}
      /\ work'.job = "ended" => work'.runner \in {"killed", "ended"}
      /\ work'.code # NoCode => work'.job = "ended"
      /\ work.runner \in {"killed", "ended"} => work'.runner \in {"killed", "ended"}
  BY <1>1, SignalledIs DEF PollDeadline
<1>5. TypeOK'
  BY <1>1, <1>3, <1>4 DEF VMInv, TypeOK, Steps, View
<1>6. WorkInv' /\ SupInv'
  BY <1>1, <1>4 DEF WorkInv, SupInv
<1>7. StatusIsReal' /\ FetchedOrReported'
  BY <1>1, <1>3, <1>4 DEF VMInv, StatusIsReal, FetchedOrReported
<1> QED
  BY <1>5, <1>6, <1>7 DEF VMInv

\* Every result that is not "fetched" and not an error is of an output that
\* is not there, or cannot be read.
LEMMA ArtifactsStep ==
  ASSUME VMInv, Artifacts
  PROVE  VMInv'
<1>1. PICK made \in [Outputs -> {"nothing", "whole", "unreadable", "escapes"}],
           res \in [Outputs -> {"fetched", "skipped", "failed", "rejected"}] :
        /\ \A o \in Outputs : res[o] \in Transfer(made[o])
        /\ got' = [done |-> TRUE, err |-> \E o \in Outputs : Reported(res[o]),
                   missed |-> {o \in Outputs : made[o] = "whole" /\ res[o] # "fetched"}]
  BY DEF Artifacts
<1>2. UNCHANGED <<provider, spot, vm, work, setupVars, view, class>>
  BY DEF Artifacts
<1> DEFINE err == \E o \in Outputs : Reported(res[o])
           missed == {o \in Outputs : made[o] = "whole" /\ res[o] # "fetched"}
<1>3. \A o \in missed : Reported(res[o])
  BY <1>1 DEF Transfer, Reported
<1>4. ~err => missed = {}
  BY <1>3
<1>5. got'.err = err /\ got'.missed = missed /\ err \in BOOLEAN
      /\ got' = [done |-> TRUE, err |-> err, missed |-> missed]
  BY <1>1
<1>6. missed \subseteq Outputs
  OBVIOUS
<1> HIDE DEF err, missed
<1>7. got' \in [done : BOOLEAN, err : BOOLEAN, missed : SUBSET Outputs]
  BY <1>5, <1>6
<1>8. TypeOK'
  BY <1>2, <1>7 DEF VMInv, TypeOK, setupVars, Steps, View
<1>9. WorkInv' /\ SupInv' /\ StatusIsReal'
  BY <1>2 DEF VMInv, WorkInv, SupInv, StatusIsReal, setupVars
<1>10. FetchedOrReported'
  BY <1>4, <1>5 DEF FetchedOrReported
<1> QED
  BY <1>8, <1>9, <1>10 DEF VMInv

\* Cleanup, and a dispatcher that dies.
LEMMA EndStep ==
  ASSUME VMInv, Cleanup \/ Crash
  PROVE  VMInv'
<1>1. CASE UNCHANGED <<vm, work, local>>
  <2>1. sup' = "gone" \/ sup' = "cleaned"
    BY DEF Cleanup, Crash
  <2>2. UNCHANGED <<provider, spot, conf, unmatched, step, view, class, got>>
    BY DEF Cleanup, Crash
  <2>3. TypeOK'
    BY <1>1, <2>1, <2>2 DEF VMInv, TypeOK, Steps, View
  <2> QED
    BY <1>1, <2>1, <2>2, <2>3
       DEF VMInv, WorkInv, SupInv, StatusIsReal, FetchedOrReported
<1>2. CASE /\ Cleanup /\ sup' = "cleaned"
           /\ vm' = [vm EXCEPT !.st = "gone"] /\ work' = Lost
  <2>1. UNCHANGED <<provider, spot, conf, unmatched, step, view, class, got>>
    BY <1>2 DEF Cleanup
  <2>2. vm' \in Machines /\ vm'.st \in Down
    BY <1>2 DEF VMInv, TypeOK, Machines, Down
  <2>3. local' \in Files
    BY <1>2 DEF Cleanup, VMInv, TypeOK, Files
  <2>4. work' \in Workloads /\ work'.code = work.code /\ WorkInv'
    BY <1>2, LostIs DEF WorkInv
  <2>5. TypeOK'
    BY <1>2, <2>1, <2>2, <2>3, <2>4 DEF VMInv, TypeOK, Steps, View
  <2>6. SupInv'
    BY <1>2 DEF SupInv
  <2>7. StatusIsReal' /\ FetchedOrReported'
    BY <2>1, <2>2, <2>4 DEF VMInv, StatusIsReal, FetchedOrReported
  <2> QED
    BY <2>4, <2>5, <2>6, <2>7 DEF VMInv
<1> QED
  BY <1>1, <1>2 DEF Cleanup, Crash

-----------------------------------------------------------------------------
\* The invariant holds at first.
LEMMA VMInit ==
  ASSUME Init
  PROVE  VMInv
<1>1. TypeOK
  <2>1. vm \in Machines /\ work \in Workloads /\ local \in Files
    BY DEF Init, Machines, Workloads, Files, Codes
  <2>2. view \in View
    BY StatusAssumption DEF Init, View, Codes
  <2>3. step \in 1..(Len(Steps) + 2)
    BY LenSteps DEF Init
  <2>4. got \in [done : BOOLEAN, err : BOOLEAN, missed : SUBSET Outputs]
    BY DEF Init
  <2> QED
    BY <2>1, <2>2, <2>3, <2>4 DEF Init, TypeOK
<1>2. WorkInv /\ SupInv
  BY StatusAssumption DEF Init, WorkInv, SupInv
<1>3. StatusIsReal /\ FetchedOrReported
  BY DEF Init, StatusIsReal, FetchedOrReported
<1> QED
  BY <1>1, <1>2, <1>3 DEF VMInv

\* Every step keeps it.
LEMMA VMNext ==
  ASSUME VMInv, [Next]_vars
  PROVE  VMInv'
<1>1. CASE Machine
  BY <1>1, MachineStep
<1>2. CASE Execute
  BY <1>2, PreparationStep, StartStep, SetupFailsStep DEF Execute
<1>3. CASE Crash \/ Cleanup
  BY <1>3, EndStep
<1>4. CASE Terminate
  BY <1>4, TerminateStep
<1>5. CASE Polled
  BY <1>5, PolledStep
<1>6. CASE PollDeadline
  BY <1>6, PollDeadlineStep
<1>7. CASE Artifacts
  BY <1>7, ArtifactsStep
<1>8. CASE UNCHANGED vars
  <2>1. TypeOK'
    BY <1>8 DEF vars, VMInv, TypeOK, Steps, View
  <2>2. WorkInv' /\ SupInv' /\ StatusIsReal' /\ FetchedOrReported'
    BY <1>8 DEF vars, VMInv, WorkInv, SupInv, StatusIsReal, FetchedOrReported
  <2> QED
    BY <2>1, <2>2 DEF VMInv
<1> QED
  BY <1>1, <1>2, <1>3, <1>4, <1>5, <1>6, <1>7, <1>8 DEF Next, Dispatcher

(***************************************************************************)
(* Type correctness of a machine's life from Execute to Cleanup; in        *)
(* particular the poll loop (waitForTerminal) never counts more errors in  *)
(* a row than maxConsecutiveStatusErrors.                                  *)
(***************************************************************************)
THEOREM VMTypeCorrect == Spec => []TypeOK
<1>1. VMInv => TypeOK
  BY DEF VMInv
<1> QED
  BY <1>1, VMInit, VMNext, PTL DEF Spec

(***************************************************************************)
(* What CloudVMAdapter.Status and K8sAdapter.Status report is what         *)
(* happened, for every provider, and whatever fails, is reclaimed, reboots *)
(* or destroys itself in between: Completed only after exit code 0, Failed *)
(* without an error only of a machine that is down or a runner that is     *)
(* over.                                                                   *)
(***************************************************************************)
THEOREM StatusNeverLies == Spec => []StatusIsReal
<1>1. VMInv => StatusIsReal
  BY DEF VMInv
<1> QED
  BY <1>1, VMInit, VMNext, PTL DEF Spec

(***************************************************************************)
(* Artifacts returns without an error only if it has fetched every output  *)
(* that is there and readable, for every set of outputs.                   *)
(***************************************************************************)
THEOREM NoOutputIsLostSilently == Spec => []FetchedOrReported
<1>1. VMInv => FetchedOrReported
  BY DEF VMInv
<1> QED
  BY <1>1, VMInit, VMNext, PTL DEF Spec

=============================================================================
