------------------------------ MODULE CloudVM ------------------------------
(***************************************************************************)
(* One machine of a run: how CloudVMAdapter (or K8sAdapter) sets it up,    *)
(* starts the workload, reads its status, classifies a failure, fetches    *)
(* the outputs and destroys it.                                            *)
(*                                                                         *)
(* What CreateVM and DestroyVM do to a provider's resources is in          *)
(* CloudProviders; here they succeed or fail.  Who renews the machine's    *)
(* watchdog, and when it fires, is Watchdog's subject; here it may fire    *)
(* whenever it is installed.                                               *)
(***************************************************************************)
EXTENDS Integers, Sequences, FiniteSets, FailureClass

CONSTANTS
  Providers,  \* the provider back ends to check
  MaxErrs,    \* maxConsecutiveStatusErrors (5 in the code)
  Outputs     \* the outputs the workload declares

ASSUME StatusAssumption == MaxErrs \in Nat \ {0}

ASSUME ProvidersAssumption ==
  Providers \subseteq {"aws", "azure", "gcp", "hetzner", "oci", "lambda", "lima",
                       "firecracker", "kubernetes"}

VARIABLES
  provider,   \* the provider of the machine
  spot,       \* whether it is a spot machine
  conf,       \* attestation of a confidential workload: "none" if it is not one
  unmatched,  \* whether it needs a GPU that no instance type was found for
  vm,         \* the machine: its state and the stage of its boot
  work,       \* the workload: runner script, its child, exit code file
  step,       \* the next step of Execute
  sup,        \* who supervises: Execute, the executor, nobody
  local,      \* the run's files in keys/, those Execute deletes on an error,
              \* whether the wrapper checks the host key, whether sources were
              \* sent, and over what
  view,       \* the handle's state and the last Status
  class,      \* what ClassifyFailure said of the failure
  got         \* what Artifacts returned

setupVars == <<conf, unmatched, step, sup, local>>
vars == <<provider, spot, conf, unmatched, vm, work, step, sup, local, view,
          class, got>>

NoCode == -1
Watchdog == {"aws", "azure", "gcp", "hetzner", "oci"}
Down == {"halted", "deallocated", "gone"}

Larger(a, b) == IF a > b THEN a ELSE b

-----------------------------------------------------------------------------
(***************************************************************************)
(* The machine.                                                            *)
(***************************************************************************)
Init ==
  /\ provider \in Providers
  /\ spot \in BOOLEAN /\ (spot => provider \in {"aws", "azure", "gcp"})
  /\ conf \in {"none", "off", "on"} /\ unmatched \in BOOLEAN
  /\ provider = "kubernetes" => conf = "none" /\ ~unmatched
  /\ vm = [st |-> "none", stage |-> 0, rebooted |-> FALSE]
  /\ work = [runner |-> "none", job |-> "none", code |-> NoCode, oom |-> FALSE]
  /\ step = 1 /\ sup = "setup"
  /\ local = [files |-> {}, early |-> {}, strict |-> FALSE, sent |-> "no"]
  /\ view = [state |-> "running", err |-> FALSE, errs |-> 0, read |-> FALSE,
             code |-> 0, reclaimed |-> FALSE, pid |-> TRUE]
  /\ class = "none"
  /\ got = [done |-> FALSE, err |-> FALSE, missed |-> {}]

\* sshd answers, then accepts the key, then cloud-init has finished.
Boots ==
  /\ vm.st = "up" /\ vm.stage < 3
  /\ vm' = [vm EXCEPT !.stage = @ + 1]
  /\ UNCHANGED <<provider, spot, work, setupVars, view, class, got>>

\* The workload without a machine under it.
Lost == [work EXCEPT !.runner = IF @ = "alive" THEN "killed" ELSE @,
                     !.job = IF @ = "running" THEN "ended" ELSE @]

SelfDestruct == IF provider = "azure" THEN {"deallocated", "halted"} ELSE {"halted"}

Watched == vm.st = "up" /\ vm.stage = 3 /\ provider \in Watchdog

\* The deadline has passed.
WatchdogFires ==
  /\ Watched
  /\ \E st \in SelfDestruct : vm' = [vm EXCEPT !.st = st]
  /\ work' = Lost
  /\ UNCHANGED <<provider, spot, setupVars, view, class, got>>

\* The machine restarts without the workload.
Reboots ==
  /\ vm.st = "up" /\ vm.stage = 3 /\ provider # "kubernetes" /\ ~vm.rebooted
  /\ vm' = [vm EXCEPT !.rebooted = TRUE]
  /\ work' = Lost
  /\ UNCHANGED <<provider, spot, setupVars, view, class, got>>

\* The provider takes a spot machine back; a Job ends or is collected.
Reclaimed ==
  /\ vm.st = "up" /\ (spot \/ provider = "kubernetes")
  /\ vm' = [vm EXCEPT !.st = "gone"]
  /\ work' = Lost
  /\ UNCHANGED <<provider, spot, setupVars, view, class, got>>

\* The runner script records the exit code of the command it ran.
JobEnds ==
  /\ vm.st = "up" /\ work.job = "running"
  /\ \E c \in {0, 1, 137} :
       work' = [work EXCEPT !.job = "ended", !.oom = c = 137,
                  !.runner = IF @ = "alive" THEN "ended" ELSE @,
                  !.code = IF work.runner = "alive" THEN c ELSE @]
  /\ UNCHANGED <<provider, spot, vm, setupVars, view, class, got>>

-----------------------------------------------------------------------------
(***************************************************************************)
(* Execute.  Each step waits for what it needs of the machine, and can     *)
(* fail.                                                                   *)
(***************************************************************************)
SetupSteps ==
  <<"generateSSHKey", "validateGPUInstance", "confidentialAttestationPreflight",
    "CreateVM", "WaitReady", "PinHostKey", "WaitForSSHAuth", "writeSSHWrapper",
    "verifyConfidential", "waitForCloudInit", "rsyncToVM", "installRunner">>

K8sSteps == <<"CreateVM", "getPodName", "copyToInit">>

Steps == IF provider = "kubernetes" THEN K8sSteps ELSE SetupSteps

\* Execute is at this step, and goes on to the next.
At(op) ==
  /\ sup = "setup" /\ step <= Len(Steps) /\ Steps[step] = op
  /\ step' = step + 1
  /\ UNCHANGED <<provider, spot, conf, unmatched, work, sup, view, class, got>>

Needs(stage) == vm.st = "up" /\ vm.stage >= stage

\* A file in keys/ that an error return of Execute deletes.
Keeps(f) == [local EXCEPT !.files = @ \cup {f}, !.early = @ \cup {f}]

generateSSHKey ==
  At("generateSSHKey") /\ local' = Keeps("key") /\ UNCHANGED vm

validateGPUInstance ==
  At("validateGPUInstance") /\ ~unmatched /\ UNCHANGED <<vm, local>>

\* This path has no verifier.
confidentialAttestationPreflight ==
  /\ At("confidentialAttestationPreflight") /\ conf # "on"
  /\ UNCHANGED <<vm, local>>

CreateVM ==
  At("CreateVM") /\ vm' = [vm EXCEPT !.st = "up"] /\ UNCHANGED local

\* lima has an ssh identity of its own: the one made here is dropped.
WaitReady ==
  /\ At("WaitReady") /\ Needs(1)
  /\ local' = IF provider = "lima"
                THEN [local EXCEPT !.files = @ \ {"key"}, !.early = {}] ELSE local
  /\ UNCHANGED vm

PinHostKey ==
  At("PinHostKey") /\ Needs(1) /\ local' = Keeps("known_hosts") /\ UNCHANGED vm

WaitForSSHAuth ==
  At("WaitForSSHAuth") /\ Needs(2) /\ UNCHANGED <<vm, local>>

\* The wrapper checks the host key if it is pinned.
writeSSHWrapper ==
  /\ At("writeSSHWrapper")
  /\ local' = [Keeps("wrapper") EXCEPT !.strict = "known_hosts" \in local.files]
  /\ UNCHANGED vm

verifyConfidential ==
  At("verifyConfidential") /\ conf # "on" /\ UNCHANGED <<vm, local>>

\* Waits for the end of the boot, and goes on without it when that fails.
waitForCloudInit ==
  At("waitForCloudInit") /\ UNCHANGED <<vm, local>>

Upload == [local EXCEPT !.sent = IF local.strict THEN "checked" ELSE "unchecked"]

rsyncToVM ==
  At("rsyncToVM") /\ Needs(2) /\ "wrapper" \in local.files /\ local' = Upload
  /\ UNCHANGED vm

installRunner ==
  At("installRunner") /\ Needs(2) /\ UNCHANGED <<vm, local>>

getPodName == At("getPodName") /\ vm.st = "up" /\ UNCHANGED <<vm, local>>
copyToInit == At("copyToInit") /\ vm.st = "up" /\ UNCHANGED <<vm, local>>

Launched == [work EXCEPT !.runner = "alive", !.job = "running"]

\* The runner is launched and its pid read back, or the init container is told
\* to end, and Execute returns.
startWorkload ==
  /\ sup = "setup" /\ step = Len(Steps) + 1 /\ vm.st = "up"
  /\ work' = Launched
  /\ \E pid \in {TRUE, provider = "kubernetes"} : view' = [view EXCEPT !.pid = pid]
  /\ step' = step + 1 /\ sup' \in {"attached", "detached"}
  /\ UNCHANGED <<provider, spot, conf, unmatched, vm, local, class, got>>

\* A step fails, perhaps after it took effect.  The deferred functions destroy
\* the machine, without a look at the outcome, and delete the local files.
SetupFails ==
  /\ sup = "setup" /\ sup' = "failed"
  /\ \E st \in IF vm.st = "none" THEN {"none"} ELSE {vm.st, "gone"} :
       /\ vm' = [vm EXCEPT !.st = st]
       /\ work' \in IF step > Len(Steps) /\ st = "up" THEN {work, Launched} ELSE {Lost}
  /\ local' = [local EXCEPT !.files = @ \ local.early]
  /\ UNCHANGED <<provider, spot, conf, unmatched, step, view, class, got>>

\* The dispatcher process dies; the machine goes on.
Crash ==
  /\ sup \in {"setup", "attached"} /\ sup' = "gone"
  /\ UNCHANGED <<provider, spot, conf, unmatched, vm, work, step, local, view,
                 class, got>>

-----------------------------------------------------------------------------
(***************************************************************************)
(* Terminate.  The pid is the runner's: its child is not signalled.  A Job *)
(* is deleted.                                                             *)
(***************************************************************************)
Terminated(w, m) ==
  IF provider = "kubernetes"
    THEN m.st = "gone" /\ w = Lost
    ELSE m = vm /\ w = [work EXCEPT !.runner = IF @ = "alive" THEN "killed" ELSE @]

\* stop, or the budget sampler.
Terminate ==
  /\ sup \in {"attached", "detached"} /\ vm.st = "up" /\ view.pid
  /\ work.runner = "alive"
  /\ \E st \in {vm.st, "gone"} : vm' = [vm EXCEPT !.st = st]
  /\ work' \in {Lost, [work EXCEPT !.runner = "killed"]}
  /\ Terminated(work', vm')
  /\ UNCHANGED <<provider, spot, setupVars, view,
                 class, got>>

-----------------------------------------------------------------------------
(***************************************************************************)
(* Status: what the provider says of the machine, then what ssh shows.     *)
(***************************************************************************)
awsGetVM == IF vm.st = "gone" THEN "terminated" ELSE "running"
azureGetVM == IF vm.st \in Down THEN "terminated" ELSE "running"
gcpGetVM == IF vm.st \in Down THEN "terminated" ELSE "running"
hetznerGetVM ==
  CASE vm.st = "gone" -> "terminated" [] vm.st = "halted" -> "stopping"
    [] OTHER -> "running"
ociGetVM ==
  CASE vm.st = "gone" -> "terminated" [] vm.st = "halted" -> "stopping"
    [] OTHER -> "running"
lambdaGetVM == IF vm.st = "gone" THEN "terminated" ELSE "running"
firecrackerGetVM == IF vm.st = "gone" THEN "terminated" ELSE "running"
limaGetVM == IF vm.st = "gone" THEN "terminated" ELSE "running"

\* A Job that is no longer there may not have succeeded.
k8sGetVM ==
  CASE vm.st = "gone" -> "error"
    [] work.code = 0 -> "terminated"
    [] work.job = "ended" -> "error"
    [] OTHER -> "running"

\* A failed call is an error, but to lima it means that there is no machine.
GetVM ==
  CASE provider = "aws" -> {awsGetVM, "fails"}
    [] provider = "azure" -> {azureGetVM, "fails"}
    [] provider = "gcp" -> {gcpGetVM, "fails"}
    [] provider = "hetzner" -> {hetznerGetVM, "fails"}
    [] provider = "oci" -> {ociGetVM, "fails"}
    [] provider = "lambda" -> {lambdaGetVM, "fails"}
    [] provider = "lima" -> {limaGetVM, "terminated"}
    [] provider = "firecracker" -> {firecrackerGetVM}
    [] provider = "kubernetes" -> {k8sGetVM, "fails"}

Undetermined(s) ==
  [view EXCEPT !.state = s, !.err = TRUE, !.errs = @ + 1]
Determined(s) == [view EXCEPT !.state = s, !.err = FALSE, !.errs = 0]

\* The exit code file may be missing, or the call that reads it may fail.
ReadExitCode ==
  {[Determined("failed") EXCEPT !.read = FALSE, !.code = -1]} \cup
  (IF work.code = NoCode THEN {}
     ELSE {[Determined(IF work.code = 0 THEN "completed" ELSE "failed")
              EXCEPT !.read = TRUE, !.code = work.code]})

\* Mutant: a failed probe means a dead workload.
MutProbe ==
  {Determined("failed")} \cup
  (IF vm.st # "up" THEN {}
     ELSE IF work.runner = "alive" THEN {Determined("running")} ELSE ReadExitCode)

\* kill -0 of the runner, when its pid is known.
Probe ==
  IF ~view.pid THEN {Determined("running")}
  ELSE {Undetermined("running")} \cup
       (IF vm.st # "up" THEN {}
          ELSE IF work.runner = "alive" THEN {Determined("running")} ELSE ReadExitCode)

CloudVMStatus(s) ==
  CASE s = "fails" -> {Undetermined("failed")}
    [] s = "terminated" ->
         {[Determined("failed") EXCEPT !.reclaimed = @ \/ spot]}
    [] OTHER -> Probe

K8sStatus(s) ==
  CASE s = "fails" -> {Undetermined("failed")}
    [] s = "terminated" -> {Determined("completed")}
    [] s = "error" -> {Determined("failed")}
    [] OTHER -> {Determined("running")}

Status(s) == IF provider = "kubernetes" THEN K8sStatus(s) ELSE CloudVMStatus(s)

-----------------------------------------------------------------------------
(***************************************************************************)
(* FailureDetails.                                                         *)
(***************************************************************************)

\* Kernel evidence of an OOM kill, when the machine can still be asked.
captureFailureEvidence == IF vm.st = "up" /\ work.oom THEN BOOLEAN ELSE {FALSE}

CloudVMFailureDetails(v) ==
  IF v.reclaimed
    THEN {[NoDetails EXCEPT !.reclaimed = TRUE, !.message = TRUE]}
    ELSE {[NoDetails EXCEPT !.oom = oom, !.message = ~v.read \/ v.code # 0 \/ oom,
             !.signal = IF v.read THEN "" ELSE "SIGKILL",
             !.code = IF v.read THEN v.code ELSE 0] : oom \in captureFailureEvidence}

\* The pod may be gone, or kubectl out of reach.
K8sFailureDetails(v) ==
  {[NoDetails EXCEPT !.message = TRUE]} \cup
  (IF vm.st # "up" THEN {}
     ELSE {[NoDetails EXCEPT !.oom = work.oom, !.code = Larger(work.code, 0),
                           !.message = work.code # 0]})

FailureDetails(v) ==
  IF provider = "kubernetes" THEN K8sFailureDetails(v) ELSE CloudVMFailureDetails(v)

\* The poll loop has an answer, or has failed too often to go on.
Final(v) == IF v.err THEN v.errs >= MaxErrs ELSE v.state # "running"

\* One turn of waitForTerminal.
Polled ==
  /\ sup = "attached"
  /\ \E s \in GetVM : view' \in Status(s)
  /\ IF Final(view')
       THEN /\ sup' = "ended"
            /\ IF view'.state = "failed" /\ ~view'.err
                 THEN \E d \in FailureDetails(view') : class' = ClassifyFailure(d)
                 ELSE UNCHANGED class
       ELSE UNCHANGED <<sup, class>>
  /\ UNCHANGED <<provider, spot, conf, unmatched, vm, work, step, local, got>>

\* maxDuration passes: the runner is signalled and the wait is over.
PollDeadline ==
  /\ sup = "attached" /\ sup' = "ended"
  /\ \E st \in {vm.st, "gone"} : vm' = [vm EXCEPT !.st = st]
  /\ work' \in {work, Lost, [work EXCEPT !.runner = IF @ = "alive" THEN "killed" ELSE @]}
  /\ Terminated(work', vm') \/ (work' = work /\ vm' = vm)
  /\ UNCHANGED <<provider, spot, conf, unmatched, step, local, view, class, got>>

-----------------------------------------------------------------------------
(***************************************************************************)
(* Artifacts and Cleanup.                                                  *)
(***************************************************************************)
\* What can become of one output: rsync's exit code 23 is no error.
Transfer(made) ==
  CASE made = "escapes" -> {"rejected"}
    [] vm.st # "up" -> {"failed"}
    [] made \in {"nothing", "unreadable"} -> {"skipped", "failed"}
    [] OTHER -> {"fetched", "failed"}

\* Mutant: a failed transfer is passed over like a missing output.
MutReported(r) == r = "rejected"

\* Which results make Artifacts return an error.
Reported(r) == r \in {"rejected", "failed"}

Artifacts ==
  /\ sup = "ended" /\ ~got.done /\ provider # "kubernetes"
  /\ \E made \in [Outputs -> {"nothing", "whole", "unreadable", "escapes"}] :
     \E res \in [Outputs -> {"fetched", "skipped", "failed", "rejected"}] :
       /\ \A o \in Outputs : res[o] \in Transfer(made[o])
       /\ got' = [done |-> TRUE, err |-> \E o \in Outputs : Reported(res[o]),
                  missed |-> {o \in Outputs : made[o] = "whole" /\ res[o] # "fetched"}]
  /\ UNCHANGED <<provider, spot, vm, work, setupVars, view, class>>

\* The key is deleted when it is the run's own.
Cleanup ==
  /\ sup = "ended" /\ (got.done \/ provider = "kubernetes")
  /\ \/ /\ sup' = "cleaned"
        /\ vm' = [vm EXCEPT !.st = "gone"] /\ work' = Lost
        /\ local' = [local EXCEPT !.files =
             @ \ ({"known_hosts", "wrapper"} \cup (IF provider = "lima" THEN {} ELSE {"key"}))]
     \/ sup' = "gone" /\ UNCHANGED <<vm, work, local>>
  /\ UNCHANGED <<provider, spot, conf, unmatched, step, view, class, got>>

-----------------------------------------------------------------------------
Machine == Boots \/ WatchdogFires \/ Reboots \/ Reclaimed \/ JobEnds

Execute ==
  \/ generateSSHKey \/ validateGPUInstance \/ confidentialAttestationPreflight
  \/ CreateVM \/ WaitReady \/ PinHostKey \/ WaitForSSHAuth \/ writeSSHWrapper
  \/ verifyConfidential \/ waitForCloudInit \/ rsyncToVM \/ installRunner
  \/ getPodName \/ copyToInit \/ startWorkload \/ SetupFails

Dispatcher ==
  Execute \/ Crash \/ Terminate \/ Polled \/ PollDeadline \/ Artifacts \/ Cleanup

Next == Machine \/ Dispatcher

Spec == Init /\ [][Next]_vars
-----------------------------------------------------------------------------
Codes == {NoCode, 0, 1, 137}
KeyFiles == {"key", "known_hosts", "wrapper"}
Machines == [st : {"none", "up"} \cup Down, stage : 0..3, rebooted : BOOLEAN]
Workloads == [runner : {"none", "alive", "killed", "ended"},
              job : {"none", "running", "ended"}, code : Codes, oom : BOOLEAN]
Files == [files : SUBSET KeyFiles, early : SUBSET KeyFiles, strict : BOOLEAN,
          sent : {"no", "checked", "unchecked"}]
View == [state : {"running", "failed", "completed"}, err : BOOLEAN,
         errs : 0..MaxErrs, read : BOOLEAN, code : Codes, reclaimed : BOOLEAN,
         pid : BOOLEAN]

TypeOK ==
  /\ provider \in Providers /\ spot \in BOOLEAN
  /\ conf \in {"none", "off", "on"} /\ unmatched \in BOOLEAN
  /\ vm \in Machines /\ work \in Workloads /\ local \in Files /\ view \in View
  /\ step \in 1..(Len(Steps) + 2)
  /\ sup \in {"setup", "failed", "attached", "detached", "ended", "cleaned", "gone"}
  /\ class \in {"none", "transient", "permanent", "unknown"}
  /\ got \in [done : BOOLEAN, err : BOOLEAN, missed : SUBSET Outputs]

\* What Status says of a run is true.  It is completed only when its command
\* has ended with code 0.  It is failed, without an error, only when the machine
\* is down or its runner has ended: no failed call to a provider or over ssh is
\* taken for the workload's failure.  (limactl list failing is, for lima.)
StatusIsReal ==
  /\ view.state = "completed" => work.code = 0
  /\ view.state = "failed" /\ ~view.err /\ provider # "lima"
       => vm.st \in Down \/ work.runner \in {"killed", "ended"}

\* Artifacts returns no error only when it fetched every output that is there
\* and readable.
FetchedOrReported ==
  got.done /\ ~got.err => got.missed = {}
=============================================================================
