--------------------------- MODULE CloudProviders ---------------------------
(***************************************************************************)
(* The resources of a cloud account, and what the provider back ends of    *)
(* internal/cloudvm do to them: CreateVM and DestroyVM of every provider,  *)
(* the listing and the destruction gc builds on, and the part of the two   *)
(* machine adapters (CloudVMAdapter, K8sAdapter) that calls them.          *)
(*                                                                         *)
(* An operation of a provider is a sequence of calls of the provider's     *)
(* command line tool.  Each call is one step: between two of them another  *)
(* process can run, the process can crash, and every call can fail, with   *)
(* or without having had its effect.  The runs are of one workload, so     *)
(* their machines have the same name (adapter.go:204).                     *)
(***************************************************************************)
EXTENDS Integers, Sequences, FiniteSets

CONSTANTS
  Runs,       \* the runs, named as the tag their resources carry
  Providers,  \* the provider back ends to check
  MaxFaults,  \* bound: calls other than a launch that fail, in all
  MaxTries    \* bound: how often Retry issues a call (4 in the code)

ASSUME BoundsAssumption ==
  /\ MaxFaults \in Nat /\ MaxTries \in Nat \ {0}
  /\ Providers \subseteq {"aws", "azure", "gcp", "hetzner", "oci", "lambda",
                          "lima", "firecracker", "kubernetes"}

VARIABLES
  provider,   \* the provider of the target the runs use
  restrict,   \* whether the plans ask for --allow-ssh-from
  cloud,      \* the resources of the account
  proc,       \* the process of each run, and the gc command
  keys,       \* runs whose key files are in the state directory
  record,     \* the record of each run, as far as gc tells records apart
  faults      \* calls that have failed, and crashes

vars == <<provider, restrict, cloud, proc, keys, record, faults>>

Gc == "gc"
NoRun == "no run"
NoVM == <<NoRun, 0>>
Procs == Runs \cup {Gc}

\* The names of runs are names of their own.
ASSUME RunsAssumption == Runs \cap {Gc, NoRun, "workload"} = {}

\* Machines known by the name of the workload, not by an id of their own.
ByName == {"azure", "gcp", "lima", "kubernetes"}
\* Providers that refuse a second machine of the same name.
UniqueNames == ByName \cup {"hetzner"}
\* Providers that take a machine away some time after the call returned.
Asynchronous == {"aws", "lambda", "oci"}
\* Providers that boot the watchdog (user data), and stop a machine halted by it.
Watchdog == {"aws", "azure", "gcp", "hetzner", "oci"}

\* The network interface, security group and network cost nothing and are
\* deleted without looking at the outcome: "net" stands for the three.
azureSatellites == {"net", "ip", "disk"}
Kinds == {"instance", "sg", "deny", "allow", "firewall", "sshkey", "rundir",
          "image"} \cup azureSatellites

\* kind and id name a resource; run and owned are the tags dispatcher put on
\* it, st is the state of a machine and gen the key pair it authorizes.
Resource == [kind : Kinds, id : (Runs \cup {"workload", NoRun}) \X Nat,
             run : Runs \cup {NoRun}, owned : BOOLEAN,
             st : {"up", "halted", "deallocated", "ending"}, gen : Nat]

-----------------------------------------------------------------------------
(***************************************************************************)
(* The calls an operation is made of.  undo is what the operation still    *)
(* does when the call fails, before it returns the error.                  *)
(***************************************************************************)
Check(undo) == [op |-> "check", undo |-> undo]
Refusal(b) == [op |-> IF b THEN "refuse" ELSE "skip", undo |-> <<>>]
Make(kind, undo) == [op |-> "make", kind |-> kind, undo |-> undo]
MakeNew(kind, undo) == [op |-> "makeNew", kind |-> kind, undo |-> undo]
Launch(retry, onError, undo) ==
  [op |-> "launch", retry |-> retry, onError |-> onError, undo |-> undo]
Adopt(then, undo) == [op |-> "adopt", onError |-> then, undo |-> undo]
Reap == [op |-> "reap"]
Drop(kind) == [op |-> "drop", kind |-> kind]
DropFresh(kind) == [op |-> "dropFresh", kind |-> kind]

\* The calls of DestroyVM.
Capture(kinds, onError) ==
  [op |-> "capture", kinds |-> kinds, onError |-> onError]
Kill(missing) == [op |-> "kill", missing |-> missing]
DropGot(kind) == [op |-> "dropGot", kind |-> kind]
DropBilling(kind) == [op |-> "dropBilling", kind |-> kind]
DropOne(kind) == [op |-> "dropOne", kind |-> kind]

DestroyOps == {"capture", "kill", "dropGot", "dropBilling"}

\* What is left of a sequence of calls when DestroyVM returns in its middle: a
\* caller that has something to do after DestroyVM has one call.
Beyond(calls) ==
  IF calls = <<>> \/ calls[Len(calls)].op \in DestroyOps
    THEN <<>> ELSE <<calls[Len(calls)]>>

When(b, calls) == IF b THEN calls ELSE <<>>

(***************************************************************************)
(* aws: a security group per run, one instance under a client token.       *)
(***************************************************************************)
awsCreateSSHSecurityGroup ==
  <<Check(<<>>), Make("sg", <<>>), Check(<<DropFresh("sg")>>)>>

deleteSGWhenReleased == <<DropGot("sg")>>

awsDestroyVM ==
  <<Capture({"sg"}, "skip"), Kill("done")>> \o deleteSGWhenReleased

awsWaitForIP == Check(awsDestroyVM \o <<Drop("sg")>>)

\* Mutant: run-instances without a client token.
MutAwsLaunch == Launch("again", "leave", <<Drop("sg")>>)

awsLaunch == Launch("token", "leave", <<Drop("sg")>>)

awsPrepare == Check(<<>>)

awsUserData == Check(<<Drop("sg")>>)

awsResult == Check(<<Drop("sg")>>)

awsCreateVM ==
  <<awsPrepare>> \o awsCreateSSHSecurityGroup
    \o <<awsUserData, awsLaunch, awsResult, awsWaitForIP>>

(***************************************************************************)
(* gcp: a pair of firewall rules when SSH is restricted, one instance.     *)
(***************************************************************************)
createSSHFirewall == <<Make("deny", <<>>), Make("allow", <<>>)>>

deleteSSHFirewall == <<Drop("allow"), Drop("deny")>>

gcpPrepare == Check(<<>>)

gcpLaunch == Launch("name", "adopt", When(restrict, deleteSSHFirewall))

gcpResult == Check(<<>>)

gcpCreateVM ==
  <<gcpPrepare>> \o When(restrict, createSSHFirewall) \o <<gcpLaunch, gcpResult>>

gcpDestroyVM ==
  <<Capture({"allow", "deny"}, "skip"), Kill("next"),
    DropGot("allow"), DropGot("deny")>>

(***************************************************************************)
(* azure: one machine with satellites of its own, which carry no tag.      *)
(* A size the subscription may not use is replaced by another one, once.   *)
(***************************************************************************)
gatherVMResources == Capture(azureSatellites, "abort")

\* Mutant: a failure to delete a billing satellite is not reported.
MutDeleteAssociatedResources ==
  <<DropGot("ip"), DropGot("disk"), DropGot("net")>>

deleteAssociatedResources ==
  <<DropBilling("ip"), DropBilling("disk"), DropGot("net")>>

destroyVMInRG ==
  <<gatherVMResources, Kill("error")>> \o deleteAssociatedResources

createSSHRule == Check(destroyVMInRG)

azurePrepare == Check(<<>>)

azureLaunch == Launch("name", "substitute", <<>>)

azureCreateVM ==
  <<azurePrepare, azureLaunch, Check(<<>>)>> \o When(restrict, <<createSSHRule>>)

(***************************************************************************)
(* hetzner: an SSH key registered in the account, a firewall when SSH is   *)
(* restricted, one server.                                                 *)
(***************************************************************************)
uploadHetznerSSHKey == Make("sshkey", <<>>)

\* The firewall must be a new one, unlike the key.
hetznerFirewall ==
  <<MakeNew("firewall", <<Drop("sshkey")>>),
    Check(<<Drop("firewall"), Drop("sshkey")>>)>>

hetznerLaunch ==
  Launch("name", "adopt", When(restrict, <<Drop("firewall")>>) \o <<Drop("sshkey")>>)

hetznerCreateVM ==
  <<Check(<<>>), uploadHetznerSSHKey, Check(<<Drop("sshkey")>>)>>
    \o When(restrict, hetznerFirewall)
    \o <<hetznerLaunch, Check(<<Drop("sshkey")>>)>>

hetznerDestroyVM ==
  <<Capture({"firewall", "sshkey"}, "skip"), Kill("done"),
    DropGot("firewall"), DropGot("sshkey")>>

(***************************************************************************)
(* oci: one instance, launched once and reaped by its tag on an error.     *)
(***************************************************************************)
ociDestroyVM == <<Kill("done")>>

reapByRunTag == <<Reap>>

publicIP == Check(ociDestroyVM)

ociPrepare == Check(<<>>)

ociLaunch == Launch("once", "leave", reapByRunTag)

ociCreateVM == <<ociPrepare, ociLaunch, Check(<<>>), publicIP>>

(***************************************************************************)
(* lambda: an SSH key registered in the account, one instance, launched    *)
(* once; the termination is confirmed before DestroyVM returns.            *)
(***************************************************************************)
ensureSSHKey == Make("sshkey", <<>>)

deleteSSHKey == <<Drop("sshkey")>>

terminateAndConfirm == Kill("next")

lambdaDestroyVM ==
  <<Capture({"sshkey"}, "skip"), terminateAndConfirm, DropGot("sshkey")>>

lambdaWaitForIP == Check(lambdaDestroyVM)

lambdaCreateVM ==
  <<Check(<<>>), ensureSSHKey, Launch("once", "leave", deleteSSHKey),
    Check(deleteSSHKey), lambdaWaitForIP>>

(***************************************************************************)
(* lima: a machine on this host.  A second delete is an error.             *)
(***************************************************************************)
limaDestroyVM == <<Kill("error")>>

limaCreateVM ==
  <<Refusal(restrict), Launch("once", "leave", <<>>), Check(limaDestroyVM),
    Check(limaDestroyVM), Check(limaDestroyVM)>>

(***************************************************************************)
(* firecracker: a microVM on this host, with a directory for the run.  The *)
(* teardown tries everything and never reports an error.                   *)
(***************************************************************************)
teardown == <<Kill("best"), Drop("rundir")>>

firecrackerCreateVM ==
  <<Check(<<>>)>> \o teardown
    \o <<Make("rundir", <<>>), Check(<<>>), Check(teardown),
         Launch("once", "leave", teardown)>>

(***************************************************************************)
(* kubernetes: a Job; deleting one that is not there succeeds.             *)
(***************************************************************************)
k8sDestroyVM == <<Kill("next")>>

waitForInitRunning == Check(k8sDestroyVM)

k8sCreateVM ==
  <<Refusal(restrict), Check(<<>>), Launch("once", "leave", <<>>), waitForInitRunning>>

CreateVM ==
  CASE provider = "aws" -> awsCreateVM
    [] provider = "azure" -> azureCreateVM
    [] provider = "gcp" -> gcpCreateVM
    [] provider = "hetzner" -> hetznerCreateVM
    [] provider = "oci" -> ociCreateVM
    [] provider = "lambda" -> lambdaCreateVM
    [] provider = "lima" -> limaCreateVM
    [] provider = "firecracker" -> firecrackerCreateVM
    [] provider = "kubernetes" -> k8sCreateVM

DestroyVM ==
  CASE provider = "aws" -> awsDestroyVM
    [] provider = "azure" -> destroyVMInRG
    [] provider = "gcp" -> gcpDestroyVM
    [] provider = "hetzner" -> hetznerDestroyVM
    [] provider = "oci" -> ociDestroyVM
    [] provider = "lambda" -> lambdaDestroyVM
    [] provider = "lima" -> limaDestroyVM
    [] provider = "firecracker" -> teardown
    [] provider = "kubernetes" -> k8sDestroyVM

-----------------------------------------------------------------------------
(***************************************************************************)
(* The processes.                                                          *)
(***************************************************************************)
Idle == [at |-> "idle", todo |-> <<>>, vm |-> NoVM, handle |-> NoVM,
         got |-> {}, who |-> NoRun, fresh |-> FALSE, try |-> 1, sent |-> FALSE,
         made |-> 0, att |-> 0, ok |-> TRUE, goal |-> "end"]

\* A process of a run that is between two calls of an operation.
Busy == {"create", "rollback", "setup", "abort", "up", "cleanup", "again"}

\* Resources of the account that no run made: somebody else's, and a standing
\* one of dispatcher itself (a baked image).
Foreign == [kind |-> "disk", id |-> <<NoRun, 1>>, run |-> NoRun,
            owned |-> FALSE, st |-> "up", gen |-> 0]
Standing == [kind |-> "image", id |-> <<NoRun, 2>>, run |-> NoRun,
             owned |-> TRUE, st |-> "up", gen |-> 0]

Instances == {x \in cloud : x.kind = "instance"}
OfRun(kind, w) == {x \in cloud : x.kind = kind /\ x.run = w}

\* What the run id tag of a listed resource says.
RunTag(x) == IF provider = "lima" THEN NoRun ELSE x.run

-----------------------------------------------------------------------------
(***************************************************************************)
(* Calls.  Goes(p, q) makes q the state of the process p; a fault is taken *)
(* from the budget.                                                        *)
(***************************************************************************)
Current(p) == Head(proc[p].todo)
At(p, op) == proc[p].todo # <<>> /\ Current(p).op = op

Goes(p, q) == proc' = [proc EXCEPT ![p] = q]
Advanced(p) == [proc[p] EXCEPT !.todo = Tail(@), !.try = 1]
\* DestroyVM returns: what follows it is the caller's.
Returned(p, ok) ==
  [proc[p] EXCEPT !.todo = Beyond(Tail(@)), !.ok = @ /\ ok]
\* The operation fails: only what undoes it is left.
Failed(p) ==
  [proc[p] EXCEPT !.at = "rollback", !.todo = Current(p).undo, !.try = 1]

Fault == faults < MaxFaults /\ faults' = faults + 1

OnlyCalls == UNCHANGED <<provider, restrict, keys, record>>

Checks(p) ==
  /\ At(p, "check")
  /\ \/ Goes(p, Advanced(p)) /\ UNCHANGED faults
     \/ Goes(p, Failed(p)) /\ Fault
  /\ UNCHANGED cloud /\ OnlyCalls

Refuses(p) ==
  /\ At(p, "refuse") \/ At(p, "skip")
  /\ Goes(p, IF At(p, "refuse") THEN Failed(p) ELSE Advanced(p))
  /\ UNCHANGED <<cloud, faults>> /\ OnlyCalls

\* A resource of the run beside its machine.
Satellite(r, kind) ==
  [kind |-> kind, id |-> <<r, 0>>, run |-> r, owned |-> kind \notin azureSatellites,
   st |-> "up", gen |-> IF kind = "sshkey" THEN proc[r].att ELSE 0]

\* One that is there already is taken as it is, or is an error.
Makes(p) ==
  LET kind == Current(p).kind
      new == OfRun(kind, p) = {}
      made == IF new THEN cloud \cup {Satellite(p, kind)} ELSE cloud
  IN /\ At(p, "make") \/ At(p, "makeNew")
     /\ \/ /\ new \/ At(p, "make")
           /\ cloud' = made /\ UNCHANGED faults
           /\ Goes(p, [Advanced(p) EXCEPT !.fresh = new])
        \/ /\ ~new /\ At(p, "makeNew")
           /\ Goes(p, Failed(p)) /\ UNCHANGED <<cloud, faults>>
        \/ cloud' \in {cloud, made} /\ Goes(p, Failed(p)) /\ Fault
     /\ OnlyCalls

-----------------------------------------------------------------------------
(***************************************************************************)
(* Launching a machine.                                                    *)
(***************************************************************************)
NewId(r) ==
  CASE provider \in ByName -> <<"workload", 0>>
    [] provider = "firecracker" -> <<r, 0>>
    [] OTHER -> <<r, proc[r].made + 1>>

\* The key pair the machine lets in: an account key is installed by name.
KeyGeneration(r) ==
  IF provider \in {"hetzner", "lambda"}
    THEN (CHOOSE x \in OfRun("sshkey", r) : TRUE).gen
    ELSE proc[r].att

NewMachine(r) ==
  {[kind |-> "instance", id |-> NewId(r), run |-> r, owned |-> TRUE,
    st |-> "up", gen |-> KeyGeneration(r)]}
    \cup (IF provider = "azure" THEN {Satellite(r, k) : k \in azureSatellites}
                                ELSE {})

\* The provider turns the launch down: a machine has the name, or the key the
\* machine should get is not in the account.
TurnedDown(r) ==
  \/ provider \in UniqueNames /\ Instances # {}
  \/ provider = "firecracker" /\ OfRun("instance", r) # {}
  \/ provider \in {"hetzner", "lambda"} /\ OfRun("sshkey", r) = {}

\* An earlier try of this call made the machine, and the client token says so.
Replayed(p) == Current(p).retry = "token" /\ proc[p].sent

\* kubectl apply of the manifest the Job was made from.
Unchanged(p) ==
  provider = "kubernetes" /\ \E x \in Instances : x.run = p

LaunchSucceeds(p) ==
  /\ At(p, "launch")
  /\ IF Replayed(p) \/ Unchanged(p)
       THEN /\ UNCHANGED cloud
            /\ Goes(p, [Advanced(p) EXCEPT !.sent = FALSE,
                 !.vm = IF Replayed(p) THEN <<p, proc[p].made>> ELSE NewId(p)])
       ELSE /\ ~TurnedDown(p)
            /\ cloud' = cloud \cup NewMachine(p)
            /\ Goes(p, [Advanced(p) EXCEPT !.vm = NewId(p), !.made = @ + 1,
                                           !.sent = FALSE])
  /\ UNCHANGED faults /\ OnlyCalls

\* What CreateVM does when the launch failed for good.
GivesUp(p, q) ==
  LET c == Head(q.todo)
  IN CASE c.onError = "leave" ->
            [q EXCEPT !.at = "rollback", !.todo = c.undo, !.sent = FALSE]
       [] OTHER ->
            [q EXCEPT !.todo = <<Adopt(c.onError, c.undo)>> \o Tail(@),
                      !.sent = FALSE, !.try = 1]

\* The text of the error tells whether the call may be tried again.
IsTransient == BOOLEAN

LaunchFails(p) ==
  /\ At(p, "launch")
  /\ \/ \* turned down, which no retry changes
        /\ TurnedDown(p) /\ ~Replayed(p) /\ ~Unchanged(p)
        /\ Goes(p, GivesUp(p, proc[p])) /\ UNCHANGED cloud
     \/ \* an error, and the machine may have been made all the same
        /\ \E made \in (IF TurnedDown(p) \/ Replayed(p) THEN {FALSE} ELSE BOOLEAN),
              transient \in IsTransient :
             LET q == IF made THEN [proc[p] EXCEPT !.made = @ + 1, !.sent = TRUE]
                              ELSE proc[p]
                 again == /\ transient /\ Current(p).retry # "once"
                          /\ q.try < MaxTries
             IN /\ cloud' = IF made THEN cloud \cup NewMachine(p) ELSE cloud
                /\ Goes(p, IF again THEN [q EXCEPT !.try = @ + 1]
                                    ELSE GivesUp(p, q))
  /\ UNCHANGED faults /\ OnlyCalls

\* The machines the providers list: which ones they leave out as gone differs.
MachinesBut(gone) == {x \in Instances : x.st \notin gone}

awsListVMs == MachinesBut({})
azureListVMs == MachinesBut({"deallocated"})
gcpListVMs == MachinesBut({"halted"})
hetznerListVMs == MachinesBut({})
ociListVMs == MachinesBut({"ending"})
lambdaListVMs == MachinesBut({})
limaListVMs == MachinesBut({"halted"})
firecrackerListVMs == MachinesBut({"halted"})
k8sListVMs == MachinesBut({})

ListVMs ==
  CASE provider = "aws" -> awsListVMs
    [] provider = "azure" -> azureListVMs
    [] provider = "gcp" -> gcpListVMs
    [] provider = "hetzner" -> hetznerListVMs
    [] provider = "oci" -> ociListVMs
    [] provider = "lambda" -> lambdaListVMs
    [] provider = "lima" -> limaListVMs
    [] provider = "firecracker" -> firecrackerListVMs
    [] provider = "kubernetes" -> k8sListVMs

ListedWithTag(r) == {x \in ListVMs : RunTag(x) = r}

\* Mutant: any machine of the name is adopted, whoever's it is.
MutAdopted(p) == Instances

\* The machines adoptCreatedVM finds for the run.
Adopted(p) == ListedWithTag(p)

\* azure: the size may be one the subscription cannot use, and another one is
\* tried, once; every other error is the end of it.
NoneAdopted(p) ==
  IF Current(p).onError = "substitute"
    THEN {Failed(p), [proc[p] EXCEPT !.todo =
            <<Launch("name", "adopt", <<>>)>> \o Tail(@)]}
    ELSE {Failed(p)}

\* Mutant: the undoing of the failed launch also runs for an adopted machine.
MutAdoptCreatedVM(p) ==
  /\ At(p, "adopt")
  /\ \/ /\ Cardinality(Adopted(p)) = 1
        /\ \E x \in Adopted(p) :
             Goes(p, [proc[p] EXCEPT !.vm = x.id, !.todo = Current(p).undo])
        /\ UNCHANGED faults
     \/ /\ Cardinality(Adopted(p)) # 1
        /\ \E q \in NoneAdopted(p) : Goes(p, q)
        /\ UNCHANGED faults
     \/ Goes(p, Failed(p)) /\ Fault
  /\ UNCHANGED cloud /\ OnlyCalls

\* The machine is taken over when the listing shows exactly one of the run.
adoptCreatedVM(p) ==
  /\ At(p, "adopt")
  /\ \/ /\ Cardinality(Adopted(p)) = 1
        /\ \E x \in Adopted(p) :
             Goes(p, [proc[p] EXCEPT !.vm = x.id, !.todo = <<>>])
        /\ UNCHANGED faults
     \/ /\ Cardinality(Adopted(p)) # 1
        /\ \E q \in NoneAdopted(p) : Goes(p, q)
        /\ UNCHANGED faults
     \/ Goes(p, Failed(p)) /\ Fault
  /\ UNCHANGED cloud /\ OnlyCalls

-----------------------------------------------------------------------------
(***************************************************************************)
(* Taking machines away.                                                   *)
(***************************************************************************)
\* The cloud without the machines m: at once, or after a while.
Without(m) ==
  IF provider \in Asynchronous
    THEN (cloud \ m) \cup {[x EXCEPT !.st = "ending"] : x \in m}
    ELSE cloud \ m

Target(p) == {x \in Instances : x.id = proc[p].vm}

Reaps(p) ==
  /\ At(p, "reap")
  /\ Goes(p, Advanced(p))
  /\ \/ cloud' = Without(ListedWithTag(p)) /\ UNCHANGED faults
     \/ UNCHANGED cloud /\ Fault
  /\ OnlyCalls

\* What else belongs to the machine is read off it before it is deleted.
Captures(p) ==
  LET c == Current(p)
      seen == {x \in Target(p) : x.st # "ending"}
      knows(kinds, w) == [Advanced(p) EXCEPT !.got = kinds, !.who = w]
  IN /\ At(p, "capture")
     /\ \/ /\ \E x \in seen : Goes(p, knows(c.kinds, x.run))
           /\ UNCHANGED faults
        \/ /\ seen = {} /\ UNCHANGED faults
           /\ Goes(p, IF c.onError = "abort" THEN Returned(p, TRUE)
                                             ELSE knows({}, NoRun))
        \/ /\ Fault
           /\ Goes(p, IF c.onError = "abort" THEN Returned(p, FALSE)
                                             ELSE knows({}, NoRun))
        \/ \* a network interface whose description does not parse is skipped
           /\ Fault /\ provider = "azure"
           /\ \E x \in seen : Goes(p, knows({"disk"}, x.run))
     /\ UNCHANGED cloud /\ OnlyCalls

Kills(p) ==
  LET c == Current(p)
      erred == IF c.missing = "best" THEN Advanced(p) ELSE Returned(p, FALSE)
  IN /\ At(p, "kill")
     /\ \/ /\ Target(p) # {} /\ cloud' = Without(Target(p))
           /\ Goes(p, Advanced(p)) /\ UNCHANGED faults
        \/ /\ Target(p) = {} /\ UNCHANGED <<cloud, faults>>
           /\ Goes(p, CASE c.missing = "done" -> Returned(p, TRUE)
                        [] c.missing = "error" -> Returned(p, FALSE)
                        [] OTHER -> Advanced(p))
        \/ /\ cloud' \in {cloud, Without(Target(p))}
           /\ Goes(p, erred) /\ Fault
     /\ OnlyCalls

\* A security group cannot be deleted while a machine uses it.
InUse(kind, w) == kind = "sg" /\ OfRun("instance", w) # {}

\* The run whose satellite a call deletes, or no run when it deletes none.
DropsOf(p) ==
  LET c == Current(p)
  IN CASE c.op = "drop" -> p
       [] c.op = "dropFresh" -> IF proc[p].fresh THEN p ELSE NoRun
       [] c.op = "dropOne" -> proc[p].who
       [] OTHER -> IF c.kind \in proc[p].got THEN proc[p].who ELSE NoRun

Drops(p) ==
  LET c == Current(p)
      gone == cloud \ OfRun(c.kind, DropsOf(p))
      loud == [Advanced(p) EXCEPT !.ok = @ /\ c.op \notin {"dropBilling", "dropOne"}]
  IN /\ \E op \in {"drop", "dropFresh", "dropGot", "dropBilling", "dropOne"} :
          At(p, op)
     /\ \/ /\ DropsOf(p) = NoRun
           /\ Goes(p, Advanced(p)) /\ UNCHANGED <<cloud, faults>>
        \/ /\ DropsOf(p) # NoRun /\ ~InUse(c.kind, DropsOf(p))
           /\ \/ cloud' = gone /\ Goes(p, Advanced(p)) /\ UNCHANGED faults
              \/ UNCHANGED cloud /\ Goes(p, loud) /\ Fault
        \/ \* refused; deleteSGWhenReleased waits, the others do not
           /\ DropsOf(p) # NoRun /\ InUse(c.kind, DropsOf(p))
           /\ IF c.op = "dropGot" THEN Fault ELSE UNCHANGED faults
           /\ Goes(p, loud) /\ UNCHANGED cloud
     /\ OnlyCalls

DestroyCall(p) == Captures(p) \/ Kills(p) \/ Drops(p)

Call(p) ==
  \/ Checks(p) \/ Refuses(p) \/ Makes(p) \/ LaunchSucceeds(p) \/ LaunchFails(p)
  \/ adoptCreatedVM(p) \/ Reaps(p) \/ DestroyCall(p)

-----------------------------------------------------------------------------
(***************************************************************************)
(* A run: CloudVMAdapter or K8sAdapter, under the executor's calls.        *)
(***************************************************************************)
\* Kubernetes needs no key pair.
UsesKey == provider # "kubernetes"

\* The record gets its last state, after a teardown that succeeded or not.
Ends(r, cleaned) ==
  /\ Goes(r, [Idle EXCEPT !.at = "ended", !.vm = proc[r].vm, !.got = proc[r].got,
                          !.who = proc[r].who])
  /\ record' = [record EXCEPT ![r] = IF cleaned THEN "completed" ELSE "failed"]

\* ssh-keygen does not overwrite the key file of an earlier attempt.
generateSSHKey(r) == r \notin keys

\* Execute, up to the call of CreateVM.
Execute(r) ==
  /\ proc[r].at \in {"idle", "again"}
  /\ IF UsesKey /\ ~generateSSHKey(r)
       THEN Ends(r, FALSE) /\ UNCHANGED keys
       ELSE /\ Goes(r, [proc[r] EXCEPT
                 !.at = "create", !.todo = CreateVM, !.att = @ + 1, !.ok = TRUE,
                 !.vm = IF provider \in ByName \cup {"firecracker"}
                          THEN NewId(r) ELSE NoVM])
            /\ keys' = IF UsesKey THEN keys \cup {r} ELSE keys
            /\ record' = [record EXCEPT ![r] = "active"]
  /\ UNCHANGED <<provider, restrict, cloud, faults>>

\* CreateVM has returned; Lima brings an identity of its own.
Created(r) ==
  /\ proc[r].at = "create" /\ proc[r].todo = <<>>
  /\ Goes(r, [proc[r] EXCEPT !.at = "setup"])
  /\ keys' = IF provider = "lima" THEN keys \ {r} ELSE keys
  /\ UNCHANGED <<provider, restrict, cloud, record, faults>>

\* The machine is there and lets the key of this attempt in.
Reachable(r) == \E x \in Target(r) : x.st = "up" /\ x.gen = proc[r].att

\* The machine is reached, the sources are copied and the workload started,
\* and the handle is saved; or Execute destroys what it created.
SetUp(r) ==
  /\ proc[r].at = "setup" /\ UsesKey
  /\ \/ /\ Reachable(r) /\ UNCHANGED faults
        /\ Goes(r, [proc[r] EXCEPT !.at = "up", !.handle = proc[r].vm])
     \/ /\ IF Reachable(r) THEN Fault ELSE UNCHANGED faults
        /\ Goes(r, [proc[r] EXCEPT !.at = "abort", !.todo = DestroyVM])
  /\ UNCHANGED <<provider, restrict, cloud, keys, record>>

\* The pod is found, the sources are copied into it and the workload let go.
K8sSetUp(r) ==
  /\ proc[r].at = "setup" /\ ~UsesKey
  /\ \/ /\ Target(r) # {} /\ UNCHANGED faults
        /\ Goes(r, [proc[r] EXCEPT !.at = "up", !.handle = proc[r].vm])
     \/ /\ IF Target(r) # {} THEN Fault ELSE UNCHANGED faults
        /\ Goes(r, [proc[r] EXCEPT !.at = "abort", !.todo = DestroyVM])
  /\ UNCHANGED <<provider, restrict, cloud, keys, record>>

\* Execute returns its error, without the files it made.
ExecuteFails(r) ==
  /\ proc[r].at \in {"rollback", "abort"} /\ proc[r].todo = <<>>
  /\ Ends(r, FALSE)
  /\ keys' = keys \ {r}
  /\ UNCHANGED <<provider, restrict, cloud, faults>>

\* A failed workload is tried again once.
MayRetry(r) == proc[r].att = 1

\* The workload ended, or failed in a way the executor tries again once.
Cleanup(r) ==
  /\ proc[r].at = "up"
  /\ \E goal \in {"end", "retry"} :
       /\ goal = "retry" => MayRetry(r)
       /\ Goes(r, [proc[r] EXCEPT !.at = "cleanup", !.todo = DestroyVM, !.ok = TRUE,
                                  !.goal = goal, !.got = {}, !.who = NoRun])
  /\ UNCHANGED <<provider, restrict, cloud, keys, record, faults>>

\* The executor keeps a machine whose outputs it could not fetch.
Preserve(r) ==
  /\ proc[r].at = "up"
  /\ Goes(r, [proc[r] EXCEPT !.at = "held"])
  /\ record' = [record EXCEPT ![r] = "held"]
  /\ UNCHANGED <<provider, restrict, cloud, keys, faults>>

\* The executor provisions again whatever Cleanup reported.
CleanedUp(r) ==
  /\ proc[r].at = "cleanup" /\ proc[r].todo = <<>>
  /\ keys' = IF proc[r].ok THEN keys \ {r} ELSE keys
  /\ IF proc[r].goal = "retry"
       THEN Goes(r, [proc[r] EXCEPT !.at = "again"]) /\ UNCHANGED record
       ELSE Ends(r, proc[r].ok)
  /\ UNCHANGED <<provider, restrict, cloud, faults>>

Crash(r) ==
  /\ proc[r].at \in Busy /\ Fault
  /\ Goes(r, [Idle EXCEPT !.at = "crashed", !.handle = proc[r].handle])
  /\ UNCHANGED <<provider, restrict, cloud, keys, record>>

\* dispatcher stop: tears down through the saved handle; --force only closes
\* the record of a run that has none.
Stop(r) ==
  /\ proc[r].at = "crashed" /\ record[r] = "active"
  /\ IF proc[r].handle = NoVM
       THEN Ends(r, FALSE)
       ELSE /\ Goes(r, [proc[r] EXCEPT !.at = "cleanup", !.todo = DestroyVM,
                  !.ok = TRUE, !.goal = "stop", !.vm = proc[r].handle])
            /\ UNCHANGED record
  /\ UNCHANGED <<provider, restrict, cloud, keys, faults>>

-----------------------------------------------------------------------------
(***************************************************************************)
(* What happens in the account and on the disk without a process.          *)
(***************************************************************************)
\* The states a machine's watchdog can bring it into: azure's tries to
\* deallocate the machine and halts it when that does not work.
azureWatchdogSelfDestruct == {"deallocated", "halted"}

watchdogSelfDestruct ==
  IF provider = "azure" THEN azureWatchdogSelfDestruct ELSE {"halted"}

MachineHalts ==
  /\ provider \in Watchdog
  /\ \E x \in Instances, st \in watchdogSelfDestruct :
       /\ x.st = "up" /\ proc[x.run].at \in {"up", "held", "crashed", "ended"}
       /\ cloud' = (cloud \ {x}) \cup {[x EXCEPT !.st = st]}
  /\ UNCHANGED <<provider, restrict, proc, keys, record, faults>>

MachineVanishes ==
  /\ \E x \in Instances : x.st = "ending" /\ cloud' = cloud \ {x}
  /\ UNCHANGED <<provider, restrict, proc, keys, record, faults>>

\* A record stops parsing; the plan id may still be found in its text.
RecordDamaged(r) ==
  /\ record[r] \in {"active", "held"} /\ Fault
  /\ \E d \in {"damaged", "lost"} : record' = [record EXCEPT ![r] = d]
  /\ UNCHANGED <<provider, restrict, cloud, proc, keys>>

-----------------------------------------------------------------------------
Init ==
  /\ provider \in Providers
  /\ restrict \in BOOLEAN
  /\ restrict => provider \in UniqueNames
  /\ cloud = {Foreign, Standing}
  /\ proc = [p \in Procs |-> Idle]
  /\ keys = {}
  /\ record = [r \in Runs |-> "none"]
  /\ faults = 0

RunStep(r) ==
  \/ Execute(r) \/ Created(r) \/ SetUp(r) \/ K8sSetUp(r) \/ ExecuteFails(r)
  \/ Cleanup(r) \/ Preserve(r) \/ CleanedUp(r) \/ Crash(r) \/ Stop(r)
  \/ Call(r)

Environment ==
  MachineHalts \/ MachineVanishes \/ \E r \in Runs : RecordDamaged(r)
=============================================================================
