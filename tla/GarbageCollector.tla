-------------------------- MODULE GarbageCollector --------------------------
(***************************************************************************)
(* The gc command (cli/gc.go) over the accounts of CloudProviders: it      *)
(* reads the run records, lists what each provider reports, and destroys   *)
(* the resources of runs that are gone, while runs start, end and crash.   *)
(***************************************************************************)
EXTENDS CloudProviders

VARIABLES
  sweep,    \* the gc command that is running
  robbed    \* history: live runs another process took a resource from

gcVars == <<vars, sweep, robbed>>

\* The plan ids gc protects, whether it protects all of them, whether the
\* store it read was empty, the runs that were alive at that moment, the
\* resources it will destroy, and the one it is destroying.
NoSweep == [spared |-> {}, all |-> FALSE, empty |-> FALSE, live |-> {},
            targets |-> {}, target |-> {}, override |-> FALSE]

\* A run whose machine must not be taken from it.
Live == {r \in Runs : proc[r].at \notin {"idle", "ended"}}

-----------------------------------------------------------------------------
(***************************************************************************)
(* What the providers list, and how they destroy one resource.             *)
(***************************************************************************)
Listed(kind) == {x \in cloud : x.kind = kind}

\* A machine that is shutting down is left out; a stopped one is listed.
awsListInstances == {x \in Listed("instance") : x.st # "ending"}
awsListVolumes == Listed("disk")
awsListAddresses == Listed("ip")
awsListSecurityGroups == {x \in Listed("sg") : x.owned}
awsListResources ==
  awsListInstances \cup awsListVolumes \cup awsListAddresses \cup awsListSecurityGroups

\* A deallocated machine is left out, and its satellites carry no tag.
azureListMachines == {x \in Listed("instance") : x.st # "deallocated"}
azureListDisks == Listed("disk")
azureListPublicIPs == Listed("ip")
azureListResources == azureListMachines \cup azureListDisks \cup azureListPublicIPs

\* A machine its watchdog halted is TERMINATED to gcloud, and left out.
gcpListInstances == {x \in Listed("instance") : x.st # "halted"}
gcpListDisks == Listed("disk")
gcpListImages == Listed("image")
gcpListAddresses == Listed("ip")
gcpListFirewalls == Listed("allow") \cup Listed("deny")
gcpListResources ==
  UNION {gcpListInstances, gcpListDisks, gcpListImages, gcpListAddresses,
         gcpListFirewalls}

\* The account's SSH keys are not listed.
hetznerListServers == Listed("instance")
hetznerListVolumes == Listed("disk")
hetznerListIPs == Listed("ip")
hetznerListFirewalls == {x \in Listed("firewall") : x.owned}
hetznerListResources ==
  UNION {hetznerListServers, hetznerListVolumes, hetznerListIPs,
         hetznerListFirewalls}

\* Without an enumerator of its own a provider lists its machines only.
cloudVMListResources == ListVMs

\* The gc command knows no adapter of a Firecracker target.
ListResources ==
  CASE provider = "aws" -> awsListResources
    [] provider = "azure" -> azureListResources
    [] provider = "gcp" -> gcpListResources
    [] provider = "hetzner" -> hetznerListResources
    [] provider = "firecracker" -> {}
    [] OTHER -> cloudVMListResources

\* aws and gcp delete the one resource and nothing that goes with it.
awsDestroyResource(x) ==
  IF x.kind = "instance" THEN <<Kill("error")>> ELSE <<DropOne(x.kind)>>
gcpDestroyResource(x) ==
  IF x.kind = "instance" THEN <<Kill("error")>> ELSE <<DropOne(x.kind)>>

\* azure and hetzner take the machine's satellites down with it.
azureDestroyResource(x) ==
  IF x.kind = "instance" THEN destroyVMInRG ELSE <<DropOne(x.kind)>>
hetznerDestroyResource(x) ==
  IF x.kind = "instance" THEN hetznerDestroyVM ELSE <<DropOne(x.kind)>>

DestroyResource(x) ==
  CASE provider = "aws" -> awsDestroyResource(x)
    [] provider = "azure" -> azureDestroyResource(x)
    [] provider = "gcp" -> gcpDestroyResource(x)
    [] provider = "hetzner" -> hetznerDestroyResource(x)
    [] OTHER -> DestroyVM

-----------------------------------------------------------------------------
\* Mutant: a record that does not parse is passed over.
MutProtected(r) == record[r] \in {"active", "held"}

\* The records that protect the resources of their plan.
Protected(r) == record[r] \in {"active", "held", "damaged"}

\* The command starts and classifies the records; the state directory may be
\* the wrong one, which reads as a store without records.
GcReads ==
  /\ proc[Gc].at = "idle"
  /\ \E empty, override \in BOOLEAN :
       /\ override => empty
       /\ sweep' = [NoSweep EXCEPT
         !.spared = IF empty THEN {} ELSE {r \in Runs : Protected(r)},
         !.all = ~empty /\ \E r \in Runs : record[r] = "lost",
         !.empty = empty \/ \A r \in Runs : record[r] = "none",
         !.live = Live, !.override = override]
  /\ Goes(Gc, [Idle EXCEPT !.at = "list"])
  /\ UNCHANGED <<provider, restrict, cloud, keys, record, faults>>

Orphans ==
  {x \in ListResources : /\ x.owned /\ RunTag(x) # NoRun
                         /\ RunTag(x) \notin sweep.spared /\ ~sweep.all}

RefusesEmptyStore == sweep.empty /\ ~sweep.override /\ Orphans # {}

\* One provider is listed; a failing listing skips it.  A dry run, and an
\* operator who does not confirm, end the command here.
GcLists ==
  /\ proc[Gc].at = "list"
  /\ \/ /\ ~RefusesEmptyStore /\ Orphans # {}
        /\ sweep' = [sweep EXCEPT !.targets = Orphans]
        /\ Goes(Gc, [Idle EXCEPT !.at = "destroy"])
     \/ sweep' = NoSweep /\ Goes(Gc, Idle)
  /\ UNCHANGED <<provider, restrict, cloud, keys, record, faults>>

GcDestroys ==
  /\ proc[Gc].at = "destroy" /\ sweep.target = {}
  /\ \E x \in sweep.targets :
       /\ sweep' = [sweep EXCEPT !.targets = @ \ {x}, !.target = {x}]
       /\ Goes(Gc, [Idle EXCEPT !.at = "destroy", !.vm = x.id, !.who = x.run,
                                !.todo = DestroyResource(x)])
  /\ UNCHANGED <<provider, restrict, cloud, keys, record, faults>>

\* RemoveRunKeyFiles follows a destruction that succeeded.
GcDestroyed ==
  /\ proc[Gc].at = "destroy" /\ sweep.target # {} /\ proc[Gc].todo = <<>>
  /\ keys' = IF proc[Gc].ok THEN keys \ {x.run : x \in sweep.target} ELSE keys
  /\ IF sweep.targets = {}
       THEN Goes(Gc, Idle) /\ sweep' = NoSweep
       ELSE /\ Goes(Gc, [Idle EXCEPT !.at = "destroy"])
            /\ sweep' = [sweep EXCEPT !.target = {}]
  /\ UNCHANGED <<provider, restrict, cloud, record, faults>>

GcStep ==
  \/ GcReads \/ GcLists \/ GcDestroys \/ GcDestroyed
  \/ DestroyCall(Gc) /\ UNCHANGED sweep

\* Live runs other than p that a step takes something from.
Robs(p) == {r \in Live \ {p} : \E x \in cloud \ cloud' : x.run = r}

Next ==
  \/ \E r \in Runs :
       RunStep(r) /\ robbed' = robbed \cup Robs(r) /\ UNCHANGED sweep
  \/ Environment /\ UNCHANGED <<sweep, robbed>>
  \/ GcStep /\ robbed' = robbed \cup Robs(Gc)

GcInit == Init /\ sweep = NoSweep /\ robbed = {}

Spec == GcInit /\ [][Next]_gcVars

-----------------------------------------------------------------------------
TypeOK ==
  /\ provider \in Providers /\ restrict \in BOOLEAN
  /\ cloud \subseteq Resource
  /\ \A p \in Procs :
       /\ proc[p].at \in Busy \cup {"idle", "crashed", "held", "ended", "list",
                                    "destroy"}
       /\ proc[p].vm[1] \in Runs \cup {NoRun, "workload"}
       /\ proc[p].who \in Runs \cup {NoRun} /\ proc[p].att \in 0 .. 2
  /\ keys \subseteq Runs
  /\ record \in [Runs -> {"none", "active", "held", "damaged", "lost",
                         "completed", "failed"}]
  /\ faults \in 0 .. MaxFaults
  /\ sweep.targets \subseteq Resource

(***************************************************************************)
(* A run never has two machines running at once: not when a launch is      *)
(* retried after an error that came with a machine, and not when the       *)
(* executor provisions again after a teardown that failed.  What keeps the *)
(* second launch away is the key file the failed teardown left, which gc   *)
(* removes with a resource it takes from the run.                          *)
(***************************************************************************)
OneMachinePerRun ==
  \A r \in Runs \ robbed :
    Cardinality({x \in OfRun("instance", r) : x.st = "up"}) <= 1

(***************************************************************************)
(* A run whose teardown reported success has left nothing behind that      *)
(* costs money, except a machine of another attempt than the one the saved *)
(* handle names, and Azure satellites that could not be read off the run's *)
(* own machine: the machine is gone already, or another run's has its name *)
(* by now.  Firecracker's teardown reports success whatever happened.      *)
(***************************************************************************)
CleanedMeansGone ==
  \A r \in Runs, x \in cloud :
    /\ record[r] = "completed" /\ provider # "firecracker"
    /\ x.run = r /\ x.kind \in {"instance", "ip", "disk"} /\ x.st # "ending"
    => IF x.kind = "instance" THEN x.id # proc[r].vm
                              ELSE x.kind \notin proc[r].got \/ proc[r].who # r

\* What restricts the access to the machine of a run.
Fence ==
  CASE provider = "aws" -> {"sg"}
    [] provider = "gcp" /\ restrict -> {"allow", "deny"}
    [] provider = "hetzner" /\ restrict -> {"firewall"}
    [] OTHER -> {}

(***************************************************************************)
(* As long as a run works on its machine, the rules that restrict the      *)
(* access to it are in place: a failed or concurrent teardown, a retry or  *)
(* a sweep does not take them from under it.                               *)
(***************************************************************************)
FencedWhileUsed ==
  \A r \in Runs \ robbed :
    proc[r].at \in {"setup", "up", "held"} =>
      \A k \in Fence : OfRun(k, r) # {}

(***************************************************************************)
(* gc destroys only what a run made, and nothing of a run that was alive   *)
(* when gc read the records, whatever state the record is in; unless the   *)
(* operator overrides the empty-store guard.  Where a machine is known by  *)
(* the workload's name, the machine of that name can be another run's by   *)
(* the time it is destroyed.                                               *)
(***************************************************************************)
GcSparesLiveRuns ==
  [][GcStep => \A x \in cloud \ cloud' :
       /\ x.run \in Runs
       /\ x.run \in sweep.live =>
            \/ sweep.override
            \/ provider \in ByName /\ \E y \in sweep.target : y.run # x.run]_gcVars

(***************************************************************************)
(* The process of a run takes down no machine of another run, its adoption *)
(* of machines and its failing operations included.  Where a machine is    *)
(* known by the workload's name this ends when the run's own machine is    *)
(* already gone: another process took it, or a crash came between the      *)
(* teardown and the record and stop repeats the teardown.                  *)
(***************************************************************************)
TeardownHitsOwnMachine ==
  [][\A r \in Runs : RunStep(r) =>
       \A x \in Instances : x \notin cloud' =>
         \/ x.run = r
         \/ provider \in ByName /\ (r \in robbed \/ proc[r].goal = "stop")]_gcVars
=============================================================================
