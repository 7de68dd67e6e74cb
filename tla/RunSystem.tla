------------------------------ MODULE RunSystem ------------------------------
(***************************************************************************)
(* A run shared between processes: the executor of module Executor, and    *)
(* the commands that other `dispatcher` processes issue against the same   *)
(* run through its record and its machine: stop and stop --force           *)
(* (internal/cli/stop.go), status (status.go), renew (renew.go) and gc     *)
(* (gc.go).  Each of Commands is issued at most once, at any time.         *)
(*                                                                         *)
(* A command reads the record once, works on its own copy while it talks   *)
(* to the provider, and at the end overwrites the whole record with the    *)
(* copy.  Nothing locks the record in between.                             *)
(*                                                                         *)
(* Other runs have records too, so gc's guard for an empty store does not  *)
(* apply.                                                                  *)
(***************************************************************************)
EXTENDS Executor

CONSTANT Invocations(_)  \* the sets of commands issued against a run of a plan

ASSUME InvocationsAssumption ==
  \A p \in Plans :
    Invocations(p) \subseteq SUBSET {"stop", "force-stop", "status", "renew", "gc"}

VARIABLE cmd  \* what each command is doing, and its copy of the record

Commands == DOMAIN cmd

sysVars == <<vars, cmd>>

CmdLabels == {"ready", "connected", "destroying", "forcing", "saving",
              "sweeping", "saved", "noop", "failed"}

\* Command c moves to l, holding rec as its copy of the record.
CmdTo(c, l, rec) ==
  cmd' = [cmd EXCEPT ![c].pc = l, ![c].rec = rec]

(***************************************************************************)
(* ReconnectToRun, as stop, status and renew use it.  A record that is     *)
(* final ends the command; a durable run whose record has no handle, or    *)
(* whose adapter cannot be reached, is an error, which only --force goes   *)
(* beyond.  A run on a target that is not durable has nothing to reconnect *)
(* to: stop goes on without a handle, status and renew end.                *)
(***************************************************************************)
ReconnectToRun(c) ==
  /\ c # "gc" /\ cmd[c].pc = "ready" /\ disk # None
  /\ \/ /\ IsTerminal(disk.state)
        /\ CmdTo(c, "noop", disk)
     \/ /\ ~IsTerminal(disk.state) /\ plan.durable
        /\ \/ disk.handle # 0 /\ CmdTo(c, "connected", disk)
           \/ CmdTo(c, IF c = "force-stop" THEN "forcing" ELSE "failed", disk)
     \/ /\ ~IsTerminal(disk.state) /\ ~plan.durable
        /\ IF c \in {"stop", "force-stop"}
           THEN CmdTo(c, "saving",
                      [disk EXCEPT !.state = Transition(@, "stopping")])
           ELSE CmdTo(c, "failed", disk)
  /\ UNCHANGED vars

StopTerminate(c) ==
  /\ c \in {"stop", "force-stop"} /\ cmd[c].pc = "connected"
  /\ Terminate(cmd[c].rec.handle)
  /\ CmdTo(c, "destroying",
           [cmd[c].rec EXCEPT
              !.state = Transition(Transition(@, "stopping"), "cleaning-up")])
  /\ UNCHANGED <<mainVars, run, owed, goVars, storeVars, vm, envVars>>

\* Mutant: the result of Cleanup is not looked at.
MutStopCleanup(c) ==
  /\ cmd[c].pc = "destroying"
  /\ TornDown(cmd[c].rec.handle)
  /\ CmdTo(c, "saving",
           [cmd[c].rec EXCEPT !.state = Transition(@, "completed")])
  /\ UNCHANGED <<mainVars, run, owed, goVars, storeVars, work, envVars>>

StopCleanup(c) ==
  /\ cmd[c].pc = "destroying"
  /\ LET rec == cmd[c].rec IN
     \/ /\ vm' = [vm EXCEPT ![rec.handle] = "gone"]
        /\ CmdTo(c, "saving",
                 [rec EXCEPT !.state = Transition(@, "completed")])
     \/ /\ TornDown(rec.handle)
        /\ CmdTo(c, "saving",
                 [rec EXCEPT !.state = SetError(@, "cleanup-failed")])
  /\ UNCHANGED <<mainVars, run, owed, goVars, storeVars, work, envVars>>

\* forceStop loads the record again.
ForceStop(c) ==
  /\ cmd[c].pc = "forcing"
  /\ IF IsTerminal(disk.state)
     THEN CmdTo(c, "noop", disk)
     ELSE CmdTo(c, "saving",
                [disk EXCEPT !.state = SetError(@, "cleanup-failed")])
  /\ UNCHANGED vars

(***************************************************************************)
(* status reads the live state.  A final one is stored in the record; a    *)
(* run that is still up has its watchdog renewed, and is saved if that     *)
(* succeeds.                                                               *)
(***************************************************************************)
Refresh ==
  /\ "status" \in Commands /\ cmd["status"].pc = "connected"
  /\ LET rec == cmd["status"].rec
         v == rec.handle
         found(s) ==
           CmdTo("status", "saving", [rec EXCEPT !.state = SetError(@, s)])
     IN \/ vm[v] = "up" /\ work[v] = "ok" /\ found("completed")
        \/ ~Busy(v) /\ found("execution-failed")
        \/ Busy(v) /\ CmdTo("status", "saving", rec)
        \/ CmdTo("status", "failed", rec)
  /\ UNCHANGED vars

RenewWatchdog ==
  /\ "renew" \in Commands /\ cmd["renew"].pc = "connected"
  /\ \/ vm[cmd["renew"].rec.handle] = "up"
          /\ CmdTo("renew", "saving", cmd["renew"].rec)
     \/ CmdTo("renew", "failed", cmd["renew"].rec)
  /\ UNCHANGED vars

\* A save that fails is an error for renew and stop --force only.
Save(c) ==
  /\ cmd[c].pc = "saving"
  /\ \/ /\ disk' = cmd[c].rec
        /\ CmdTo(c, "saved", cmd[c].rec)
     \/ /\ StoreFaults /\ UNCHANGED disk
        /\ CmdTo(c, IF c \in {"renew", "force-stop"} THEN "failed" ELSE "saved",
                 cmd[c].rec)
  /\ UNCHANGED <<mainVars, run, owed, goVars, pend, cloudVars, envVars>>

-----------------------------------------------------------------------------
\* Mutant: any run that is not Running is taken for over.
MutOrphaned(rec) == rec = None \/ rec.state # "running"

(***************************************************************************)
(* gc reads the records first, then lists the machines, then destroys the  *)
(* ones whose run has no record or a final one.  The machine of an         *)
(* ArtifactFailed run is kept.                                             *)
(***************************************************************************)
Orphaned(rec) ==
  rec = None \/ (IsTerminal(rec.state) /\ rec.state # "artifact-failed")

GcReadRecords ==
  /\ "gc" \in Commands /\ cmd["gc"].pc = "ready"
  /\ CmdTo("gc", "connected", disk)
  /\ UNCHANGED vars

GcListResources ==
  /\ "gc" \in Commands /\ cmd["gc"].pc = "connected"
  /\ cmd' = [cmd EXCEPT
       !["gc"].pc = "sweeping",
       !["gc"].targets =
          IF Orphaned(cmd["gc"].rec) THEN {v \in Attempts : Exists(v)} ELSE {}]
  /\ UNCHANGED vars

GcDestroy(v) ==
  /\ "gc" \in Commands /\ cmd["gc"].pc = "sweeping"
  /\ v \in cmd["gc"].targets
  /\ cmd' = [cmd EXCEPT !["gc"].targets = @ \ {v}]
  /\ TornDown(v)
  /\ UNCHANGED <<mainVars, run, owed, goVars, storeVars, work, envVars>>

-----------------------------------------------------------------------------
SysInit ==
  /\ Init
  /\ \E C \in Invocations(plan) :
       cmd = [c \in C |-> [pc |-> "ready", rec |-> None, targets |-> {}]]

SysNext ==
  \/ Next /\ UNCHANGED cmd
  \/ \E c \in Commands :
       \/ ReconnectToRun(c) \/ StopTerminate(c) \/ StopCleanup(c)
       \/ ForceStop(c) \/ Save(c)
  \/ Refresh \/ RenewWatchdog
  \/ GcReadRecords \/ GcListResources \/ \E v \in Attempts : GcDestroy(v)

SysSpec == SysInit /\ [][SysNext]_sysVars

-----------------------------------------------------------------------------
Stops == Commands \cap {"stop", "force-stop"}

Destroys(v) == vm[v] # "gone" /\ vm'[v] = "gone"

\* A step of gc that takes v off its list has tried to destroy it.
GcReaps(v) ==
  /\ "gc" \in Commands
  /\ v \in cmd["gc"].targets \ cmd'["gc"].targets
  /\ Destroys(v)

(***************************************************************************)
(* Every command is at one of its labels with a copy of a record, and gc   *)
(* has only machines of the run on its list.                               *)
(***************************************************************************)
SysTypeOK ==
  /\ TypeOK
  /\ Commands \in Invocations(plan)
  /\ cmd \in [Commands -> [pc : CmdLabels, rec : Record \cup {None},
                           targets : SUBSET Attempts]]

\* Another command has put a final state on the record.
Finalized(c) ==
  c \in Commands /\ cmd[c].pc = "saved" /\ IsTerminal(cmd[c].rec.state)

(***************************************************************************)
(* gc never destroys a machine of a run that is still going on, if the     *)
(* record of the run existed when gc read the records: whatever the        *)
(* executor's goroutines and concurrent renewals write over it, a record   *)
(* is final only when the run is, or when another command has made it so.  *)
(* That is a stop, whose user has given the run up, or a status.  A status *)
(* excuses only machines with no workload at work; but the executor may    *)
(* still be collecting outputs from one (status.go:55, gc.go:131), and     *)
(* with the opt-in retry a status that saw the first attempt fail may be   *)
(* read by gc while the second is at work.                                 *)
(***************************************************************************)
GcSparesRecordedRun ==
  [][\A v \in Attempts :
       GcReaps(v) /\ cmd["gc"].rec # None =>
         \/ IsTerminal(run.state)
         \/ \E c \in Stops : Finalized(c)
         \/ Finalized("status") /\ (Busy(v) => plan.retry)]_sysVars

(***************************************************************************)
(* Without the opt-in retry, a stop that reports the run Completed has     *)
(* left no machine of the run behind, whatever the executor was doing.     *)
(***************************************************************************)
StopTearsDown ==
  \A c \in Stops :
    ~plan.retry /\ cmd[c].pc = "saved" /\ cmd[c].rec.state = "completed"
      => \A v \in Attempts : ~Exists(v)

(***************************************************************************)
(* No two commands, whatever they interleave with, start a workload twice  *)
(* or leave one running unnoticed when the executor exits.                 *)
(***************************************************************************)
SysNoSilentRunaway == NoDoubleExecution /\ NoSilentRunaway

=============================================================================
