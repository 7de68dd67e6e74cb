------------------------------ MODULE Watchdog ------------------------------
(***************************************************************************)
(* The self-destruct watchdog of a cloud machine, and who renews it.       *)
(*                                                                         *)
(* The machine's boot script writes a deadline to a file and starts a loop *)
(* that halts the machine once its clock is past the deadline.  Execute    *)
(* renews while it sets the machine up, then the executor's heartbeat      *)
(* does, or, for a service, the commands status and renew.  A renewal is   *)
(* computed from the dispatcher's clock and written over ssh: it may be    *)
(* lost, late, or overtaken by a later one.                                *)
(*                                                                         *)
(* Times are kept as what is left of them and Tick counts them down, so    *)
(* the clock is not part of the state and no bound on it is needed.  The   *)
(* machine's clock is ahead of the dispatcher's by skew.  What is due      *)
(* happens before the next Tick.                                           *)
(***************************************************************************)
EXTENDS Integers

CONSTANTS
  TTL,        \* the watchdog's time to live
  MaxDelay,   \* how long a renewal can be on its way
  PollPeriod, \* how often the watchdog reads its deadline
  Skews       \* the differences between the two clocks

ASSUME TimingAssumption ==
  /\ TTL \in Nat \ {0} /\ MaxDelay \in Nat /\ PollPeriod \in Nat \ {0}
  /\ Skews \subseteq Int

VARIABLES
  skew,   \* how far the machine's clock is ahead
  vm,     \* the machine: its state, time to its deadline and to its next poll
  phase,  \* what the dispatcher is doing with it
  beat,   \* the goroutine that renews: on, and the time until it fires
  mail,   \* renewals on their way to the machine
  lost,   \* renewals lost since the one in the file was sent
  lease   \* time to the latest deadline anybody has set

vars == <<skew, vm, phase, beat, mail, lost, lease>>

\* No renewal is in the file, or two were lost since.
Unrenewed == 2

Larger(a, b) == IF a > b THEN a ELSE b

Init ==
  /\ skew \in Skews
  /\ vm = [st |-> "booting", deadline |-> 0, pollAt |-> 0]
  /\ phase = "create"
  /\ beat = [on |-> FALSE, next |-> 0]
  /\ mail = {} /\ lost = Unrenewed /\ lease = 0

-----------------------------------------------------------------------------
(***************************************************************************)
(* The machine.                                                            *)
(***************************************************************************)
\* The boot script writes the deadline and starts the loop.
WatchdogCloudInit ==
  /\ vm.st = "booting"
  /\ vm' = [st |-> "up", deadline |-> TTL, pollAt |-> 0]
  /\ lease' = Larger(lease, TTL)
  /\ UNCHANGED <<skew, phase, beat, mail, lost>>

\* One turn of the loop.
Poll ==
  /\ vm.st = "up" /\ vm.pollAt = 0
  /\ vm' = IF vm.deadline < 0 THEN [vm EXCEPT !.st = "halted"]
                              ELSE [vm EXCEPT !.pollAt = PollPeriod]
  /\ UNCHANGED <<skew, phase, beat, mail, lost, lease>>

\* systemd starts the loop again; the deadline is still in its file.
Reboot ==
  /\ vm.st = "up"
  /\ vm' = [vm EXCEPT !.pollAt = 0]
  /\ UNCHANGED <<skew, phase, beat, mail, lost, lease>>

-----------------------------------------------------------------------------
(***************************************************************************)
(* Renewals.                                                               *)
(***************************************************************************)
\* Mutant: two renewals in a TTL.
MutsetupWatchdogInterval == TTL \div 2

setupWatchdogInterval == Larger(TTL \div 3, 1)

\* A renewal as it leaves the dispatcher; after counts the renewals that were
\* lost since.
Renewal == [deadline |-> TTL, by |-> MaxDelay, after |-> 0]

Sent ==
  /\ mail' = mail \cup {Renewal}
  /\ lease' = Larger(lease, TTL - skew)
  /\ UNCHANGED lost

\* ssh fails: a warning in the log, and the next turn tries again.
Fails ==
  /\ mail' = {[m EXCEPT !.after = IF @ < Unrenewed THEN @ + 1 ELSE @] : m \in mail}
  /\ lost' = (IF lost < Unrenewed THEN lost + 1 ELSE lost)
  /\ UNCHANGED lease

ExtendWatchdogViaSSH == Sent \/ Fails

\* Mutant: a renewal adds to the deadline it finds.
MutWritten(m) == vm.deadline + TTL

\* The deadline a renewal leaves in the file.
Written(m) == m.deadline - skew

\* The remote command of a renewal runs; during the boot it has no file.
Arrive ==
  \E m \in mail :
    /\ mail' = mail \ {m}
    /\ IF vm.st = "up"
         THEN vm' = [vm EXCEPT !.deadline = Written(m)] /\ lost' = m.after
         ELSE UNCHANGED <<vm, lost>>
    /\ UNCHANGED <<skew, phase, beat, lease>>

-----------------------------------------------------------------------------
(***************************************************************************)
(* The dispatcher.                                                         *)
(***************************************************************************)
Off == [on |-> FALSE, next |-> 0]

\* Execute has waited for cloud-init (in vain, perhaps) and starts to renew.
maintainSetupWatchdog ==
  /\ phase = "create" /\ phase' = "setup"
  /\ beat' = [on |-> TRUE, next |-> 0]
  /\ UNCHANGED <<skew, vm, mail, lost, lease>>

\* Execute has started the workload of an attached run; what the setup
\* goroutine sent may still be on its way.
startEphemeralWatchdog ==
  /\ phase = "setup" /\ phase' = "attached"
  /\ ExtendWatchdogViaSSH
  /\ beat' = [on |-> TRUE, next |-> setupWatchdogInterval]
  /\ UNCHANGED <<skew, vm>>

\* One turn of the setup goroutine or of the heartbeat.
Renew ==
  /\ beat.on /\ beat.next = 0
  /\ ExtendWatchdogViaSSH
  /\ beat' = [beat EXCEPT !.next = setupWatchdogInterval]
  /\ UNCHANGED <<skew, vm, phase>>

\* Once the budget has tripped the heartbeat ends at its next turn.
RenewOverBudget ==
  /\ phase = "attached" /\ beat.on /\ beat.next = 0
  /\ beat' = Off
  /\ UNCHANGED <<skew, vm, phase, mail, lost, lease>>

\* A service gets one renewal and is left alone.
startLongRunning ==
  /\ phase = "setup" /\ phase' = "detached"
  /\ ExtendWatchdogViaSSH
  /\ beat' = Off
  /\ UNCHANGED <<skew, vm>>

\* The commands status and renew.
RenewWatchdog ==
  /\ phase = "detached" /\ mail = {}
  /\ ExtendWatchdogViaSSH
  /\ UNCHANGED <<skew, vm, phase, beat>>

\* The wait is over, or the process has died.
Stop ==
  /\ phase \in {"create", "setup", "attached"} /\ phase' = "gone"
  /\ beat' = Off
  /\ UNCHANGED <<skew, vm, mail, lost, lease>>

\* A unit passes; how long a deadline has passed is not told apart for ever.
Tick ==
  /\ \A m \in mail : m.by > 0
  /\ beat.on => beat.next > 0
  /\ vm.st = "up" => vm.pollAt > 0
  /\ mail' = {[m EXCEPT !.deadline = @ - 1, !.by = @ - 1] : m \in mail}
  /\ beat' = IF beat.on THEN [beat EXCEPT !.next = @ - 1] ELSE beat
  /\ vm' = IF vm.st = "up"
             THEN [vm EXCEPT !.pollAt = @ - 1,
                             !.deadline = Larger(@ - 1, -2 * PollPeriod)]
             ELSE vm
  /\ lease' = Larger(lease - 1, -2 * PollPeriod)
  /\ UNCHANGED <<skew, phase, lost>>

Machine == WatchdogCloudInit \/ Poll \/ Reboot \/ Arrive

Dispatcher ==
  \/ maintainSetupWatchdog \/ startEphemeralWatchdog \/ Renew \/ RenewOverBudget
  \/ startLongRunning \/ RenewWatchdog \/ Stop

Next == Machine \/ Dispatcher \/ Tick

Spec == Init /\ [][Next]_vars

-----------------------------------------------------------------------------
TypeOK ==
  /\ skew \in Skews
  /\ vm \in [st : {"booting", "up", "halted"}, deadline : Int, pollAt : 0..PollPeriod]
  /\ phase \in {"create", "setup", "attached", "detached", "gone"}
  /\ beat \in [on : BOOLEAN, next : 0..setupWatchdogInterval]
  /\ mail \subseteq [deadline : Int, by : 0..MaxDelay, after : 0..Unrenewed]
  /\ lost \in 0..Unrenewed
  /\ lease \in Int

\* A machine that somebody renews, and of whose renewals no two in a row were
\* lost since the one in its file, is not halted by its watchdog, through the
\* handover from the setup goroutine to the executor's heartbeat, with
\* renewals that are late or overtake each other, reboots, and clocks that
\* differ.
SupervisedMachineLives ==
  beat.on /\ vm.st = "halted" => lost = Unrenewed

\* However renewals arrive, and whether or not the dispatcher is still there,
\* a machine is up at most one poll past the latest deadline anybody has set.
LeaseIsBounded ==
  vm.st = "up" => lease >= -PollPeriod
=============================================================================
