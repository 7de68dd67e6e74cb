---------------------------- MODULE WatchdogProofs ----------------------------
(***************************************************************************)
(* Proofs about the watchdog of a cloud machine, for every time to live,   *)
(* delay, poll period and set of clock differences.                        *)
(***************************************************************************)
EXTENDS Watchdog, TLAPS

(***************************************************************************)
(* Every deadline in the file, or on its way to it, was set by somebody,   *)
(* and the loop that reads the file has not slept through more than one    *)
(* period since it last found the deadline in the future.                  *)
(***************************************************************************)
LeaseInv ==
  /\ vm.st = "up" => vm.deadline <= lease /\ vm.pollAt - PollPeriod <= lease
  /\ \A m \in mail : m.deadline - skew <= lease

(***************************************************************************)
(* Two periods of the renewals, the time one of them is on its way, the    *)
(* time by which another overtakes it, and the skew of the clocks fit into *)
(* the TTL.  With the default of 30 minutes and renewals every 10 that     *)
(* leaves 10 minutes for the skew and twice the timeout of ssh; a TTL of   *)
(* seconds, which the flag allows, does not.                               *)
(***************************************************************************)
Slack ==
  \A s \in Skews : 2 * setupWatchdogInterval + 2 * MaxDelay + s <= TTL

(***************************************************************************)
(* The deadline in the file outlasts the renewal that is expected: one     *)
(* that is still to be sent, a period later if none was lost so far, or    *)
(* one that is on its way.                                                 *)
(***************************************************************************)
Expected == beat.next + (IF lost = 0 THEN setupWatchdogInterval ELSE 0) + MaxDelay

InTime == vm.deadline >= Expected \/ \E m \in mail : vm.deadline >= m.by

SupervisedInv ==
  /\ phase = "create" => mail = {} /\ lost = Unrenewed
  /\ phase = "setup" => beat.on
  /\ beat.on => phase \in {"setup", "attached"}
  /\ vm.st = "booting" => lost = Unrenewed
  /\ \A m \in mail : m.deadline = TTL - MaxDelay + m.by
  /\ beat.on /\ vm.st = "up" /\ lost < Unrenewed => InTime
  /\ SupervisedMachineLives

-----------------------------------------------------------------------------
\* The dispatcher renews every setupWatchdogInterval, which is never zero.
LEMMA IntervalType == setupWatchdogInterval \in Nat \ {0}
BY TimingAssumption DEF setupWatchdogInterval, Larger

\* The larger of two numbers is at least each of them.
LEMMA LargerBounds ==
  ASSUME NEW a \in Int, NEW b \in Int
  PROVE  Larger(a, b) \in Int /\ Larger(a, b) >= a /\ Larger(a, b) >= b
BY DEF Larger

(***************************************************************************)
(* What a renewal, sent or lost, does to the renewals on their way.        *)
(***************************************************************************)
LEMMA ExtendStep ==
  ASSUME TypeOK, ExtendWatchdogViaSSH
  PROVE  /\ mail' \subseteq [deadline : Int, by : 0..MaxDelay, after : 0..Unrenewed]
         /\ lost' \in 0..Unrenewed
         /\ lease' \in Int /\ lease' >= lease
         /\ \A m \in mail : \E n \in mail' : n.by = m.by
         /\ \A n \in mail' :
              \/ n = Renewal /\ lease' >= TTL - skew
              \/ \E m \in mail : n.deadline = m.deadline /\ n.by = m.by
         /\ \/ Renewal \in mail' /\ lost' = lost
            \/ lost' = lost + 1
            \/ lost' = lost /\ lost = Unrenewed
<1>0. /\ skew \in Int /\ lease \in Int /\ lost \in 0..2
      /\ mail \subseteq [deadline : Int, by : 0..MaxDelay, after : 0..2]
      /\ TTL \in Nat /\ MaxDelay \in Nat
  BY TimingAssumption DEF TypeOK, Unrenewed
<1>1. CASE Sent
  <2>1. Renewal \in [deadline : Int, by : 0..MaxDelay, after : 0..2]
    BY <1>0 DEF Renewal
  <2>2. lease' \in Int /\ lease' >= lease /\ lease' >= TTL - skew
    BY <1>0, <1>1, LargerBounds DEF Sent
  <2> QED
    BY <1>0, <1>1, <2>1, <2>2 DEF Sent, Unrenewed
<1>2. CASE Fails
  <2> DEFINE aged(m) == [m EXCEPT !.after = IF @ < 2 THEN @ + 1 ELSE @]
  <2>1. mail' = {aged(m) : m \in mail}
    BY <1>2 DEF Fails, Unrenewed
  <2>2. \A m \in mail :
          /\ aged(m) \in [deadline : Int, by : 0..MaxDelay, after : 0..2]
          /\ aged(m).by = m.by /\ aged(m).deadline = m.deadline
    BY <1>0
  <2>3. lost' = (IF lost < 2 THEN lost + 1 ELSE lost) /\ lease' = lease
    BY <1>2 DEF Fails, Unrenewed
  <2> HIDE DEF aged
  <2> QED
    BY <1>0, <2>1, <2>2, <2>3 DEF Unrenewed
<1> QED
  BY <1>1, <1>2 DEF ExtendWatchdogViaSSH

(***************************************************************************)
(* A unit of time takes one from every deadline on its way.                *)
(***************************************************************************)
LEMMA TickStep ==
  ASSUME TypeOK, Tick
  PROVE  /\ mail' \subseteq [deadline : Int, by : 0..MaxDelay, after : 0..Unrenewed]
         /\ \A n \in mail' :
              \E m \in mail : n.deadline = m.deadline - 1 /\ n.by = m.by - 1
         /\ \A m \in mail : \E n \in mail' : n.by = m.by - 1
         /\ vm' \in [st : {"booting", "up", "halted"}, deadline : Int, pollAt : 0..PollPeriod]
         /\ vm'.st = vm.st
         /\ vm.st = "up" =>
              /\ vm'.deadline = Larger(vm.deadline - 1, -2 * PollPeriod)
              /\ vm'.pollAt = vm.pollAt - 1
         /\ beat' \in [on : BOOLEAN, next : 0..setupWatchdogInterval]
         /\ beat'.on = beat.on /\ (beat.on => beat'.next = beat.next - 1)
         /\ lease' = Larger(lease - 1, -2 * PollPeriod) /\ lease' \in Int
<1>0. /\ lease \in Int /\ MaxDelay \in Nat /\ PollPeriod \in Nat
      /\ mail \subseteq [deadline : Int, by : 0..MaxDelay, after : 0..Unrenewed]
      /\ setupWatchdogInterval \in Nat
  BY TimingAssumption, IntervalType DEF TypeOK
<1>1. \A m \in mail : m.by > 0
  BY DEF Tick
<1> DEFINE older(m) == [m EXCEPT !.deadline = @ - 1, !.by = @ - 1]
<1>2. mail' = {older(m) : m \in mail}
  BY DEF Tick
<1>3. \A m \in mail :
        /\ older(m) \in [deadline : Int, by : 0..MaxDelay, after : 0..Unrenewed]
        /\ older(m).by = m.by - 1 /\ older(m).deadline = m.deadline - 1
  <2> TAKE m \in mail
  <2>0. m \in [deadline : Int, by : 0..MaxDelay, after : 0..Unrenewed]
    BY <1>0
  <2>1. m.by - 1 \in 0..MaxDelay /\ m.deadline - 1 \in Int
    BY <1>0, <1>1
  <2> DEFINE d == m.deadline - 1
             b == m.by - 1
  <2>2. older(m) = [m EXCEPT !.deadline = d, !.by = b]
    OBVIOUS
  <2> HIDE DEF d, b, older
  <2>3. older(m) = [deadline |-> d, by |-> b, after |-> m.after]
    BY <2>0, <2>2
  <2> QED
    BY <2>0, <2>1, <2>3 DEF d, b
<1>4. lease' = Larger(lease - 1, -2 * PollPeriod) /\ lease' \in Int
  <2>1. lease - 1 \in Int /\ -2 * PollPeriod \in Int
    BY <1>0
  <2> QED
    BY <2>1, LargerBounds DEF Tick
<1>5. /\ beat' \in [on : BOOLEAN, next : 0..setupWatchdogInterval]
      /\ beat'.on = beat.on /\ (beat.on => beat'.next = beat.next - 1)
  <2>1. beat \in [on : BOOLEAN, next : 0..setupWatchdogInterval]
    BY DEF TypeOK
  <2>2. CASE beat.on
    <3>1. beat' = [beat EXCEPT !.next = @ - 1] /\ beat.next > 0
      BY <2>2 DEF Tick
    <3>2. beat.next - 1 \in 0..setupWatchdogInterval
      BY <1>0, <2>1, <3>1
    <3> QED
      BY <2>1, <3>1, <3>2
  <2>3. CASE ~beat.on
    BY <2>1, <2>3 DEF Tick
  <2> QED
    BY <2>2, <2>3
<1>6. /\ vm' \in [st : {"booting", "up", "halted"}, deadline : Int, pollAt : 0..PollPeriod]
      /\ vm'.st = vm.st
      /\ vm.st = "up" =>
           /\ vm'.deadline = Larger(vm.deadline - 1, -2 * PollPeriod)
           /\ vm'.pollAt = vm.pollAt - 1
  <2>1. vm \in [st : {"booting", "up", "halted"}, deadline : Int, pollAt : 0..PollPeriod]
    BY DEF TypeOK
  <2>2. CASE vm.st = "up"
    <3> DEFINE d == Larger(vm.deadline - 1, -2 * PollPeriod)
    <3>1. vm' = [vm EXCEPT !.pollAt = @ - 1, !.deadline = d] /\ vm.pollAt > 0
      BY <2>2 DEF Tick
    <3>2. vm.deadline - 1 \in Int /\ -2 * PollPeriod \in Int
      BY <1>0, <2>1
    <3>3. d \in Int
      BY <3>2, LargerBounds
    <3>4. vm.pollAt - 1 \in 0..PollPeriod
      BY <1>0, <2>1, <3>1
    <3> HIDE DEF d
    <3>5. vm' = [st |-> "up", deadline |-> d, pollAt |-> vm.pollAt - 1]
      BY <2>1, <2>2, <3>1
    <3> QED
      BY <2>2, <3>3, <3>4, <3>5 DEF d
  <2>3. CASE vm.st # "up"
    BY <2>1, <2>3 DEF Tick
  <2> QED
    BY <2>2, <2>3
<1> HIDE DEF older
<1> QED
  BY <1>2, <1>3, <1>4, <1>5, <1>6
-----------------------------------------------------------------------------
(***************************************************************************)
(* Types.                                                                  *)
(***************************************************************************)
LEMMA TypeInit == Init => TypeOK
BY TimingAssumption, IntervalType DEF Init, TypeOK, Unrenewed

\* Every step keeps the types.
LEMMA TypeStep ==
  ASSUME TypeOK, [Next]_vars
  PROVE  TypeOK'
<1>0. /\ TTL \in Nat /\ MaxDelay \in Nat /\ PollPeriod \in Nat
      /\ Skews \subseteq Int /\ setupWatchdogInterval \in Nat
  BY TimingAssumption, IntervalType
<1>1. CASE WatchdogCloudInit
  BY <1>0, <1>1, LargerBounds DEF WatchdogCloudInit, TypeOK
<1>2. CASE Poll
  BY <1>0, <1>2 DEF Poll, TypeOK
<1>3. CASE Reboot
  BY <1>0, <1>3 DEF Reboot, TypeOK
<1>4. CASE Arrive
  BY <1>0, <1>4 DEF Arrive, Written, TypeOK
<1>5. CASE maintainSetupWatchdog
  BY <1>0, <1>5 DEF maintainSetupWatchdog, TypeOK
<1>6. CASE startEphemeralWatchdog
  BY <1>0, <1>6, ExtendStep DEF startEphemeralWatchdog, TypeOK
<1>7. CASE Renew
  BY <1>0, <1>7, ExtendStep DEF Renew, TypeOK
<1>8. CASE RenewOverBudget
  BY <1>0, <1>8 DEF RenewOverBudget, Off, TypeOK
<1>9. CASE startLongRunning
  BY <1>0, <1>9, ExtendStep DEF startLongRunning, Off, TypeOK
<1>10. CASE RenewWatchdog
  BY <1>0, <1>10, ExtendStep DEF RenewWatchdog, TypeOK
<1>11. CASE Stop
  BY <1>0, <1>11 DEF Stop, Off, TypeOK
<1>12. CASE Tick
  <2>1. UNCHANGED <<skew, phase, lost>>
    BY <1>12 DEF Tick
  <2> QED
    BY <1>12, <2>1, TickStep DEF TypeOK
<1>13. CASE UNCHANGED vars
  BY <1>13 DEF vars, TypeOK
<1> QED
  BY <1>1, <1>2, <1>3, <1>4, <1>5, <1>6, <1>7, <1>8, <1>9, <1>10, <1>11,
     <1>12, <1>13 DEF Next, Machine, Dispatcher

(***************************************************************************)
(* The machine, the dispatcher and the renewals keep to their types.       *)
(***************************************************************************)
THEOREM TypeCorrect == Spec => []TypeOK
BY TypeInit, TypeStep, PTL DEF Spec

-----------------------------------------------------------------------------
(***************************************************************************)
(* The latest deadline anybody has set bounds the life of the machine.     *)
(***************************************************************************)
LEMMA LeaseInit == Init => LeaseInv
BY DEF Init, LeaseInv

\* Every step keeps the lease bounded: a renewal writes now plus the TTL.
LEMMA LeaseStep ==
  ASSUME TypeOK, LeaseInv, [Next]_vars
  PROVE  LeaseInv'
<1>0. /\ TTL \in Nat /\ MaxDelay \in Nat /\ PollPeriod \in Nat
      /\ skew \in Int /\ lease \in Int
      /\ vm \in [st : {"booting", "up", "halted"}, deadline : Int, pollAt : 0..PollPeriod]
      /\ \A m \in mail : m.deadline \in Int
  BY TimingAssumption DEF TypeOK
<1>1. CASE WatchdogCloudInit
  <2>1. lease' \in Int /\ lease' >= lease /\ lease' >= TTL
    BY <1>0, <1>1, LargerBounds DEF WatchdogCloudInit
  <2> QED
    BY <1>0, <1>1, <2>1 DEF WatchdogCloudInit, LeaseInv
<1>2. CASE Poll
  BY <1>0, <1>2 DEF Poll, LeaseInv
<1>3. CASE Reboot
  BY <1>0, <1>3 DEF Reboot, LeaseInv
<1>4. CASE Arrive
  BY <1>0, <1>4 DEF Arrive, Written, LeaseInv
<1>5. ASSUME ExtendWatchdogViaSSH, UNCHANGED <<skew, vm>>
      PROVE  LeaseInv'
  <2>1. /\ lease' \in Int /\ lease' >= lease
        /\ \A n \in mail' :
             \/ n = Renewal /\ lease' >= TTL - skew
             \/ \E m \in mail : n.deadline = m.deadline
    BY <1>5, ExtendStep
  <2>2. \A n \in mail' : n.deadline - skew <= lease'
    BY <1>0, <2>1 DEF Renewal, LeaseInv
  <2> QED
    BY <1>0, <1>5, <2>1, <2>2 DEF LeaseInv
<1>6. CASE startEphemeralWatchdog \/ Renew \/ startLongRunning \/ RenewWatchdog
  BY <1>5, <1>6 DEF startEphemeralWatchdog, Renew, startLongRunning, RenewWatchdog
<1>7. CASE UNCHANGED <<skew, vm, mail, lease>>
  BY <1>7 DEF LeaseInv
<1>8. CASE maintainSetupWatchdog \/ RenewOverBudget \/ Stop
  BY <1>7, <1>8 DEF maintainSetupWatchdog, RenewOverBudget, Stop
<1>9. CASE Tick
  <2>1. skew' = skew
    BY <1>9 DEF Tick
  <2>2. \A a, b \in Int : a <= b => a - 1 <= Larger(b - 1, -2 * PollPeriod)
    BY <1>0 DEF Larger
  <2>3. \A a, b \in Int :
          a <= b => Larger(a - 1, -2 * PollPeriod) <= Larger(b - 1, -2 * PollPeriod)
    BY <1>0 DEF Larger
  <2>4. lease' = Larger(lease - 1, -2 * PollPeriod)
    BY <1>9 DEF Tick
  <2>5. \A n \in mail' : n.deadline - skew <= lease'
    <3> TAKE n \in mail'
    <3>1. PICK m \in mail : n.deadline = m.deadline - 1
      BY <1>9, TickStep
    <3>2. m.deadline - skew \in Int /\ m.deadline - skew <= lease
      BY <1>0 DEF LeaseInv
    <3>3. m.deadline - skew - 1 <= lease'
      BY <1>0, <2>2, <2>4, <3>2
    <3> QED
      BY <1>0, <3>1, <3>3
  <2>6. ASSUME vm'.st = "up"
        PROVE  vm'.deadline <= lease' /\ vm'.pollAt - PollPeriod <= lease'
    <3>1. /\ vm.st = "up"
          /\ vm'.deadline = Larger(vm.deadline - 1, -2 * PollPeriod)
          /\ vm'.pollAt = vm.pollAt - 1
      BY <1>9, <2>6, TickStep
    <3>2. /\ vm.deadline \in Int /\ vm.pollAt - PollPeriod \in Int
          /\ vm.deadline <= lease /\ vm.pollAt - PollPeriod <= lease
      BY <1>0, <3>1 DEF LeaseInv
    <3>3. vm.pollAt - PollPeriod - 1 <= lease'
      BY <1>0, <2>2, <2>4, <3>2
    <3> QED
      BY <1>0, <2>3, <2>4, <3>1, <3>2, <3>3
  <2> QED
    BY <2>1, <2>5, <2>6 DEF LeaseInv
<1> QED
  BY <1>1, <1>2, <1>3, <1>4, <1>6, <1>7, <1>8, <1>9 DEF Next, Machine, Dispatcher, vars

(***************************************************************************)
(* A machine is up at most one poll past the latest deadline anybody has   *)
(* set, however renewals arrive and whether or not the dispatcher is still *)
(* there (the loop of WatchdogCloudInit, ExtendWatchdogViaSSH).            *)
(***************************************************************************)
THEOREM LeaseCorrect == Spec => []LeaseIsBounded
<1>1. TypeOK /\ LeaseInv => LeaseIsBounded
  BY TimingAssumption DEF TypeOK, LeaseInv, LeaseIsBounded
<1>2. Spec => []LeaseInv
  BY LeaseInit, LeaseStep, TypeCorrect, PTL DEF Spec
<1> QED
  BY <1>1, <1>2, TypeCorrect, PTL
-----------------------------------------------------------------------------
(***************************************************************************)
(* A machine whose renewals get through lives.                             *)
(***************************************************************************)
LEMMA SupervisedInit == Init => SupervisedInv
BY DEF Init, SupervisedInv, SupervisedMachineLives

\* A renewal that is sent at its turn, or lost, leaves the deadline in time
\* for the next.
LEMMA ExtendInTime ==
  ASSUME TypeOK, SupervisedInv, ExtendWatchdogViaSSH, beat.on,
         beat'.next = setupWatchdogInterval, vm' = vm,
         vm'.st = "up", lost' < Unrenewed
  PROVE  InTime'
<1> DEFINE I == setupWatchdogInterval
<1>0. /\ MaxDelay \in Nat /\ I \in Nat /\ beat.next \in Nat
      /\ vm.deadline \in Int /\ lost \in 0..2 /\ Unrenewed = 2
      /\ \A m \in mail : m.by \in Nat
  BY TimingAssumption, IntervalType DEF TypeOK, Unrenewed
<1>1. /\ \A m \in mail : \E n \in mail' : n.by = m.by
      /\ \/ Renewal \in mail' /\ lost' = lost
         \/ lost' = lost + 1
         \/ lost' = lost /\ lost = Unrenewed
  BY ExtendStep
<1>2. InTime
  BY <1>0, <1>1 DEF SupervisedInv
<1>3. CASE \E m \in mail : vm.deadline >= m.by
  BY <1>1, <1>3 DEF InTime
<1>4. CASE vm.deadline >= Expected
  <2>1. CASE Renewal \in mail'
    <3>1. vm.deadline >= Renewal.by
      BY <1>0, <1>4 DEF Expected, Renewal
    <3> QED
      BY <2>1, <3>1 DEF InTime
  <2>2. CASE lost' = lost + 1
    <3>1. lost = 0 /\ lost' = 1
      BY <1>0, <2>2
    <3>2. vm.deadline >= I + MaxDelay
      BY <1>0, <1>4, <3>1 DEF Expected
    <3>3. Expected' = I + MaxDelay
      BY <1>0, <3>1 DEF Expected
    <3> QED
      BY <3>2, <3>3 DEF InTime
  <2> QED
    BY <1>0, <1>1, <2>1, <2>2
<1> QED
  BY <1>2, <1>3, <1>4 DEF InTime

\* With slack in the interval every step keeps the renewals ahead of the deadline.
LEMMA SupervisedStep ==
  ASSUME Slack, TypeOK, SupervisedInv, [Next]_vars
  PROVE  SupervisedInv'
<1> DEFINE I == setupWatchdogInterval
<1>0. /\ TTL \in Nat /\ MaxDelay \in Nat /\ PollPeriod \in Nat
      /\ I \in Nat \ {0} /\ skew \in Skews /\ skew \in Int
      /\ vm \in [st : {"booting", "up", "halted"}, deadline : Int, pollAt : 0..PollPeriod]
      /\ beat \in [on : BOOLEAN, next : 0..I]
      /\ mail \subseteq [deadline : Int, by : 0..MaxDelay, after : 0..2]
      /\ lost \in 0..2 /\ Unrenewed = 2
  BY TimingAssumption, IntervalType DEF TypeOK, Unrenewed
<1>1. CASE WatchdogCloudInit
  BY <1>0, <1>1 DEF WatchdogCloudInit, SupervisedInv, SupervisedMachineLives
<1>2. CASE Poll
  <2>1. UNCHANGED <<phase, beat, mail, lost>>
    BY <1>2 DEF Poll
  <2>2. vm.st = "up" /\ vm'.deadline = vm.deadline /\ vm'.st # "booting"
    BY <1>0, <1>2 DEF Poll
  <2>3. vm'.st = "halted" => vm.deadline < 0
    BY <1>0, <1>2 DEF Poll
  <2>4. InTime => vm.deadline >= 0
    BY <1>0 DEF InTime, Expected
  <2>5. SupervisedMachineLives'
    BY <1>0, <2>1, <2>2, <2>3, <2>4 DEF SupervisedInv, SupervisedMachineLives
  <2>6. InTime => InTime'
    BY <2>1, <2>2 DEF InTime, Expected
  <2> QED
    BY <2>1, <2>2, <2>5, <2>6 DEF SupervisedInv
<1>3. CASE Reboot
  <2>1. UNCHANGED <<phase, beat, mail, lost>> /\ vm'.st = vm.st /\ vm'.deadline = vm.deadline
    BY <1>0, <1>3 DEF Reboot
  <2> QED
    BY <2>1 DEF SupervisedInv, SupervisedMachineLives, InTime, Expected
<1>4. CASE Arrive
  <2>1. PICK m \in mail :
          /\ mail' = mail \ {m}
          /\ IF vm.st = "up"
               THEN vm' = [vm EXCEPT !.deadline = Written(m)] /\ lost' = m.after
               ELSE UNCHANGED <<vm, lost>>
    BY <1>4 DEF Arrive
  <2>2. UNCHANGED <<phase, beat>> /\ phase # "create"
    BY <1>4 DEF Arrive, SupervisedInv
  <2>3. CASE vm.st = "up"
    <3>1. vm'.st = "up" /\ vm'.deadline = m.deadline - skew
      BY <1>0, <2>1, <2>3 DEF Written
    <3>2. m.deadline = TTL - MaxDelay + m.by /\ m.by \in Nat
      BY <1>0 DEF SupervisedInv
    <3>3. 2 * I + 2 * MaxDelay + skew <= TTL
      BY <1>0 DEF Slack
    <3>4. Expected' <= 2 * I + MaxDelay /\ Expected' \in Int
      BY <1>0, <2>2 DEF Expected
    <3>5. InTime'
      BY <1>0, <3>1, <3>2, <3>3, <3>4 DEF InTime
    <3> QED
      BY <2>1, <2>2, <3>1, <3>5 DEF SupervisedInv, SupervisedMachineLives
  <2>4. CASE vm.st # "up"
    BY <2>1, <2>2, <2>4 DEF SupervisedInv, SupervisedMachineLives
  <2> QED
    BY <2>3, <2>4
<1>5. CASE maintainSetupWatchdog
  BY <1>0, <1>5 DEF maintainSetupWatchdog, SupervisedInv, SupervisedMachineLives
<1>6. ASSUME ExtendWatchdogViaSSH, vm' = vm, phase # "create", phase' # "create",
             phase' = "setup" => beat'.on,
             beat'.on => phase' \in {"setup", "attached"},
             beat'.on => beat.on /\ beat'.next = I
      PROVE  SupervisedInv'
  <2>1. \A n \in mail' : n = Renewal \/ \E m \in mail : n.deadline = m.deadline /\ n.by = m.by
    BY <1>6, ExtendStep
  <2>2. \A n \in mail' : n.deadline = TTL - MaxDelay + n.by
    BY <1>0, <2>1 DEF Renewal, SupervisedInv
  <2>3. lost = Unrenewed => lost' = Unrenewed
    BY <1>0, <1>6, ExtendStep
  <2>4. beat'.on /\ vm'.st = "up" /\ lost' < Unrenewed => InTime'
    BY <1>6, ExtendInTime
  <2>5. SupervisedMachineLives' /\ (vm'.st = "booting" => lost' = Unrenewed)
    BY <1>6, <2>3 DEF SupervisedInv, SupervisedMachineLives
  <2> QED
    BY <1>6, <2>2, <2>4, <2>5 DEF SupervisedInv
<1>7. CASE startEphemeralWatchdog
  BY <1>0, <1>6, <1>7 DEF startEphemeralWatchdog, SupervisedInv
<1>8. CASE Renew
  <2>1. phase # "create"
    BY <1>8 DEF Renew, SupervisedInv
  <2> QED
    BY <1>0, <1>6, <1>8, <2>1 DEF Renew, SupervisedInv
<1>9. CASE startLongRunning
  BY <1>0, <1>6, <1>9 DEF startLongRunning, Off, SupervisedInv
<1>10. CASE RenewWatchdog
  BY <1>0, <1>6, <1>10 DEF RenewWatchdog, SupervisedInv
<1>11. CASE RenewOverBudget \/ Stop
  BY <1>0, <1>11 DEF RenewOverBudget, Stop, Off, SupervisedInv, SupervisedMachineLives
<1>12. CASE Tick
  <2>1. phase' = phase /\ lost' = lost /\ vm'.st = vm.st /\ beat'.on = beat.on
    BY <1>12, TickStep DEF Tick
  <2>2. /\ \A n \in mail' :
             \E m \in mail : n.deadline = m.deadline - 1 /\ n.by = m.by - 1
        /\ \A m \in mail : \E n \in mail' : n.by = m.by - 1
        /\ vm.st = "up" => vm'.deadline = Larger(vm.deadline - 1, -2 * PollPeriod)
        /\ beat.on => beat'.next = beat.next - 1
    BY <1>12, TickStep
  <2>3. \A n \in mail' : n.deadline = TTL - MaxDelay + n.by
    BY <1>0, <2>2 DEF SupervisedInv
  <2>4. phase' = "create" => mail' = {}
    BY <2>1, <2>2 DEF SupervisedInv
  <2>5. ASSUME beat.on, vm.st = "up", InTime
        PROVE  InTime'
    <3>1. vm.deadline - 1 \in Int /\ -2 * PollPeriod \in Int
      BY <1>0
    <3>2. vm'.deadline \in Int /\ vm'.deadline >= vm.deadline - 1
      BY <2>2, <2>5, <3>1, LargerBounds, ZenonT(120)
    <3>3. CASE vm.deadline >= Expected
      <4>1. Expected' = Expected - 1 /\ Expected \in Int
        BY <1>0, <2>1, <2>2, <2>5 DEF Expected
      <4> QED
        BY <1>0, <3>2, <3>3, <4>1 DEF InTime
    <3>4. CASE \E m \in mail : vm.deadline >= m.by
      <4>1. PICK m \in mail : vm.deadline >= m.by
        BY <3>4
      <4>2. PICK n \in mail' : n.by = m.by - 1
        BY <2>2
      <4>3. vm'.deadline >= n.by
        BY <1>0, <3>2, <4>1, <4>2
      <4> QED
        BY <4>3 DEF InTime
    <3> QED
      BY <2>5, <3>3, <3>4 DEF InTime
  <2> QED
    BY <2>1, <2>3, <2>4, <2>5 DEF SupervisedInv, SupervisedMachineLives
<1>13. CASE UNCHANGED vars
  BY <1>13 DEF vars, SupervisedInv, SupervisedMachineLives, InTime, Expected
<1> QED
  BY <1>1, <1>2, <1>3, <1>4, <1>5, <1>7, <1>8, <1>9, <1>10, <1>11, <1>12, <1>13
     DEF Next, Machine, Dispatcher

(***************************************************************************)
(* When two periods, twice the delay and the skew fit into the TTL, a      *)
(* machine that somebody renews (maintainSetupWatchdog, then the heartbeat *)
(* of startEphemeralWatchdog) is not halted by its watchdog unless two     *)
(* renewals in a row were lost.                                            *)
(***************************************************************************)
THEOREM SupervisedCorrect ==
  ASSUME Slack
  PROVE  Spec => []SupervisedMachineLives
<1>1. Spec => []SupervisedInv
  BY Slack, SupervisedInit, SupervisedStep, TypeCorrect, PTL DEF Spec
<1>2. SupervisedInv => SupervisedMachineLives
  BY DEF SupervisedInv
<1> QED
  BY <1>1, <1>2, PTL
=============================================================================
