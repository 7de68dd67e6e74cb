----------------------- MODULE GarbageCollectorProofs -----------------------
(***************************************************************************)
(* Proofs about the gc command beside the runs, for every number of runs,  *)
(* every provider, every number of failing calls and retries, and with no  *)
(* limit to how many commands are at work at once.                         *)
(***************************************************************************)
EXTENDS GarbageCollector, TLAPS

(***************************************************************************)
(* The records that the state is made of.                                  *)
(***************************************************************************)
Shape ==
  /\ provider \in Providers
  /\ DOMAIN proc = Procs /\ \A p \in Procs : DOMAIN proc[p] = DOMAIN Idle
  /\ DOMAIN record = Runs /\ DOMAIN sweep = DOMAIN NoSweep

\* Where machines have ids of their own, the id tells whose machine it is.
OwnId(x) == provider \notin ByName => x.id[1] = x.run

\* Whatever is in the account was there before, or is tagged with its run.
CloudInv ==
  \A x \in cloud :
    /\ DOMAIN x = DOMAIN Foreign
    /\ x \in {Foreign, Standing} \/ (x.run \in Runs /\ OwnId(x))

\* A run at work has a record that protects it: one that is not over, or one
\* that does not parse.
LiveInv ==
  \A r \in Runs :
    IF r \in Live THEN record[r] \in {"active", "held", "damaged", "lost"}
                  ELSE proc[r].todo = <<>>

\* What gc knows of the runs that were alive when it read the records, and of
\* the resources it has chosen since.
SweepInv ==
  LET gc == proc[Gc]
  IN /\ gc.at \in {"idle", "list", "destroy"}
     /\ gc.at # "destroy" => sweep.target = {}
     /\ sweep.target = {} => gc.todo = <<>>
     /\ gc.at # "idle" => \A r \in sweep.live :
          r \in sweep.spared \/ sweep.all \/ sweep.empty
     /\ gc.at = "destroy" =>
          /\ \A y \in sweep.targets \cup sweep.target :
               /\ y.run \in Runs /\ OwnId(y)
               /\ y.run \in sweep.live => sweep.override
          /\ \A y \in sweep.target :
               /\ sweep.target = {y} /\ gc.vm = y.id
               /\ gc.who \in {NoRun, y.run} \/ (gc.who \in Runs /\ provider \in ByName)

GcInv == Shape /\ CloudInv /\ LiveInv /\ SweepInv

-----------------------------------------------------------------------------
(***************************************************************************)
(* The calls of a process change its own state and nobody else's; a call   *)
(* is made by a process that is in the middle of an operation.             *)
(***************************************************************************)
Steps(p, q) == Goes(p, q) /\ DOMAIN q = DOMAIN Idle

\* The next call of an operation, and the ones after it.
LEMMA HeadTail ==
  ASSUME NEW S, NEW s \in Seq(S), s # <<>>
  PROVE  Head(s) \in S /\ Tail(s) \in Seq(S)
OBVIOUS

\* A machine is some run's, and its id may tell whose.
LEMMA MachineId ==
  ASSUME CloudInv, NEW x \in Instances
  PROVE  x.run \in Runs /\ (provider \notin ByName => x.id[1] = x.run)
BY DEF CloudInv, OwnId, Instances, Foreign, Standing

\* A step of one process leaves the others where they are.
LEMMA GoesEffect ==
  ASSUME Shape, NEW p \in Procs, NEW q, Steps(p, q)
  PROVE  /\ DOMAIN proc' = Procs
         /\ \A o \in Procs : DOMAIN proc'[o] = DOMAIN Idle
         /\ proc'[p] = q
         /\ \A o \in Procs \ {p} : proc'[o] = proc[o]
BY DEF Shape, Steps, Goes

\* What an operation becomes: it goes on, DestroyVM returns, or it fails.
LEMMA Continuations ==
  ASSUME Shape, NEW p \in Procs
  PROVE  /\ DOMAIN Advanced(p) = DOMAIN Idle /\ Advanced(p).at = proc[p].at
         /\ Advanced(p).vm = proc[p].vm /\ Advanced(p).who = proc[p].who
         /\ \A ok : /\ DOMAIN Returned(p, ok) = DOMAIN Idle
                    /\ Returned(p, ok).at = proc[p].at
                    /\ Returned(p, ok).vm = proc[p].vm
                    /\ Returned(p, ok).who = proc[p].who
         /\ DOMAIN Failed(p) = DOMAIN Idle /\ Failed(p).at = "rollback"
         /\ Failed(p).vm = proc[p].vm /\ Failed(p).who = proc[p].who
BY DEF Shape, Idle, Advanced, Returned, Failed

\* A call of DestroyVM leaves the process in the operation it was in, and any run
\* it notes down is the one of a machine that the call names.
LEMMA DestroyProc ==
  ASSUME Shape, NEW p \in Procs, DestroyCall(p)
  PROVE  /\ proc[p].todo # <<>> /\ OnlyCalls
         /\ \E q : /\ Steps(p, q) /\ q.at = proc[p].at /\ q.vm = proc[p].vm
                   /\ \/ q.who \in {NoRun, proc[p].who}
                      \/ \E x \in Target(p) : q.who = x.run
<1> USE Continuations
<1>0. DOMAIN proc[p] = DOMAIN Idle
  BY DEF Shape
<1>1. CASE Captures(p)
  <2> DEFINE knows(kinds, w) == [Advanced(p) EXCEPT !.got = kinds, !.who = w]
  <2>1. \A kinds, w : /\ DOMAIN knows(kinds, w) = DOMAIN Idle
                      /\ knows(kinds, w).at = proc[p].at
                      /\ knows(kinds, w).vm = proc[p].vm
                      /\ knows(kinds, w).who = w
    BY DEF Idle
  <2>2. \/ \E x \in Target(p) : \E kinds : Goes(p, knows(kinds, x.run))
        \/ \E ok : Goes(p, Returned(p, ok))
        \/ Goes(p, knows({}, NoRun))
    BY <1>1, Zenon DEF Captures
  <2> HIDE DEF knows
  <2>3. proc[p].todo # <<>> /\ OnlyCalls
    BY <1>1, Zenon DEF Captures, At
  <2>4. CASE \E x \in Target(p) : \E kinds : Goes(p, knows(kinds, x.run))
    <3>0. PICK x \in Target(p) : \E kinds : Goes(p, knows(kinds, x.run))
      BY <2>4
    <3>1. PICK kinds : Goes(p, knows(kinds, x.run))
      BY <3>0
    <3> DEFINE q == knows(kinds, x.run)
    <3>2. /\ Steps(p, q) /\ q.at = proc[p].at /\ q.vm = proc[p].vm
          /\ q.who = x.run
      BY <2>1, <3>1 DEF Steps
    <3> QED BY <2>3, <3>1, <3>2
  <2>5. CASE \E ok : Goes(p, Returned(p, ok))
    BY <2>3, <2>5 DEF Steps
  <2>6. CASE Goes(p, knows({}, NoRun))
    BY <2>1, <2>3, <2>6 DEF Steps
  <2> QED BY <2>2, <2>4, <2>5, <2>6
<1>2. CASE Kills(p)
  <2>1. \/ Goes(p, Advanced(p))
        \/ \E ok : Goes(p, Returned(p, ok))
    BY <1>2, Zenon DEF Kills
  <2> QED BY <1>2, <2>1 DEF Kills, At, Steps
<1>3. CASE Drops(p)
  <2> DEFINE loud(b) == [Advanced(p) EXCEPT !.ok = @ /\ b]
  <2>1. \A b : /\ DOMAIN loud(b) = DOMAIN Idle
               /\ loud(b).at = proc[p].at /\ loud(b).vm = proc[p].vm
               /\ loud(b).who = proc[p].who
    BY DEF Idle
  <2>2. Goes(p, Advanced(p)) \/ \E b : Goes(p, loud(b))
    BY <1>3, Zenon DEF Drops
  <2> HIDE DEF loud
  <2> QED BY <1>3, <2>1, <2>2 DEF Drops, At, Steps
<1> QED BY <1>1, <1>2, <1>3 DEF DestroyCall

\* Giving up an operation changes what is left to do, not what is known.
LEMMA GivesUpEffect ==
  ASSUME NEW p, NEW q, DOMAIN q = DOMAIN Idle
  PROVE  /\ DOMAIN GivesUp(p, q) = DOMAIN Idle
         /\ GivesUp(p, q).at \in {q.at, "rollback"}
         /\ GivesUp(p, q).vm = q.vm /\ GivesUp(p, q).who = q.who
         /\ GivesUp(p, q).handle = q.handle
BY DEF GivesUp, Idle

\* The machine a call makes known to the process.
Knows(p, vm) ==
  \/ vm = proc[p].vm
  \/ vm = NewId(p) \/ vm = <<p, proc[p].made>>
  \/ \E x \in Adopted(p) : vm = x.id

\* A call moves its own process only, which learns no machine but one of its own
\* or one that it adopts.
LEMMA CallProc ==
  ASSUME Shape, NEW p \in Procs, Call(p)
  PROVE  /\ proc[p].todo # <<>> /\ OnlyCalls
         /\ \E q : /\ Steps(p, q) /\ q.at \in {proc[p].at, "rollback"}
                   /\ Knows(p, q.vm)
                   /\ \/ q.who \in {NoRun, proc[p].who}
                      \/ \E x \in Target(p) : q.who = x.run
<1> USE Continuations
<1> DEFINE Result(q) == /\ DOMAIN q = DOMAIN Idle
                        /\ q.at \in {proc[p].at, "rollback"}
                        /\ Knows(p, q.vm) /\ q.who = proc[p].who
<1>0. DOMAIN proc[p] = DOMAIN Idle /\ Knows(p, proc[p].vm)
  BY DEF Shape, Knows
<1>1. Result(Advanced(p)) /\ Result(Failed(p)) /\ Result(proc[p])
  BY <1>0
<1>2. proc[p].todo # <<>> /\ OnlyCalls
  BY DestroyProc, Zenon
  DEF Call, At, Checks, Refuses, Makes, LaunchSucceeds, LaunchFails, adoptCreatedVM,
      Reaps
<1>3. SUFFICES ASSUME ~DestroyCall(p) PROVE \E q : Goes(p, q) /\ Result(q)
  BY <1>2, DestroyProc DEF Steps, Knows
<1>4. CASE Checks(p) \/ Refuses(p) \/ Reaps(p)
  BY <1>1, <1>4, Zenon DEF Checks, Refuses, Reaps
<1>5. CASE Makes(p)
  <2>1. \A new : Result([Advanced(p) EXCEPT !.fresh = new])
    BY <1>1 DEF Idle
  <2>2. \/ \E new : Goes(p, [Advanced(p) EXCEPT !.fresh = new])
        \/ Goes(p, Failed(p))
    BY <1>5, Zenon DEF Makes
  <2> HIDE DEF Result
  <2> QED BY <1>1, <2>1, <2>2, Zenon
<1>6. CASE LaunchSucceeds(p)
  <2>1. /\ \A vm : Knows(p, vm) =>
             Result([Advanced(p) EXCEPT !.sent = FALSE, !.vm = vm])
        /\ \A vm : Knows(p, vm) =>
             Result([Advanced(p) EXCEPT !.vm = vm, !.made = @ + 1, !.sent = FALSE])
    BY <1>0 DEF Idle
  <2>2. Knows(p, NewId(p)) /\ Knows(p, <<p, proc[p].made>>)
    BY DEF Knows
  <2>3. \/ \E vm : /\ Knows(p, vm)
                   /\ Goes(p, [Advanced(p) EXCEPT !.sent = FALSE, !.vm = vm])
        \/ \E vm : /\ Knows(p, vm)
                   /\ Goes(p, [Advanced(p) EXCEPT !.vm = vm, !.made = @ + 1,
                                                  !.sent = FALSE])
    BY <1>6, <2>2, Zenon DEF LaunchSucceeds
  <2> HIDE DEF Result
  <2> QED BY <2>1, <2>3, Zenon
<1>7. CASE LaunchFails(p)
  <2> DEFINE made == [proc[p] EXCEPT !.made = @ + 1, !.sent = TRUE]
  <2>1. Result(made)
    BY <1>0 DEF Idle
  <2>2. \A q : Result(q) => Result([q EXCEPT !.try = @ + 1]) /\ Result(GivesUp(p, q))
    BY GivesUpEffect DEF Idle
  <2>3. \E q \in {proc[p], made} :
          Goes(p, GivesUp(p, q)) \/ Goes(p, [q EXCEPT !.try = @ + 1])
    BY <1>7, Zenon DEF LaunchFails
  <2> HIDE DEF Result, made
  <2> QED BY <1>1, <2>1, <2>2, <2>3
<1>8. CASE adoptCreatedVM(p)
  <2>1. \A x \in Adopted(p) : Result([proc[p] EXCEPT !.vm = x.id, !.todo = <<>>])
    BY <1>0 DEF Idle, Knows
  <2>2. \A q \in NoneAdopted(p) : Result(q)
    BY <1>0, <1>1, Zenon DEF Idle, NoneAdopted
  <2>3. \/ \E x \in Adopted(p) : Goes(p, [proc[p] EXCEPT !.vm = x.id, !.todo = <<>>])
        \/ \E q \in NoneAdopted(p) : Goes(p, q)
        \/ Goes(p, Failed(p))
    BY <1>8, Zenon DEF adoptCreatedVM
  <2> HIDE DEF Result
  <2> QED BY <1>1, <2>1, <2>2, <2>3, Zenon
<1> QED BY <1>3, <1>4, <1>5, <1>6, <1>7, <1>8 DEF Call

-----------------------------------------------------------------------------
(***************************************************************************)
(* What is made carries the tag of its run, and, where machines have ids   *)
(* of their own, the id of a machine begins with it; taking a machine away *)
(* and halting it keep both.                                               *)
(***************************************************************************)
LEMMA MadeOwn ==
  ASSUME Shape, NEW r \in Runs
  PROVE  /\ \A kind : LET x == Satellite(r, kind)
                      IN DOMAIN x = DOMAIN Foreign /\ x.run = r /\ OwnId(x)
         /\ \A x \in NewMachine(r) :
              DOMAIN x = DOMAIN Foreign /\ x.run = r /\ OwnId(x)
<1>1. \A kind : LET x == Satellite(r, kind)
                IN DOMAIN x = DOMAIN Foreign /\ x.run = r /\ OwnId(x)
  BY DEF Satellite, Foreign, OwnId
<1>2. provider \notin ByName => NewId(r)[1] = r
  BY DEF NewId
<1>3. \A x \in NewMachine(r) : DOMAIN x = DOMAIN Foreign /\ x.run = r /\ OwnId(x)
  BY <1>1, <1>2 DEF NewMachine, Foreign, OwnId
<1> QED BY <1>1, <1>3

\* A machine that changes its state stays the machine of the same run.
LEMMA AlteredOwn ==
  ASSUME CloudInv, NEW x \in Instances, NEW st
  PROVE  LET y == [x EXCEPT !.st = st]
         IN DOMAIN y = DOMAIN Foreign /\ y.run \in Runs /\ OwnId(y)
<1>1. x.run \in Runs /\ OwnId(x) /\ DOMAIN x = DOMAIN Foreign
  BY DEF CloudInv, Instances, Foreign, Standing
<1> QED BY <1>1 DEF OwnId, Foreign

\* A provider lists machines only, and finds those of a run by their tag.
LEMMA ListedMachines ==
  ASSUME Shape, NEW r \in Runs
  PROVE  /\ ListVMs \in SUBSET Instances
         /\ ListedWithTag(r) \in SUBSET Instances
         /\ \A x \in ListedWithTag(r) : x.run = r
<1>1. ListVMs \in SUBSET Instances
  <2> SUFFICES \A gone : MachinesBut(gone) \in SUBSET Instances
    BY BoundsAssumption
    DEF Shape, ListVMs, awsListVMs, azureListVMs, gcpListVMs, hetznerListVMs, ociListVMs,
        lambdaListVMs, limaListVMs, firecrackerListVMs, k8sListVMs
  <2> QED BY DEF MachinesBut
<1> QED BY <1>1, RunsAssumption DEF ListedWithTag, RunTag

\* A call adds no machine but one of its own run.
LEMMA CallCloud ==
  ASSUME Shape, CloudInv, NEW p \in Procs, Call(p), p \in Runs \/ DestroyCall(p)
  PROVE  CloudInv'
<1>1. UNCHANGED <<provider, restrict>>
  BY CallProc DEF OnlyCalls
<1>2. SUFFICES ASSUME NEW x \in cloud', x \notin cloud
               PROVE  DOMAIN x = DOMAIN Foreign /\ x.run \in Runs /\ OwnId(x)
  BY <1>1 DEF CloudInv, OwnId
<1>3. \A m \in SUBSET Instances : \A y \in Without(m) :
        \/ y \in cloud
        \/ DOMAIN y = DOMAIN Foreign /\ y.run \in Runs /\ OwnId(y)
  <2> SUFFICES ASSUME NEW m \in SUBSET Instances, NEW y \in Without(m), y \notin cloud
               PROVE  DOMAIN y = DOMAIN Foreign /\ y.run \in Runs /\ OwnId(y)
    OBVIOUS
  <2>1. PICK z \in m : y = [z EXCEPT !.st = "ending"]
    BY DEF Without
  <2> QED BY <2>1, AlteredOwn
<1>4. CASE DestroyCall(p)
  <2>1. Target(p) \in SUBSET Instances
    BY DEF Target
  <2> QED BY <1>2, <1>3, <1>4, <2>1, Zenon DEF DestroyCall, Captures, Kills, Drops
<1>5. CASE p \in Runs /\ ~DestroyCall(p)
  <2>1. CASE Reaps(p)
    BY <1>2, <1>3, <1>5, <2>1, ListedMachines DEF Reaps
  <2>2. CASE Makes(p)
    BY <1>2, <1>5, <2>2, MadeOwn DEF Makes
  <2>3. CASE LaunchSucceeds(p)
    BY <1>2, <1>5, <2>3, MadeOwn DEF LaunchSucceeds
  <2>4. CASE LaunchFails(p)
    BY <1>2, <1>5, <2>4, MadeOwn, Zenon DEF LaunchFails
  <2>5. CASE Checks(p) \/ Refuses(p) \/ adoptCreatedVM(p)
    BY <1>2, <2>5, Zenon DEF Checks, Refuses, adoptCreatedVM
  <2> QED BY <1>5, <2>1, <2>2, <2>3, <2>4, <2>5 DEF Call
<1> QED BY <1>4, <1>5
-----------------------------------------------------------------------------
(***************************************************************************)
(* The steps of a run that are no calls: what each makes of its process    *)
(* and of its record.                                                      *)
(***************************************************************************)
Lifecycle(r) ==
  \/ Execute(r) \/ Created(r) \/ SetUp(r) \/ K8sSetUp(r) \/ ExecuteFails(r)
  \/ Cleanup(r) \/ Preserve(r) \/ CleanedUp(r) \/ Crash(r) \/ Stop(r)

\* A run begins with a record, keeps one while it is at work, and is over when
\* its record is.
Recorded(r, q) ==
  \/ q.at \notin {"idle", "ended"} /\ record' = record /\ r \in Live
  \/ /\ q.at \notin {"idle", "ended"}
     /\ \E st \in {"active", "held"} : record' = [record EXCEPT ![r] = st]
  \/ /\ q.at = "ended" /\ q.todo = <<>>
     /\ \E st : record' = [record EXCEPT ![r] = st]

\* Between calls a run moves machine ids around without inventing one.
LEMMA LifecycleProc ==
  ASSUME Shape, NEW r \in Runs, Lifecycle(r)
  PROVE  /\ UNCHANGED <<provider, restrict, cloud>>
         /\ \E q : /\ Steps(r, q) /\ Recorded(r, q)
                   /\ q.vm \in {NoVM, proc[r].vm, proc[r].handle, NewId(r)}
                   /\ q.handle \in {NoVM, proc[r].vm, proc[r].handle}
                   /\ q.who \in {NoRun, proc[r].who}
<1> DEFINE Result(q) == /\ DOMAIN q = DOMAIN Idle /\ Recorded(r, q)
                        /\ q.vm \in {NoVM, proc[r].vm, proc[r].handle, NewId(r)}
                        /\ q.handle \in {NoVM, proc[r].vm, proc[r].handle}
                        /\ q.who \in {NoRun, proc[r].who}
<1>0. DOMAIN proc[r] = DOMAIN Idle
  BY DEF Shape, Procs
<1>1. UNCHANGED <<provider, restrict, cloud>>
  BY Zenon DEF Lifecycle, Execute, Created, SetUp, K8sSetUp, ExecuteFails, Cleanup, Preserve,
         CleanedUp, Crash, Stop
<1>2. SUFFICES \E q : Goes(r, q) /\ Result(q)
  BY <1>1 DEF Steps
<1>3. ASSUME NEW b, Ends(r, b) PROVE \E q : Goes(r, q) /\ Result(q)
  <2> DEFINE q == [Idle EXCEPT !.at = "ended", !.vm = proc[r].vm, !.got = proc[r].got,
                               !.who = proc[r].who]
  <2>1. /\ DOMAIN q = DOMAIN Idle /\ q.at = "ended" /\ q.todo = <<>>
        /\ q.vm = proc[r].vm /\ q.handle = NoVM /\ q.who = proc[r].who
    BY DEF Idle
  <2>2. Goes(r, q) /\ \E st : record' = [record EXCEPT ![r] = st]
    BY <1>3, Zenon DEF Ends
  <2> HIDE DEF q
  <2> QED BY <2>1, <2>2, Zenon DEF Recorded
<1>4. CASE Execute(r)
  <2> DEFINE q(vm) == [proc[r] EXCEPT !.at = "create", !.todo = CreateVM, !.att = @ + 1,
                                      !.ok = TRUE, !.vm = vm]
  <2>1. \A vm : /\ DOMAIN q(vm) = DOMAIN Idle /\ q(vm).at = "create" /\ q(vm).vm = vm
                /\ q(vm).handle = proc[r].handle /\ q(vm).who = proc[r].who
    BY <1>0 DEF Idle
  <2>2. \/ Ends(r, FALSE)
        \/ /\ \E vm \in {NewId(r), NoVM} : Goes(r, q(vm))
           /\ record' = [record EXCEPT ![r] = "active"]
    BY <1>4, Zenon DEF Execute
  <2> HIDE DEF q
  <2>3. ASSUME NEW vm \in {NewId(r), NoVM}, record' = [record EXCEPT ![r] = "active"]
        PROVE  Result(q(vm))
    BY <2>1, <2>3 DEF Recorded
  <2> HIDE DEF Result
  <2> QED BY <1>3, <2>2, <2>3, Zenon
<1>5. CASE Created(r) \/ Preserve(r)
  <2> DEFINE q(at) == [proc[r] EXCEPT !.at = at]
  <2>1. \A at : /\ DOMAIN q(at) = DOMAIN Idle /\ q(at).at = at /\ q(at).vm = proc[r].vm
                /\ q(at).handle = proc[r].handle /\ q(at).who = proc[r].who
    BY <1>0 DEF Idle
  <2>2. \/ Goes(r, q("setup")) /\ record' = record /\ r \in Live
        \/ Goes(r, q("held")) /\ record' = [record EXCEPT ![r] = "held"]
    BY <1>5 DEF Created, Preserve, Live
  <2> HIDE DEF q
  <2> QED BY <2>1, <2>2 DEF Recorded
<1>6. CASE SetUp(r) \/ K8sSetUp(r)
  <2> DEFINE up == [proc[r] EXCEPT !.at = "up", !.handle = proc[r].vm]
             abort == [proc[r] EXCEPT !.at = "abort", !.todo = DestroyVM]
  <2>1. \A q \in {up, abort} :
          /\ DOMAIN q = DOMAIN Idle /\ q.at \in {"up", "abort"} /\ q.vm = proc[r].vm
          /\ q.handle \in {proc[r].handle, proc[r].vm} /\ q.who = proc[r].who
    BY <1>0, Zenon DEF Idle
  <2>2. (Goes(r, up) \/ Goes(r, abort)) /\ record' = record /\ r \in Live
    BY <1>6 DEF SetUp, K8sSetUp, Live
  <2> HIDE DEF up, abort
  <2> QED BY <2>1, <2>2 DEF Recorded
<1>7. CASE Cleanup(r)
  <2> DEFINE q(goal) == [proc[r] EXCEPT !.at = "cleanup", !.todo = DestroyVM, !.ok = TRUE,
                                        !.goal = goal, !.got = {}, !.who = NoRun]
  <2>1. \A goal : /\ DOMAIN q(goal) = DOMAIN Idle /\ q(goal).at = "cleanup"
                  /\ q(goal).vm = proc[r].vm /\ q(goal).handle = proc[r].handle
                  /\ q(goal).who = NoRun
    BY <1>0 DEF Idle
  <2>2. (\E goal : Goes(r, q(goal))) /\ record' = record /\ r \in Live
    BY <1>7, Zenon DEF Cleanup, Live
  <2> HIDE DEF q
  <2> QED BY <2>1, <2>2 DEF Recorded
<1>8. CASE ExecuteFails(r) \/ CleanedUp(r)
  <2> DEFINE q == [proc[r] EXCEPT !.at = "again"]
  <2>1. /\ DOMAIN q = DOMAIN Idle /\ q.at = "again" /\ q.vm = proc[r].vm
        /\ q.handle = proc[r].handle /\ q.who = proc[r].who
    BY <1>0 DEF Idle
  <2>2. (\E b : Ends(r, b)) \/ (Goes(r, q) /\ record' = record /\ r \in Live)
    BY <1>8, Zenon DEF ExecuteFails, CleanedUp, Live
  <2> HIDE DEF q
  <2> QED BY <1>3, <2>1, <2>2 DEF Recorded
<1>9. CASE Crash(r)
  <2> DEFINE q == [Idle EXCEPT !.at = "crashed", !.handle = proc[r].handle]
  <2>1. /\ DOMAIN q = DOMAIN Idle /\ q.at = "crashed" /\ q.vm = NoVM
        /\ q.handle = proc[r].handle /\ q.who = NoRun
    BY DEF Idle
  <2>2. Goes(r, q) /\ record' = record /\ r \in Live
    BY <1>9 DEF Crash, Live, Busy
  <2> HIDE DEF q
  <2> QED BY <2>1, <2>2 DEF Recorded
<1>10. CASE Stop(r)
  <2> DEFINE q == [proc[r] EXCEPT !.at = "cleanup", !.todo = DestroyVM, !.ok = TRUE,
                                  !.goal = "stop", !.vm = proc[r].handle]
  <2>1. /\ DOMAIN q = DOMAIN Idle /\ q.at = "cleanup" /\ q.vm = proc[r].handle
        /\ q.handle = proc[r].handle /\ q.who = proc[r].who
    BY <1>0 DEF Idle
  <2>2. Ends(r, FALSE) \/ (Goes(r, q) /\ record' = record /\ r \in Live)
    BY <1>10, Zenon DEF Stop, Live
  <2> HIDE DEF q
  <2> QED BY <1>3, <2>1, <2>2, Zenon DEF Recorded
<1> QED BY <1>4, <1>5, <1>6, <1>7, <1>8, <1>9, <1>10 DEF Lifecycle
-----------------------------------------------------------------------------
(***************************************************************************)
(* No step of a run, of the account or of gc itself breaks the invariant.  *)
(***************************************************************************)
LEMMA GcIsNoRun == Gc \in Procs /\ Gc \notin Runs /\ Runs \subseteq Procs
BY RunsAssumption DEF Procs

\* What gc has planned is not disturbed by what others do to the cloud.
LEMMA SweepKept ==
  ASSUME SweepInv, proc'[Gc] = proc[Gc], UNCHANGED <<sweep, provider>>
  PROVE  SweepInv'
BY DEF SweepInv, OwnId

\* A step of a run keeps the invariant.
LEMMA RunStepInv ==
  ASSUME GcInv, NEW r \in Runs, RunStep(r), UNCHANGED sweep
  PROVE  GcInv'
<1>0. Shape /\ CloudInv /\ LiveInv /\ SweepInv /\ r \in Procs
  BY GcIsNoRun DEF GcInv
<1>1. CASE Call(r)
  <2>1. PICK q : Steps(r, q) /\ q.at \in {proc[r].at, "rollback"}
    BY <1>0, <1>1, CallProc
  <2>2. /\ UNCHANGED <<provider, record>> /\ proc[r].todo # <<>>
    BY <1>0, <1>1, CallProc DEF OnlyCalls
  <2>3. /\ DOMAIN proc' = Procs /\ \A o \in Procs : DOMAIN proc'[o] = DOMAIN Idle
        /\ proc'[r] = q /\ \A o \in Procs \ {r} : proc'[o] = proc[o]
    BY <1>0, <2>1, GoesEffect
  <2>4. r \in Live /\ q.at \notin {"idle", "ended"}
    BY <1>0, <2>1, <2>2 DEF LiveInv, Live
  <2>5. LiveInv'
    BY <1>0, <2>2, <2>3, <2>4, GcIsNoRun DEF LiveInv, Live
  <2>6. CloudInv'
    BY <1>0, <1>1, CallCloud
  <2>7. SweepInv'
    BY <1>0, <2>2, <2>3, GcIsNoRun, SweepKept
  <2>8. Shape'
    BY <1>0, <2>2, <2>3 DEF Shape
  <2> QED BY <2>5, <2>6, <2>7, <2>8 DEF GcInv
<1>2. CASE Lifecycle(r)
  <2>1. PICK q : Steps(r, q) /\ Recorded(r, q)
    BY <1>0, <1>2, LifecycleProc
  <2>2. UNCHANGED <<provider, cloud>>
    BY <1>0, <1>2, LifecycleProc
  <2>3. /\ DOMAIN proc' = Procs /\ \A o \in Procs : DOMAIN proc'[o] = DOMAIN Idle
        /\ proc'[r] = q /\ \A o \in Procs \ {r} : proc'[o] = proc[o]
    BY <1>0, <2>1, GoesEffect
  <2>4. /\ DOMAIN record' = Runs /\ \A o \in Runs \ {r} : record'[o] = record[o]
        /\ \/ /\ q.at \notin {"idle", "ended"}
              /\ \/ record'[r] \in {"active", "held"}
                 \/ record'[r] = record[r] /\ r \in Live
           \/ q.at = "ended" /\ q.todo = <<>>
    BY <1>0, <2>1 DEF Recorded, Shape
  <2>5. LiveInv'
    BY <1>0, <2>3, <2>4, GcIsNoRun DEF LiveInv, Live
  <2>6. CloudInv'
    BY <1>0, <2>2 DEF CloudInv, OwnId
  <2>7. SweepInv'
    BY <1>0, <2>2, <2>3, GcIsNoRun, SweepKept
  <2>8. Shape'
    BY <1>0, <2>2, <2>3, <2>4 DEF Shape
  <2> QED BY <2>5, <2>6, <2>7, <2>8 DEF GcInv
<1> QED BY <1>1, <1>2 DEF RunStep, Lifecycle

\* A machine that halts or vanishes, and a damaged record, keep the invariant.
LEMMA EnvironmentInv ==
  ASSUME GcInv, Environment, UNCHANGED sweep
  PROVE  GcInv'
<1>0. Shape /\ CloudInv /\ LiveInv /\ SweepInv
  BY DEF GcInv
<1>1. UNCHANGED <<provider, proc>>
  BY DEF Environment, MachineHalts, MachineVanishes, RecordDamaged
<1>2. SweepInv'
  BY <1>0, <1>1, SweepKept
<1>3. CloudInv'
  <2>1. CASE MachineHalts
    <3>1. PICK x \in Instances, st \in watchdogSelfDestruct :
            cloud' = (cloud \ {x}) \cup {[x EXCEPT !.st = st]}
      BY <2>1 DEF MachineHalts
    <3> DEFINE y == [x EXCEPT !.st = st]
    <3>2. DOMAIN y = DOMAIN Foreign /\ y.run \in Runs /\ OwnId(y)
      BY <1>0, AlteredOwn
    <3> HIDE DEF y
    <3>3. cloud' = (cloud \ {x}) \cup {y}
      BY <3>1 DEF y
    <3> QED BY <1>0, <1>1, <3>2, <3>3 DEF CloudInv, OwnId
  <2>2. CASE ~MachineHalts
    BY <1>0, <1>1, <2>2
    DEF CloudInv, OwnId, Environment, MachineVanishes, RecordDamaged
  <2> QED BY <2>1, <2>2
<1>4. LiveInv' /\ Shape'
  <2>1. CASE record' = record
    BY <1>0, <1>1, <2>1 DEF LiveInv, Live, Shape
  <2>2. CASE \E r \in Runs : RecordDamaged(r)
    <3>1. PICK r \in Runs, d \in {"damaged", "lost"} :
            record' = [record EXCEPT ![r] = d]
      BY <2>2, Zenon DEF RecordDamaged
    <3> QED BY <1>0, <1>1, <3>1 DEF LiveInv, Live, Shape
  <2> QED BY <2>1, <2>2 DEF Environment, MachineHalts, MachineVanishes
<1> QED BY <1>2, <1>3, <1>4 DEF GcInv

\* What gc lists is in the account.
LEMMA ListedInCloud ==
  ASSUME Shape
  PROVE  ListResources \subseteq cloud
<1>1. \A kind : Listed(kind) \subseteq cloud
  BY DEF Listed
<1>2. ListVMs \subseteq cloud
  <2> SUFFICES \A gone : MachinesBut(gone) \subseteq cloud
    BY BoundsAssumption
    DEF Shape, ListVMs, awsListVMs, azureListVMs, gcpListVMs, hetznerListVMs, ociListVMs,
        lambdaListVMs, limaListVMs, firecrackerListVMs, k8sListVMs
  <2> QED BY DEF MachinesBut, Instances
<1>3. awsListResources \subseteq cloud
  BY <1>1 DEF awsListResources, awsListInstances, awsListVolumes, awsListAddresses,
              awsListSecurityGroups
<1>4. azureListResources \subseteq cloud
  BY <1>1 DEF azureListResources, azureListMachines, azureListDisks, azureListPublicIPs
<1>5. gcpListResources \subseteq cloud
  BY <1>1 DEF gcpListResources, gcpListInstances, gcpListDisks, gcpListImages,
              gcpListAddresses, gcpListFirewalls
<1>6. hetznerListResources \subseteq cloud
  BY <1>1 DEF hetznerListResources, hetznerListServers, hetznerListVolumes, hetznerListIPs,
              hetznerListFirewalls
<1> QED BY <1>2, <1>3, <1>4, <1>5, <1>6 DEF ListResources, cloudVMListResources
(***************************************************************************)
(* The steps of gc leave the runs and their records alone.  An orphan      *)
(* belongs to no run that was alive when the records were read, for gc     *)
(* would spare the run, spare everything, or refuse to act on a store that *)
(* shows no record.                                                        *)
(***************************************************************************)
LEMMA GcMoves ==
  ASSUME GcInv, NEW q, Steps(Gc, q), UNCHANGED <<provider, record>>,
         DOMAIN sweep' = DOMAIN NoSweep, CloudInv', SweepInv'
  PROVE  GcInv'
<1>1. /\ DOMAIN proc' = Procs /\ \A o \in Procs : DOMAIN proc'[o] = DOMAIN Idle
      /\ \A o \in Procs \ {Gc} : proc'[o] = proc[o]
  BY GcIsNoRun, GoesEffect DEF GcInv
<1>2. LiveInv'
  BY <1>1, GcIsNoRun DEF GcInv, LiveInv, Live
<1> QED BY <1>1, <1>2 DEF GcInv, Shape

\* gc reading the records keeps the invariant.
LEMMA GcReadsInv ==
  ASSUME GcInv, GcReads
  PROVE  GcInv'
<1> DEFINE q == [Idle EXCEPT !.at = "list"]
<1>1. DOMAIN q = DOMAIN Idle /\ q.at = "list" /\ q.todo = <<>>
  BY DEF Idle
<1>2. Steps(Gc, q) /\ UNCHANGED <<provider, record, cloud>>
  BY <1>1 DEF GcReads, Steps
<1> HIDE DEF q
<1>3. proc'[Gc] = q
  BY <1>2, GcIsNoRun, GoesEffect DEF GcInv
<1>4. PICK empty \in BOOLEAN, override \in BOOLEAN :
        sweep' = [NoSweep EXCEPT
          !.spared = IF empty THEN {} ELSE {r \in Runs : Protected(r)},
          !.all = ~empty /\ \E r \in Runs : record[r] = "lost",
          !.empty = empty \/ \A r \in Runs : record[r] = "none",
          !.live = Live, !.override = override]
  BY Zenon DEF GcReads
<1>5. /\ DOMAIN sweep' = DOMAIN NoSweep
      /\ sweep'.spared = IF empty THEN {} ELSE {r \in Runs : Protected(r)}
      /\ sweep'.all = (~empty /\ \E r \in Runs : record[r] = "lost")
      /\ sweep'.empty = (empty \/ \A r \in Runs : record[r] = "none")
      /\ sweep'.live = Live /\ sweep'.target = {}
  BY <1>4 DEF NoSweep
<1>6. \A r \in sweep'.live : r \in sweep'.spared \/ sweep'.all \/ sweep'.empty
  <2> SUFFICES ASSUME NEW r \in Live, ~empty
               PROVE  r \in sweep'.spared \/ sweep'.all
    BY <1>5
  <2>1. r \in Runs /\ record[r] \in {"active", "held", "damaged", "lost"}
    BY DEF GcInv, LiveInv, Live
  <2> QED BY <1>5, <2>1, Zenon DEF Protected
<1>7. SweepInv'
  BY <1>1, <1>3, <1>5, <1>6 DEF SweepInv
<1>8. CloudInv'
  BY <1>2 DEF GcInv, CloudInv, OwnId
<1> QED BY <1>2, <1>5, <1>7, <1>8, GcMoves

\* gc listing the machines keeps the invariant: it lists under tags and names that
\* are read back to the run they were made from.
LEMMA GcListsInv ==
  ASSUME GcInv, GcLists
  PROVE  GcInv'
<1> DEFINE q == [Idle EXCEPT !.at = "destroy"]
<1>0. Shape /\ CloudInv /\ SweepInv
  BY DEF GcInv
<1>1. /\ DOMAIN q = DOMAIN Idle /\ q.at = "destroy" /\ q.todo = <<>>
      /\ Idle.at = "idle" /\ Idle.todo = <<>>
  BY DEF Idle
<1>2. UNCHANGED <<provider, record, cloud>> /\ proc[Gc].at = "list"
  BY DEF GcLists
<1>3. CloudInv'
  BY <1>2 DEF GcInv, CloudInv, OwnId
<1>4. CASE ~RefusesEmptyStore /\ sweep' = [sweep EXCEPT !.targets = Orphans] /\ Goes(Gc, q)
  <2>1. Steps(Gc, q)
    BY <1>1, <1>4 DEF Steps
  <2> HIDE DEF q
  <2>2. proc'[Gc] = q
    BY <1>0, <2>1, GcIsNoRun, GoesEffect
  <2>3. /\ DOMAIN sweep' = DOMAIN NoSweep /\ sweep'.targets = Orphans
        /\ sweep'.target = sweep.target /\ sweep'.live = sweep.live
        /\ sweep'.override = sweep.override /\ sweep'.spared = sweep.spared
        /\ sweep'.all = sweep.all /\ sweep'.empty = sweep.empty
    BY <1>0, <1>4 DEF Shape, NoSweep
  <2>4. ASSUME NEW y \in Orphans
        PROVE  /\ y.run \in Runs /\ OwnId(y)
               /\ y.run \in sweep.live => sweep.override
    <3>1. y \in cloud /\ y.run # NoRun /\ y.run \notin sweep.spared /\ ~sweep.all
      BY <1>0, ListedInCloud DEF Orphans, RunTag
    <3>2. y.run \in Runs /\ OwnId(y)
      BY <1>0, <3>1 DEF CloudInv, Foreign, Standing
    <3>3. sweep.empty => sweep.override
      BY <1>4, <2>4 DEF RefusesEmptyStore
    <3> QED BY <1>0, <1>2, <3>1, <3>2, <3>3 DEF SweepInv
  <2>5. SweepInv'
    <3>1. sweep.target = {}
      BY <1>0, <1>2 DEF SweepInv
    <3>2. \A y : OwnId(y)' <=> OwnId(y)
      BY <1>2 DEF OwnId
    <3> QED BY <1>0, <1>1, <1>2, <2>2, <2>3, <2>4, <3>1, <3>2 DEF SweepInv
  <2> QED BY <1>2, <1>3, <2>1, <2>3, <2>5, GcMoves
<1>5. CASE sweep' = NoSweep /\ Goes(Gc, Idle)
  <2>1. Steps(Gc, Idle)
    BY <1>5 DEF Steps
  <2>2. proc'[Gc] = Idle
    BY <1>0, <2>1, GcIsNoRun, GoesEffect
  <2>3. SweepInv'
    BY <1>1, <1>5, <2>2 DEF SweepInv, NoSweep
  <2> QED BY <1>2, <1>3, <1>5, <2>1, <2>3, GcMoves
<1> QED BY <1>4, <1>5 DEF GcLists

\* gc starting on the next machine of its plan keeps the invariant.
LEMMA GcDestroysInv ==
  ASSUME GcInv, GcDestroys
  PROVE  GcInv'
<1>0. Shape /\ CloudInv /\ SweepInv
  BY DEF GcInv
<1>1. PICK x \in sweep.targets :
        /\ sweep' = [sweep EXCEPT !.targets = @ \ {x}, !.target = {x}]
        /\ Goes(Gc, [Idle EXCEPT !.at = "destroy", !.vm = x.id, !.who = x.run,
                                 !.todo = DestroyResource(x)])
  BY Zenon DEF GcDestroys
<1> DEFINE q == [Idle EXCEPT !.at = "destroy", !.vm = x.id, !.who = x.run,
                             !.todo = DestroyResource(x)]
<1>2. DOMAIN q = DOMAIN Idle /\ q.at = "destroy" /\ q.vm = x.id /\ q.who = x.run
  BY DEF Idle
<1>3. Steps(Gc, q)
  BY <1>1, <1>2 DEF Steps
<1> HIDE DEF q
<1>4. proc'[Gc] = q
  BY <1>0, <1>3, GcIsNoRun, GoesEffect
<1>5. UNCHANGED <<provider, record, cloud>> /\ proc[Gc].at = "destroy"
  BY DEF GcDestroys
<1>6. CloudInv'
  BY <1>0, <1>5 DEF CloudInv, OwnId
<1>7. /\ DOMAIN sweep' = DOMAIN NoSweep /\ sweep'.target = {x}
      /\ sweep'.targets \cup sweep'.target \subseteq sweep.targets
      /\ sweep'.live = sweep.live /\ sweep'.override = sweep.override
      /\ sweep'.spared = sweep.spared /\ sweep'.all = sweep.all
      /\ sweep'.empty = sweep.empty
  BY <1>0, <1>1 DEF Shape, NoSweep
<1>8. SweepInv'
  <2>1. \A y : OwnId(y)' <=> OwnId(y)
    BY <1>5 DEF OwnId
  <2> QED BY <1>0, <1>2, <1>4, <1>5, <1>7, <2>1 DEF SweepInv
<1> QED BY <1>3, <1>5, <1>6, <1>7, <1>8, GcMoves

\* gc returning from one machine, with success or an error, keeps the invariant.
LEMMA GcDestroyedInv ==
  ASSUME GcInv, GcDestroyed
  PROVE  GcInv'
<1> DEFINE q == [Idle EXCEPT !.at = "destroy"]
<1>0. Shape /\ CloudInv /\ SweepInv
  BY DEF GcInv
<1>1. /\ DOMAIN q = DOMAIN Idle /\ q.at = "destroy" /\ q.todo = <<>>
      /\ Idle.at = "idle" /\ Idle.todo = <<>>
  BY DEF Idle
<1>2. UNCHANGED <<provider, record, cloud>> /\ proc[Gc].at = "destroy"
  BY DEF GcDestroyed
<1>3. CloudInv'
  BY <1>0, <1>2 DEF CloudInv, OwnId
<1>4. CASE Goes(Gc, q) /\ sweep' = [sweep EXCEPT !.target = {}]
  <2>1. Steps(Gc, q)
    BY <1>1, <1>4 DEF Steps
  <2> HIDE DEF q
  <2>2. proc'[Gc] = q
    BY <1>0, <2>1, GcIsNoRun, GoesEffect
  <2>3. /\ DOMAIN sweep' = DOMAIN NoSweep /\ sweep'.target = {}
        /\ sweep'.targets = sweep.targets
        /\ sweep'.live = sweep.live /\ sweep'.override = sweep.override
        /\ sweep'.spared = sweep.spared /\ sweep'.all = sweep.all
        /\ sweep'.empty = sweep.empty
    BY <1>0, <1>4 DEF Shape, NoSweep
  <2>4. SweepInv'
    <3>1. \A y : OwnId(y)' <=> OwnId(y)
      BY <1>2 DEF OwnId
    <3> QED BY <1>0, <1>1, <1>2, <2>2, <2>3, <3>1 DEF SweepInv
  <2> QED BY <1>2, <1>3, <2>1, <2>3, <2>4, GcMoves
<1>5. CASE Goes(Gc, Idle) /\ sweep' = NoSweep
  <2>1. Steps(Gc, Idle)
    BY <1>5 DEF Steps
  <2>2. proc'[Gc] = Idle
    BY <1>0, <2>1, GcIsNoRun, GoesEffect
  <2>3. SweepInv'
    BY <1>1, <1>5, <2>2 DEF SweepInv, NoSweep
  <2> QED BY <1>2, <1>3, <1>5, <2>1, <2>3, GcMoves
<1> QED BY <1>4, <1>5 DEF GcDestroyed

\* Whose machine the one with the id of the chosen resource can be.
LEMMA TargetOfGc ==
  ASSUME GcInv, NEW x \in Target(Gc), proc[Gc].todo # <<>>
  PROVE  /\ x.run \in Runs /\ proc[Gc].at = "destroy"
         /\ \E y \in sweep.target : x.run = y.run \/ provider \in ByName
<1>1. x \in cloud /\ x.kind = "instance" /\ x.id = proc[Gc].vm
  BY DEF Target, Instances
<1>2. x.run \in Runs /\ OwnId(x)
  BY <1>1 DEF GcInv, CloudInv, Foreign, Standing
<1>3. sweep.target # {} /\ proc[Gc].at = "destroy"
  BY DEF GcInv, SweepInv
<1>4. PICK y \in sweep.target : OwnId(y) /\ proc[Gc].vm = y.id
  BY <1>3 DEF GcInv, SweepInv
<1> QED BY <1>1, <1>2, <1>3, <1>4 DEF OwnId

\* A call of DestroyVM made for gc keeps the invariant.
LEMMA GcCallInv ==
  ASSUME GcInv, DestroyCall(Gc), UNCHANGED sweep
  PROVE  GcInv'
<1>0. Shape /\ CloudInv /\ SweepInv /\ Gc \in Procs
  BY GcIsNoRun DEF GcInv
<1>1. proc[Gc].todo # <<>> /\ UNCHANGED <<provider, record>>
  BY <1>0, DestroyProc DEF OnlyCalls
<1>2. PICK q : /\ Steps(Gc, q) /\ q.at = proc[Gc].at /\ q.vm = proc[Gc].vm
               /\ \/ q.who \in {NoRun, proc[Gc].who}
                  \/ \E x \in Target(Gc) : q.who = x.run
  BY <1>0, DestroyProc
<1>3. proc'[Gc] = q
  BY <1>0, <1>2, GoesEffect
<1>4. CloudInv'
  BY <1>0, CallCloud DEF Call
<1>5. SweepInv'
  <2>1. sweep.target # {} /\ proc[Gc].at = "destroy"
    BY <1>0, <1>1 DEF SweepInv
  <2>2. PICK y : /\ sweep.target = {y} /\ proc[Gc].vm = y.id
                 /\ proc[Gc].who \in {NoRun, y.run}
                      \/ (proc[Gc].who \in Runs /\ provider \in ByName)
    BY <1>0, <2>1 DEF SweepInv
  <2>3. q.who \in {NoRun, y.run} \/ (q.who \in Runs /\ provider \in ByName)
    BY <1>1, <1>2, <2>2, TargetOfGc
  <2>4. \A x : OwnId(x)' <=> OwnId(x)
    BY <1>1 DEF OwnId
  <2> QED BY <1>0, <1>1, <1>2, <1>3, <2>1, <2>2, <2>3, <2>4 DEF SweepInv
<1> QED BY <1>0, <1>1, <1>2, <1>4, <1>5, GcMoves DEF Shape

(***************************************************************************)
(* The invariant holds, from the empty account on.                         *)
(***************************************************************************)
LEMMA GcInvInit == GcInit => GcInv
<1> SUFFICES ASSUME GcInit PROVE GcInv
  OBVIOUS
<1>1. Idle.at = "idle" /\ Idle.todo = <<>>
  BY DEF Idle
<1>2. Shape
  BY DEF GcInit, Init, Shape
<1>3. CloudInv
  BY DEF GcInit, Init, CloudInv, Foreign, Standing
<1>4. LiveInv
  BY <1>1, GcIsNoRun DEF GcInit, Init, LiveInv, Live
<1>5. SweepInv
  BY <1>1, GcIsNoRun DEF GcInit, Init, SweepInv, NoSweep
<1> QED BY <1>2, <1>3, <1>4, <1>5 DEF GcInv

\* Every step keeps the invariant.
LEMMA GcInvStep ==
  ASSUME GcInv, [Next]_gcVars
  PROVE  GcInv'
<1>1. CASE UNCHANGED gcVars
  <2>1. UNCHANGED <<provider, cloud, proc, record, sweep>>
    BY <1>1 DEF gcVars, vars
  <2> QED BY <2>1 DEF GcInv, Shape, CloudInv, LiveInv, Live, SweepInv, OwnId
<1>2. CASE GcStep
  BY <1>2, GcReadsInv, GcListsInv, GcDestroysInv, GcDestroyedInv, GcCallInv DEF GcStep
<1> QED BY <1>1, <1>2, RunStepInv, EnvironmentInv DEF Next

(***************************************************************************)
(* Every record that can be read, or not read, protects its run from gc.   *)
(***************************************************************************)
THEOREM GcInvCorrect == Spec => []GcInv
BY GcInvInit, GcInvStep, PTL DEF Spec

(***************************************************************************)
(* gc spares the runs that were alive when it read the records, whatever   *)
(* fails, crashes and is provisioned or torn down while it lists and       *)
(* destroys; the one exception is a machine that is known by the name of   *)
(* the workload and has changed hands since gc listed it.                  *)
(***************************************************************************)
THEOREM GcSparesCorrect == Spec => GcSparesLiveRuns
<1>1. ASSUME GcInv, GcStep, NEW x \in cloud \ cloud'
      PROVE  /\ x.run \in Runs
             /\ x.run \in sweep.live =>
                  \/ sweep.override
                  \/ provider \in ByName /\ \E y \in sweep.target : y.run # x.run
  <2>0. Shape /\ CloudInv /\ SweepInv
    BY <1>1 DEF GcInv
  <2>1. DestroyCall(Gc)
    BY <1>1, Zenon DEF GcStep, GcReads, GcLists, GcDestroys, GcDestroyed
  <2>2. proc[Gc].todo # <<>>
    BY <2>0, <2>1, GcIsNoRun, DestroyProc
  <2>3. PICK y : /\ sweep.target = {y} /\ proc[Gc].at = "destroy"
                 /\ y.run \in sweep.live => sweep.override
                 /\ proc[Gc].who \in {NoRun, y.run}
                      \/ (proc[Gc].who \in Runs /\ provider \in ByName)
    BY <2>0, <2>2 DEF SweepInv
  <2>4. SUFFICES x.run \in Runs /\ (x.run = y.run \/ provider \in ByName)
    BY <2>3
  <2>5. CASE Kills(Gc)
    <3>1. x \in Target(Gc)
      BY <1>1, <2>5, Zenon DEF Kills, Without
    <3> QED BY <1>1, <2>2, <2>3, <3>1, TargetOfGc
  <2>6. CASE Drops(Gc)
    <3>1. x \in cloud /\ x.run = DropsOf(Gc) /\ DropsOf(Gc) # NoRun
      BY <1>1, <2>6 DEF Drops, OfRun
    <3>2. DropsOf(Gc) \in {Gc, NoRun, proc[Gc].who}
      BY DEF DropsOf
    <3>3. x.run \in Runs
      BY <2>0, <3>1 DEF CloudInv, Foreign, Standing
    <3>4. x.run # Gc
      BY <3>3, GcIsNoRun
    <3> QED BY <2>3, <3>1, <3>2, <3>3, <3>4
  <2>7. CASE Captures(Gc)
    BY <1>1, <2>7, Zenon DEF Captures
  <2> QED BY <2>1, <2>5, <2>6, <2>7 DEF DestroyCall
<1>2. GcInv /\ [Next]_gcVars =>
        [GcStep => \A x \in cloud \ cloud' :
           /\ x.run \in Runs
           /\ x.run \in sweep.live =>
                \/ sweep.override
                \/ provider \in ByName /\ \E y \in sweep.target : y.run # x.run]_gcVars
  BY <1>1
<1> QED BY <1>2, GcInvCorrect, PTL DEF Spec, GcSparesLiveRuns

-----------------------------------------------------------------------------
(***************************************************************************)
(* A teardown only deletes the machine of its own run, for each of the     *)
(* nine providers and any number of runs.  The argument follows a run's    *)
(* pending calls: which calls CreateVM and DestroyVM are made of, what is  *)
(* left of an operation at each of its calls, and that a call that deletes *)
(* a machine is only ever pending where the run holds its own one.         *)
(***************************************************************************)

(***************************************************************************)
(* The calls.                                                              *)
(***************************************************************************)
\* Everything but the machine, which no call of a run drops by its kind.
Satellites == Kinds \ {"instance"}
\* The calls of DestroyVM and of what undoes a failed CreateVM.
UndoCalls ==
  UNION {[op : {"reap"}],
         [op : {"drop", "dropFresh", "dropGot", "dropBilling"}, kind : Satellites],
         [op : {"capture"}, kinds : SUBSET Kinds, onError : {"skip", "abort"}],
         [op : {"kill"}, missing : {"done", "error", "next", "best"}]}
\* The calls of CreateVM, each with what undoes the ones before it.
BuildCalls ==
  UNION {[op : {"check", "refuse", "skip"}, undo : Seq(UndoCalls)],
         [op : {"make", "makeNew"}, kind : Satellites, undo : Seq(UndoCalls)],
         [op : {"launch"}, retry : {"token", "again", "name", "once"},
          onError : {"leave", "adopt", "substitute"}, undo : Seq(UndoCalls)],
         [op : {"adopt"}, onError : {"leave", "adopt", "substitute"},
          undo : Seq(UndoCalls)]}

\* The constructors of the calls that undo.
LEMMA UndoTypes ==
  /\ Reap \in UndoCalls
  /\ \A kind \in Satellites : /\ Drop(kind) \in UndoCalls /\ DropFresh(kind) \in UndoCalls
                              /\ DropGot(kind) \in UndoCalls
                              /\ DropBilling(kind) \in UndoCalls
  /\ \A kinds \in SUBSET Kinds, then \in {"skip", "abort"} :
       Capture(kinds, then) \in UndoCalls
  /\ \A missing \in {"done", "error", "next", "best"} : Kill(missing) \in UndoCalls
<1>1. Reap \in UndoCalls
  BY DEF Reap, UndoCalls
<1>2. \A kind \in Satellites : /\ Drop(kind) \in UndoCalls /\ DropFresh(kind) \in UndoCalls
                              /\ DropGot(kind) \in UndoCalls
                              /\ DropBilling(kind) \in UndoCalls
  BY DEF Drop, DropFresh, DropGot, DropBilling, UndoCalls
<1>3. \A kinds \in SUBSET Kinds, then \in {"skip", "abort"} :
       Capture(kinds, then) \in UndoCalls
  BY DEF Capture, UndoCalls
<1>4. \A missing \in {"done", "error", "next", "best"} : Kill(missing) \in UndoCalls
  BY DEF Kill, UndoCalls
<1> QED BY <1>1, <1>2, <1>3, <1>4

Calls == UndoCalls \cup BuildCalls

\* The constructors of the calls that build.
LEMMA BuildTypes ==
  /\ \A undo \in Seq(UndoCalls) :
       /\ Check(undo) \in BuildCalls
       /\ \A kind \in Satellites :
            Make(kind, undo) \in BuildCalls /\ MakeNew(kind, undo) \in BuildCalls
       /\ \A then \in {"leave", "adopt", "substitute"} :
            /\ Adopt(then, undo) \in BuildCalls
            /\ \A retry \in {"token", "again", "name", "once"} :
                 Launch(retry, then, undo) \in BuildCalls
  /\ \A b : Refusal(b) \in BuildCalls
<1>1. ASSUME NEW undo \in Seq(UndoCalls) PROVE Check(undo) \in BuildCalls
  BY DEF Check, BuildCalls
<1>2. ASSUME NEW undo \in Seq(UndoCalls), NEW kind \in Satellites
      PROVE  Make(kind, undo) \in BuildCalls /\ MakeNew(kind, undo) \in BuildCalls
  BY DEF Make, MakeNew, BuildCalls
<1>3. ASSUME NEW undo \in Seq(UndoCalls), NEW then \in {"leave", "adopt", "substitute"}
      PROVE  /\ Adopt(then, undo) \in BuildCalls
             /\ \A retry \in {"token", "again", "name", "once"} :
                  Launch(retry, then, undo) \in BuildCalls
  BY DEF Launch, Adopt, BuildCalls
<1>4. \A b : Refusal(b) \in BuildCalls
  BY DEF Refusal, BuildCalls
<1> QED BY <1>1, <1>2, <1>3, <1>4, Zenon

\* What the kind of a call says of it.
LEMMA CallFacts ==
  /\ \A c \in UndoCalls :
       /\ c.op \in {"reap", "drop", "dropFresh", "dropGot", "dropBilling", "capture", "kill"}
       /\ c.op \in {"drop", "dropFresh", "dropGot", "dropBilling"} => c.kind # "instance"
  /\ \A c \in BuildCalls :
       /\ c.op \in {"check", "refuse", "skip", "make", "makeNew", "launch", "adopt"}
       /\ c.op \in {"make", "makeNew"} => c.kind # "instance"
       /\ c.undo \in Seq(UndoCalls)
       /\ c.op \in {"launch", "adopt"} => c.onError \in {"leave", "adopt", "substitute"}
<1>1. \A c \in UndoCalls :
       /\ c.op \in {"reap", "drop", "dropFresh", "dropGot", "dropBilling", "capture", "kill"}
       /\ c.op \in {"drop", "dropFresh", "dropGot", "dropBilling"} => c.kind # "instance"
  BY DEF UndoCalls, Satellites
<1>2. \A c \in BuildCalls :
       /\ c.op \in {"check", "refuse", "skip", "make", "makeNew", "launch", "adopt"}
       /\ c.op \in {"make", "makeNew"} => c.kind # "instance"
       /\ c.undo \in Seq(UndoCalls)
       /\ c.op \in {"launch", "adopt"} => c.onError \in {"leave", "adopt", "substitute"}
  BY DEF BuildCalls, Satellites
<1> QED BY <1>1, <1>2

\* The kinds that the providers name are satellites of a machine.
LEMMA Kinded ==
  /\ {"sg", "deny", "allow", "firewall", "sshkey", "rundir", "net", "ip", "disk"}
       \subseteq Satellites
  /\ azureSatellites \in SUBSET Kinds
BY DEF Satellites, Kinds, azureSatellites

\* DestroyVM of every provider, and below CreateVM, are made of such calls.
LEMMA DestroyTyped ==
  ASSUME Shape
  PROVE  DestroyVM \in Seq(UndoCalls)
<1> USE UndoTypes, Kinded
<1>1. awsDestroyVM \in Seq(UndoCalls)
  BY DEF awsDestroyVM, deleteSGWhenReleased, Satellites
<1>2. destroyVMInRG \in Seq(UndoCalls)
  BY DEF destroyVMInRG, gatherVMResources, deleteAssociatedResources
<1>3. gcpDestroyVM \in Seq(UndoCalls)
  BY DEF gcpDestroyVM, Satellites
<1>4. hetznerDestroyVM \in Seq(UndoCalls)
  BY DEF hetznerDestroyVM, Satellites
<1>5. ociDestroyVM \in Seq(UndoCalls) /\ limaDestroyVM \in Seq(UndoCalls)
      /\ teardown \in Seq(UndoCalls) /\ k8sDestroyVM \in Seq(UndoCalls)
  BY DEF ociDestroyVM, limaDestroyVM, teardown, k8sDestroyVM
<1>6. lambdaDestroyVM \in Seq(UndoCalls)
  BY DEF lambdaDestroyVM, terminateAndConfirm, Satellites
<1> QED BY <1>1, <1>2, <1>3, <1>4, <1>5, <1>6, BoundsAssumption DEF Shape, DestroyVM

\* CreateVM of every provider is a sequence of calls.
LEMMA CreateTyped ==
  ASSUME Shape
  PROVE  CreateVM \in Seq(Calls)
<1>0. Calls = UndoCalls \cup BuildCalls /\ <<>> \in Seq(UndoCalls)
  BY DEF Calls
<1> DEFINE Known == /\ \A kind \in Satellites : /\ <<Drop(kind)>> \in Seq(UndoCalls)
                                              /\ <<DropFresh(kind)>> \in Seq(UndoCalls)
                    /\ \A k, l \in Satellites : <<Drop(k), Drop(l)>> \in Seq(UndoCalls)
                    /\ <<Reap>> \in Seq(UndoCalls)
<1>1. Known
  <2>1. \A kind \in Satellites : /\ <<Drop(kind)>> \in Seq(UndoCalls)
                                 /\ <<DropFresh(kind)>> \in Seq(UndoCalls)
    BY UndoTypes
  <2>2. \A k, l \in Satellites : <<Drop(k), Drop(l)>> \in Seq(UndoCalls)
    BY UndoTypes
  <2> QED BY <2>1, <2>2, UndoTypes
<1>2. awsCreateVM \in Seq(Calls)
  <2>1. awsDestroyVM \o <<Drop("sg")>> \in Seq(UndoCalls)
    BY UndoTypes, Kinded DEF awsDestroyVM, deleteSGWhenReleased, Satellites
  <2>2. /\ Check(<<>>) \in Calls /\ Make("sg", <<>>) \in Calls
        /\ Check(<<DropFresh("sg")>>) \in Calls /\ awsPrepare \in Calls
        /\ awsUserData \in Calls /\ awsLaunch \in Calls /\ awsResult \in Calls
        /\ awsWaitForIP \in Calls
    BY <1>0, <1>1, <2>1, BuildTypes, Kinded, Zenon
    DEF awsPrepare, awsUserData, awsLaunch, awsResult, awsWaitForIP
  <2> QED BY <2>2 DEF awsCreateVM, awsCreateSSHSecurityGroup
<1>3. gcpCreateVM \in Seq(Calls)
  <2>1. When(restrict, deleteSSHFirewall) \in Seq(UndoCalls)
    BY <1>0, <1>1, Kinded DEF When, deleteSSHFirewall
  <2>2. /\ Make("deny", <<>>) \in Calls /\ Make("allow", <<>>) \in Calls
        /\ gcpPrepare \in Calls /\ gcpLaunch \in Calls /\ gcpResult \in Calls
    BY <1>0, <2>1, BuildTypes, Kinded, Zenon DEF gcpPrepare, gcpLaunch, gcpResult
  <2> QED BY <2>2 DEF gcpCreateVM, When, createSSHFirewall
<1>4. azureCreateVM \in Seq(Calls)
  <2>1. destroyVMInRG \in Seq(UndoCalls)
    BY UndoTypes, Kinded DEF destroyVMInRG, gatherVMResources, deleteAssociatedResources
  <2>2. /\ createSSHRule \in Calls /\ azurePrepare \in Calls /\ azureLaunch \in Calls
        /\ Check(<<>>) \in Calls
    BY <1>0, <2>1, BuildTypes, Zenon DEF createSSHRule, azurePrepare, azureLaunch
  <2> QED BY <2>2 DEF azureCreateVM, When
<1>5. hetznerCreateVM \in Seq(Calls)
  <2>1. When(restrict, <<Drop("firewall")>>) \o <<Drop("sshkey")>> \in Seq(UndoCalls)
    BY UndoTypes, Kinded DEF When
  <2>2. /\ MakeNew("firewall", <<Drop("sshkey")>>) \in Calls
        /\ Check(<<Drop("firewall"), Drop("sshkey")>>) \in Calls
        /\ Check(<<>>) \in Calls /\ uploadHetznerSSHKey \in Calls
        /\ Check(<<Drop("sshkey")>>) \in Calls /\ hetznerLaunch \in Calls
    BY <1>0, <1>1, <2>1, BuildTypes, Kinded, Zenon DEF uploadHetznerSSHKey, hetznerLaunch
  <2>3. hetznerFirewall \in Seq(Calls)
    BY <2>2 DEF hetznerFirewall
  <2> QED BY <2>2, <2>3 DEF hetznerCreateVM, When
<1>6. ociCreateVM \in Seq(Calls)
  <2>1. ociDestroyVM \in Seq(UndoCalls)
    BY UndoTypes DEF ociDestroyVM
  <2>2. /\ ociPrepare \in Calls /\ ociLaunch \in Calls /\ Check(<<>>) \in Calls
        /\ publicIP \in Calls
    BY <1>0, <1>1, <2>1, BuildTypes, Zenon DEF ociPrepare, ociLaunch, reapByRunTag, publicIP
  <2> QED BY <2>2 DEF ociCreateVM
<1>7. lambdaCreateVM \in Seq(Calls)
  <2>1. lambdaDestroyVM \in Seq(UndoCalls)
    BY UndoTypes, Kinded DEF lambdaDestroyVM, terminateAndConfirm, Satellites
  <2>2. /\ Check(<<>>) \in Calls /\ ensureSSHKey \in Calls
        /\ Launch("once", "leave", deleteSSHKey) \in Calls /\ Check(deleteSSHKey) \in Calls
        /\ lambdaWaitForIP \in Calls
    BY <1>0, <1>1, <2>1, BuildTypes, Kinded, Zenon
    DEF ensureSSHKey, deleteSSHKey, lambdaWaitForIP
  <2> QED BY <2>2 DEF lambdaCreateVM
<1>8. limaCreateVM \in Seq(Calls)
  <2>1. limaDestroyVM \in Seq(UndoCalls)
    BY UndoTypes DEF limaDestroyVM
  <2>2. /\ Refusal(restrict) \in Calls /\ Launch("once", "leave", <<>>) \in Calls
        /\ Check(limaDestroyVM) \in Calls
    BY <1>0, <2>1, BuildTypes, Zenon
  <2> QED BY <2>2 DEF limaCreateVM
<1>9. firecrackerCreateVM \in Seq(Calls)
  <2>1. teardown \in Seq(UndoCalls)
    BY UndoTypes, Kinded DEF teardown
  <2>2. /\ Check(<<>>) \in Calls /\ Make("rundir", <<>>) \in Calls
        /\ Check(teardown) \in Calls /\ Launch("once", "leave", teardown) \in Calls
        /\ Kill("best") \in Calls /\ Drop("rundir") \in Calls
    BY <1>0, <2>1, UndoTypes, BuildTypes, Kinded, Zenon
  <2>3. teardown \in Seq(Calls)
    BY <2>2 DEF teardown
  <2> QED BY <2>2, <2>3 DEF firecrackerCreateVM
<1>10. k8sCreateVM \in Seq(Calls)
  <2>1. k8sDestroyVM \in Seq(UndoCalls)
    BY UndoTypes DEF k8sDestroyVM
  <2>2. /\ Refusal(restrict) \in Calls /\ Check(<<>>) \in Calls
        /\ Launch("once", "leave", <<>>) \in Calls /\ waitForInitRunning \in Calls
    BY <1>0, <2>1, BuildTypes, Zenon DEF waitForInitRunning
  <2> QED BY <2>2 DEF k8sCreateVM
<1> QED BY <1>2, <1>3, <1>4, <1>5, <1>6, <1>7, <1>8, <1>9, <1>10, BoundsAssumption
        DEF Shape, CreateVM

\* The machine is deleted by a call of s.
HasKill(s) == \E i \in 1 .. Len(s) : s[i].op = "kill"
\* s deletes a machine only while the run has one, once, and as DestroyVM.
Armed(s, held) ==
  HasKill(s) => /\ held
                /\ \A i \in 1 .. Len(s) : s[i].op \in DestroyOps
                /\ \A i, j \in 1 .. Len(s) : s[i].op = "kill" /\ s[j].op = "kill" => i = j
\* The calls that leave the run with a machine.
Gets(c) == c.op \in {"launch", "adopt"}
\* s is the rest of a CreateVM, which ends with a machine, and undoes nothing
\* with DestroyVM before it has one.
Building(s, held) ==
  /\ s \in Seq(BuildCalls)
  /\ held \/ \E j \in 1 .. Len(s) : Gets(s[j])
  /\ \A i \in 1 .. Len(s) :
       /\ Armed(s[i].undo, held \/ \E j \in 1 .. i - 1 : Gets(s[j]))
       /\ Gets(s[i]) => ~HasKill(s[i].undo)
       /\ s[i].op = "launch" => s[i].retry # "token"

\* DestroyVM deletes the machine once.
LEMMA DestroyArmed ==
  ASSUME Shape, provider \in ByName
  PROVE  Armed(DestroyVM, TRUE)
<1>1. Armed(destroyVMInRG, TRUE)
  BY DEF Armed, destroyVMInRG, gatherVMResources, deleteAssociatedResources, Capture, Kill,
         DropBilling, DropGot, DestroyOps
<1>2. Armed(gcpDestroyVM, TRUE)
  BY DEF Armed, gcpDestroyVM, Capture, Kill, DropGot, DestroyOps
<1>3. Armed(limaDestroyVM, TRUE) /\ Armed(k8sDestroyVM, TRUE)
  BY DEF Armed, limaDestroyVM, k8sDestroyVM, Kill, DestroyOps
<1> QED BY <1>1, <1>2, <1>3, Zenon DEF ByName, DestroyVM

\* The calls of CreateVM up to the launch, and the ones after it.
Before(c) == ~HasKill(c.undo) /\ (c.op = "launch" => c.retry # "token")
After(c) == Armed(c.undo, TRUE) /\ ~Gets(c)

\* An operation of this shape builds.
LEMMA BuildingFrom ==
  ASSUME NEW s \in Seq(BuildCalls), NEW l \in 1 .. Len(s), Gets(s[l]),
         \A i \in 1 .. l : Before(s[i]),
         \A i \in l + 1 .. Len(s) : After(s[i])
  PROVE  Building(s, FALSE)
<1>1. ASSUME NEW i \in 1 .. Len(s)
      PROVE  /\ Armed(s[i].undo, \E j \in 1 .. i - 1 : Gets(s[j]))
             /\ Gets(s[i]) => ~HasKill(s[i].undo)
             /\ s[i].op = "launch" => s[i].retry # "token"
  <2>1. CASE i \in 1 .. l
    BY <2>1 DEF Before, Armed
  <2>2. CASE i \in l + 1 .. Len(s)
    <3>1. l \in 1 .. i - 1
      BY <2>2
    <3> QED BY <2>2, <3>1 DEF After, Armed, Gets
  <2>3. i \in 1 .. l \/ i \in l + 1 .. Len(s)
    OBVIOUS
  <2> QED BY <2>1, <2>2, <2>3, Zenon
<1> QED BY <1>1, Zenon DEF Building

\* CreateVM of the providers that know a machine by the name of the workload.
LEMMA CreateBuilding ==
  ASSUME Shape, provider \in ByName
  PROVE  Building(CreateVM, FALSE)
<1>1. ~HasKill(<<>>) /\ ~HasKill(When(restrict, deleteSSHFirewall))
  BY DEF HasKill, deleteSSHFirewall, Drop, When
<1>2. Armed(destroyVMInRG, TRUE) /\ Armed(limaDestroyVM, TRUE) /\ Armed(k8sDestroyVM, TRUE)
  <2>1. Armed(destroyVMInRG, TRUE)
    BY DEF Armed, destroyVMInRG, gatherVMResources, deleteAssociatedResources, Capture, Kill,
           DropBilling, DropGot, DestroyOps
  <2>2. Armed(limaDestroyVM, TRUE) /\ Armed(k8sDestroyVM, TRUE)
    BY DEF Armed, limaDestroyVM, k8sDestroyVM, Kill, DestroyOps
  <2> QED BY <2>1, <2>2, Zenon
<1>3. /\ \A u : Check(u).op = "check" /\ Check(u).undo = u
      /\ \A k, u : Make(k, u).op = "make" /\ Make(k, u).undo = u
      /\ \A b : Refusal(b).op \in {"refuse", "skip"} /\ Refusal(b).undo = <<>>
      /\ \A t, e, u : LET c == Launch(t, e, u)
                      IN c.op = "launch" /\ c.undo = u /\ c.retry = t
  BY DEF Check, Make, Refusal, Launch
<1>4. /\ Before(Check(<<>>)) /\ \A k : Before(Make(k, <<>>)) /\ Before(Refusal(restrict))
      /\ After(Check(<<>>)) /\ After(Check(destroyVMInRG)) /\ After(Check(limaDestroyVM))
      /\ After(Check(k8sDestroyVM))
  <2>1. /\ Before(Check(<<>>)) /\ \A k : Before(Make(k, <<>>)) /\ Before(Refusal(restrict))
    <3>1. \A c : c.undo = <<>> /\ c.op # "launch" => Before(c)
      BY <1>1, Zenon DEF Before
    <3>2. /\ Check(<<>>).op # "launch" /\ \A k : Make(k, <<>>).op # "launch"
          /\ Refusal(restrict).op # "launch"
      BY <1>3
    <3>3. /\ Check(<<>>).undo = <<>> /\ \A k : Make(k, <<>>).undo = <<>>
          /\ Refusal(restrict).undo = <<>>
      BY <1>3, Zenon
    <3> QED BY <3>1, <3>2, <3>3, Zenon
  <2>2. \A u : Armed(u, TRUE) => After(Check(u))
    BY <1>3, Zenon DEF After, Gets
  <2>3. /\ Armed(<<>>, TRUE) /\ Armed(destroyVMInRG, TRUE) /\ Armed(limaDestroyVM, TRUE)
        /\ Armed(k8sDestroyVM, TRUE)
    BY <1>1, <1>2 DEF Armed
  <2> QED BY <2>1, <2>2, <2>3, Zenon
<1>5. /\ \A e, u : ~HasKill(u) => Before(Launch("name", e, u)) /\ Gets(Launch("name", e, u))
      /\ \A e, u : ~HasKill(u) => Before(Launch("once", e, u)) /\ Gets(Launch("once", e, u))
  BY <1>3 DEF Before, Gets
<1>6. ASSUME NEW s \in Seq(Calls),
             \A i \in 1 .. Len(s) : s[i].op \in {"check", "refuse", "skip", "make", "launch"}
      PROVE  s \in Seq(BuildCalls)
  BY <1>6, CallFacts DEF Calls
<1>7. CreateVM \in Seq(Calls)
  BY CreateTyped
<1>8. CASE provider = "azure"
  <2> DEFINE s == CreateVM
  <2>1. /\ s[1] = Check(<<>>) /\ s[2] = Launch("name", "substitute", <<>>)
        /\ s[3] = Check(<<>>)
        /\ Len(s) = 3 \/ (Len(s) = 4 /\ s[4] = Check(destroyVMInRG))
    BY <1>8 DEF CreateVM, azureCreateVM, azurePrepare, azureLaunch, createSSHRule, When
  <2> HIDE DEF s
  <2>2. \A i \in 1 .. Len(s) : s[i].op \in {"check", "launch"}
    <3>1. \A i \in 1 .. Len(s) : i = 2 \/ \E u : s[i] = Check(u)
      BY <2>1
    <3> QED BY <1>3, <2>1, <3>1
  <2>3. s \in Seq(BuildCalls)
    BY <1>6, <1>7, <2>2 DEF s
  <2>4. Gets(s[2]) /\ \A i \in 1 .. 2 : Before(s[i])
    BY <1>1, <1>4, <1>5, <2>1
  <2>5. \A i \in 2 + 1 .. Len(s) : After(s[i])
    BY <1>4, <2>1
  <2>6. 2 \in 1 .. Len(s)
    BY <2>1
  <2>7. Building(s, FALSE)
    BY <2>3, <2>4, <2>5, <2>6, BuildingFrom, Zenon
  <2> QED BY <2>7, Zenon DEF s
<1>9. CASE provider = "gcp" /\ ~restrict
  <2> DEFINE s == CreateVM
  <2>1. /\ Len(s) = 3 /\ s[1] = Check(<<>>) /\ s[3] = Check(<<>>)
        /\ s[2] = Launch("name", "adopt", When(restrict, deleteSSHFirewall))
    BY <1>9 DEF CreateVM, gcpCreateVM, gcpPrepare, gcpLaunch, gcpResult, When
  <2> HIDE DEF s
  <2>2. \A i \in 1 .. Len(s) : s[i].op \in {"check", "refuse", "skip", "make", "launch"}
    BY <1>3, <2>1
  <2>3. s \in Seq(BuildCalls)
    BY <1>6, <1>7, <2>2 DEF s
  <2>4. Gets(s[2]) /\ \A i \in 1 .. 2 : Before(s[i])
    BY <1>1, <1>4, <1>5, <2>1
  <2>5. \A i \in 2 + 1 .. Len(s) : After(s[i])
    BY <1>4, <2>1
  <2>6. 2 \in 1 .. Len(s)
    BY <2>1
  <2>7. Building(s, FALSE)
    BY <2>3, <2>4, <2>5, <2>6, BuildingFrom, Zenon
  <2> QED BY <2>7, Zenon DEF s
<1>10. CASE provider = "gcp" /\ restrict
  <2> DEFINE s == CreateVM
  <2>1. /\ Len(s) = 5 /\ s[1] = Check(<<>>) /\ s[2] = Make("deny", <<>>)
        /\ s[3] = Make("allow", <<>>) /\ s[5] = Check(<<>>)
        /\ s[4] = Launch("name", "adopt", When(restrict, deleteSSHFirewall))
    BY <1>10 DEF CreateVM, gcpCreateVM, gcpPrepare, gcpLaunch, gcpResult, createSSHFirewall,
                 When
  <2> HIDE DEF s
  <2>2. \A i \in 1 .. Len(s) : s[i].op \in {"check", "refuse", "skip", "make", "launch"}
    BY <1>3, <2>1
  <2>3. s \in Seq(BuildCalls)
    BY <1>6, <1>7, <2>2 DEF s
  <2>4. Gets(s[4]) /\ \A i \in 1 .. 4 : Before(s[i])
    BY <1>1, <1>4, <1>5, <2>1
  <2>5. \A i \in 4 + 1 .. Len(s) : After(s[i])
    BY <1>4, <2>1
  <2>6. 4 \in 1 .. Len(s)
    BY <2>1
  <2>7. Building(s, FALSE)
    BY <2>3, <2>4, <2>5, <2>6, BuildingFrom, Zenon
  <2> QED BY <2>7, Zenon DEF s
<1>11. CASE provider = "lima"
  <2> DEFINE s == CreateVM
  <2>1. /\ Len(s) = 5 /\ s[1] = Refusal(restrict) /\ s[2] = Launch("once", "leave", <<>>)
        /\ s[3] = Check(limaDestroyVM) /\ s[4] = Check(limaDestroyVM)
        /\ s[5] = Check(limaDestroyVM)
    BY <1>11 DEF CreateVM, limaCreateVM
  <2> HIDE DEF s
  <2>2. \A i \in 1 .. Len(s) : s[i].op \in {"check", "refuse", "skip", "make", "launch"}
    BY <1>3, <2>1
  <2>3. s \in Seq(BuildCalls)
    BY <1>6, <1>7, <2>2 DEF s
  <2>4. Gets(s[2]) /\ \A i \in 1 .. 2 : Before(s[i])
    BY <1>1, <1>4, <1>5, <2>1
  <2>5. \A i \in 2 + 1 .. Len(s) : After(s[i])
    BY <1>4, <2>1
  <2>6. 2 \in 1 .. Len(s)
    BY <2>1
  <2>7. Building(s, FALSE)
    BY <2>3, <2>4, <2>5, <2>6, BuildingFrom, Zenon
  <2> QED BY <2>7, Zenon DEF s
<1>12. CASE provider = "kubernetes"
  <2> DEFINE s == CreateVM
  <2>1. /\ Len(s) = 4 /\ s[1] = Refusal(restrict) /\ s[2] = Check(<<>>)
        /\ s[3] = Launch("once", "leave", <<>>) /\ s[4] = Check(k8sDestroyVM)
    BY <1>12 DEF CreateVM, k8sCreateVM, waitForInitRunning
  <2> HIDE DEF s
  <2>2. \A i \in 1 .. Len(s) : s[i].op \in {"check", "refuse", "skip", "make", "launch"}
    BY <1>3, <2>1
  <2>3. s \in Seq(BuildCalls)
    BY <1>6, <1>7, <2>2 DEF s
  <2>4. Gets(s[3]) /\ \A i \in 1 .. 3 : Before(s[i])
    BY <1>1, <1>4, <1>5, <2>1
  <2>5. \A i \in 3 + 1 .. Len(s) : After(s[i])
    BY <1>4, <2>1
  <2>6. 3 \in 1 .. Len(s)
    BY <2>1
  <2>7. Building(s, FALSE)
    BY <2>3, <2>4, <2>5, <2>6, BuildingFrom, Zenon
  <2> QED BY <2>7, Zenon DEF s
<1> QED BY <1>8, <1>9, <1>10, <1>11, <1>12, Zenon DEF ByName
\* What follows DestroyVM is no part of it.
LEMMA BeyondSeq ==
  ASSUME NEW S, NEW s \in Seq(S)
  PROVE  /\ Beyond(s) \in Seq(S)
         /\ \A i \in 1 .. Len(Beyond(s)) : \E j \in 1 .. Len(s) : Beyond(s)[i] = s[j]
         /\ (\A i \in 1 .. Len(s) : s[i].op \in DestroyOps) => Beyond(s) = <<>>
<1>1. CASE s = <<>>
  BY <1>1 DEF Beyond
<1>2. CASE s # <<>>
  <2> DEFINE n == Len(s)
  <2>1. n \in 1 .. Len(s) /\ s[n] \in S
    BY <1>2
  <2> HIDE DEF n
  <2>2. Beyond(s) = IF s[n].op \in DestroyOps THEN <<>> ELSE <<s[n]>>
    BY <1>2 DEF Beyond, n
  <2> QED BY <2>1, <2>2
<1> QED BY <1>1, <1>2

\* A teardown, one call further; once the machine is deleted, or DestroyVM has
\* returned, no call deletes one.
LEMMA ArmedSteps ==
  ASSUME NEW s \in Seq(UndoCalls), s # <<>>, NEW held \in BOOLEAN, Armed(s, held)
  PROVE  /\ Head(s).op # "kill" => Armed(Tail(s), held)
         /\ Head(s).op \in {"kill", "reap"} => ~HasKill(Tail(s))
         /\ ~HasKill(Beyond(Tail(s)))
         /\ Head(s).op = "kill" => held
<1> DEFINE t == Tail(s)
<1>1. /\ t \in Seq(UndoCalls) /\ Len(t) = Len(s) - 1 /\ Head(s) = s[1] /\ 1 \in 1 .. Len(s)
      /\ \A i \in 1 .. Len(t) : t[i] = s[i + 1] /\ i + 1 \in 1 .. Len(s)
  OBVIOUS
<1> HIDE DEF t
<1>2. HasKill(t) => HasKill(s)
  BY <1>1 DEF HasKill
<1>3. HasKill(s) => /\ held /\ \A i \in 1 .. Len(s) : s[i].op \in DestroyOps
                    /\ \A i, j \in 1 .. Len(s) : s[i].op = "kill" /\ s[j].op = "kill" => i = j
  BY DEF Armed
<1>4. Head(s).op = "kill" => HasKill(s)
  BY <1>1 DEF HasKill
<1>5. Armed(t, held)
  <2> SUFFICES ASSUME HasKill(t) PROVE Armed(t, held)
    BY DEF Armed
  <2>1. \A i \in 1 .. Len(t) : t[i].op \in DestroyOps
    BY <1>1, <1>2, <1>3
  <2>2. \A i, j \in 1 .. Len(t) : t[i].op = "kill" /\ t[j].op = "kill" => i = j
    <3> SUFFICES ASSUME NEW i \in 1 .. Len(t), NEW j \in 1 .. Len(t), t[i].op = "kill",
                        t[j].op = "kill"
                 PROVE  i = j
      OBVIOUS
    <3>1. i + 1 = j + 1
      BY <1>1, <1>2, <1>3, ZenonT(120)
    <3> QED BY <1>1, <3>1
  <2> QED BY <1>2, <1>3, <2>1, <2>2 DEF Armed
<1>6. Head(s).op = "kill" => ~HasKill(t)
  <2> SUFFICES ASSUME s[1].op = "kill", NEW i \in 1 .. Len(t), t[i].op = "kill" PROVE FALSE
    BY <1>1 DEF HasKill
  <2>1. 1 = i + 1
    BY <1>1, <1>3, <1>4
  <2> QED BY <1>1, <2>1
<1>7. Head(s).op = "reap" => ~HasKill(t)
  BY <1>1, <1>2, <1>3 DEF DestroyOps
<1>8. ~HasKill(Beyond(t))
  <2>1. CASE HasKill(t)
    <3>1. Beyond(t) = <<>>
      <4>1. \A i \in 1 .. Len(t) : t[i].op \in DestroyOps
        BY <2>1, <1>1, <1>2, <1>3
      <4> QED BY <1>1, <4>1, BeyondSeq
    <3> QED BY <3>1 DEF HasKill
  <2>2. CASE ~HasKill(t)
    BY <2>2, <1>1, BeyondSeq DEF HasKill
  <2> QED BY <2>1, <2>2
<1> QED BY <1>3, <1>4, <1>5, <1>6, <1>7, <1>8 DEF t

\* CreateVM, one call further, and what undoes it.
LEMMA BuildingSteps ==
  ASSUME NEW s, s # <<>>, NEW held \in BOOLEAN, Building(s, held)
  PROVE  LET c == Head(s)
         IN /\ c \in BuildCalls /\ Armed(c.undo, held)
            /\ Building(Tail(s), held \/ Gets(c))
            /\ Gets(c) => ~HasKill(c.undo)
            /\ c.op = "launch" => c.retry # "token"
<1> DEFINE t == Tail(s)
           c == Head(s)
<1>0. s \in Seq(BuildCalls)
  BY DEF Building
<1>1. /\ t \in Seq(BuildCalls) /\ Len(t) = Len(s) - 1 /\ c = s[1] /\ 1 \in 1 .. Len(s)
      /\ \A i \in 1 .. Len(t) : t[i] = s[i + 1] /\ i + 1 \in 1 .. Len(s)
      /\ \A j \in 1 .. Len(s) : j = 1 \/ (j - 1 \in 1 .. Len(t) /\ s[j] = t[j - 1])
      /\ c \in BuildCalls
  BY <1>0
<1> HIDE DEF t, c
<1>2. /\ held \/ \E j \in 1 .. Len(s) : Gets(s[j])
      /\ \A i \in 1 .. Len(s) :
           /\ Armed(s[i].undo, held \/ \E j \in 1 .. i - 1 : Gets(s[j]))
           /\ Gets(s[i]) => ~HasKill(s[i].undo)
           /\ s[i].op = "launch" => s[i].retry # "token"
  BY Zenon DEF Building
<1>3. Armed(c.undo, held)
  <2>1. ~\E j \in 1 .. 1 - 1 : Gets(s[j])
    OBVIOUS
  <2>2. Armed(s[1].undo, held \/ \E j \in 1 .. 1 - 1 : Gets(s[j]))
    BY <1>1, <1>2, Zenon
  <2> QED BY <1>1, <2>1, <2>2 DEF Armed
<1>4. (held \/ Gets(c)) \/ \E j \in 1 .. Len(t) : Gets(t[j])
  BY <1>1, <1>2
<1>5. ASSUME NEW i \in 1 .. Len(t)
      PROVE  /\ Armed(t[i].undo, (held \/ Gets(c)) \/ \E j \in 1 .. i - 1 : Gets(t[j]))
             /\ Gets(t[i]) => ~HasKill(t[i].undo)
             /\ t[i].op = "launch" => t[i].retry # "token"
  <2>1. PICK k \in 1 .. Len(s) : k = i + 1 /\ t[i] = s[k] /\ i \in Nat
    BY <1>1
  <2>2. /\ Armed(s[k].undo, held \/ \E j \in 1 .. k - 1 : Gets(s[j]))
        /\ Gets(s[k]) => ~HasKill(s[k].undo)
        /\ s[k].op = "launch" => s[k].retry # "token"
    BY <1>2, Zenon
  <2>3. (\E j \in 1 .. k - 1 : Gets(s[j])) =>
          Gets(c) \/ \E j \in 1 .. i - 1 : Gets(t[j])
    <3> SUFFICES ASSUME NEW j \in 1 .. k - 1, Gets(s[j]), j # 1
                 PROVE  \E l \in 1 .. i - 1 : Gets(t[l])
      BY <1>1
    <3>1. j - 1 \in 1 .. i - 1 /\ j \in 1 .. Len(s)
      BY <2>1, <1>1
    <3> QED BY <1>1, <3>1
  <2> QED BY <2>1, <2>2, <2>3, Zenon DEF Armed
<1>6. Building(t, held \/ Gets(c))
  BY <1>1, <1>4, <1>5, Zenon DEF Building
<1> QED BY <1>1, <1>2, <1>3, <1>6 DEF t, c

\* A failed launch is followed by a search for the machine, and by a launch.
LEMMA BuildingMore ==
  ASSUME NEW s, s # <<>>, NEW held \in BOOLEAN, Building(s, held),
         NEW c \in BuildCalls, Gets(c), ~HasKill(c.undo), c.op = "launch" => c.retry # "token"
  PROVE  Building(<<c>> \o Tail(s), held)
<1> DEFINE t == <<c>> \o Tail(s)
<1>0. s \in Seq(BuildCalls)
  BY DEF Building
<1>1. /\ t \in Seq(BuildCalls) /\ Len(t) = Len(s) /\ t[1] = c /\ 1 \in 1 .. Len(t)
      /\ \A i \in 2 .. Len(t) : t[i] = s[i] /\ i \in 1 .. Len(s)
      /\ \A i \in 1 .. Len(t) : i = 1 \/ i \in 2 .. Len(t)
  BY <1>0
<1> HIDE DEF t
<1>2. ASSUME NEW i \in 2 .. Len(t)
      PROVE  /\ Armed(t[i].undo, held \/ \E j \in 1 .. i - 1 : Gets(t[j]))
             /\ Gets(t[i]) => ~HasKill(t[i].undo)
             /\ t[i].op = "launch" => t[i].retry # "token"
  <2>1. \E j \in 1 .. i - 1 : Gets(t[j])
    <3>1. 1 \in 1 .. i - 1
      BY <1>1
    <3> QED BY <1>1, <3>1
  <2>2. /\ Armed(s[i].undo, held \/ \E j \in 1 .. i - 1 : Gets(s[j]))
        /\ Gets(s[i]) => ~HasKill(s[i].undo)
        /\ s[i].op = "launch" => s[i].retry # "token"
    BY <1>1, Zenon DEF Building
  <2> QED BY <1>1, <2>1, <2>2, Zenon DEF Armed
<1>3. \A h : Armed(t[1].undo, h)
  BY <1>1 DEF Armed
<1>4. \A i \in 1 .. Len(t) :
        /\ Armed(t[i].undo, held \/ \E j \in 1 .. i - 1 : Gets(t[j]))
        /\ Gets(t[i]) => ~HasKill(t[i].undo)
        /\ t[i].op = "launch" => t[i].retry # "token"
  BY <1>1, <1>2, <1>3, Zenon
<1>5. \E j \in 1 .. Len(t) : Gets(t[j])
  BY <1>1
<1> QED BY <1>1, <1>4, <1>5, Zenon DEF Building, t

\* A CreateVM that is through has a machine.
LEMMA BuildingHeld ==
  /\ Building(<<>>, TRUE)
  /\ \A s : Building(s, FALSE) => Building(s, TRUE)
  /\ \A held \in BOOLEAN : Building(<<>>, held) => held
<1>1. Building(<<>>, TRUE)
  BY DEF Building
<1>2. \A s : Building(s, FALSE) => Building(s, TRUE)
  BY DEF Building, Armed
<1>3. \A held \in BOOLEAN : Building(<<>>, held) => held
  BY DEF Building
<1> QED BY <1>1, <1>2, <1>3, Zenon

BuildOps == {"check", "refuse", "skip", "make", "makeNew", "launch", "adopt"}

\* What a call makes of the operation it belongs to.
Continues(p, q) ==
  LET c == Current(p)
      rest == Tail(proc[p].todo)
  IN \/ q.at = "rollback" /\ q.todo = c.undo /\ c.op \in BuildOps
     \/ /\ q.at = proc[p].at
        /\ \/ q.todo = rest /\ c.op # "adopt" /\ (c.op = "launch" => LaunchSucceeds(p))
           \/ q.todo = Beyond(rest) /\ c.op \in {"capture", "kill"}
           \/ q.todo = proc[p].todo /\ c.op = "launch"
           \/ q.todo = <<Adopt(c.onError, c.undo)>> \o rest /\ c.op = "launch"
           \/ q.todo = <<Launch("name", "adopt", <<>>)>> \o rest /\ c.op = "adopt"
           \/ q.todo = <<>> /\ c.op = "adopt" /\ Adopted(p) # {}

\* A call leaves the rest of its operation, or what undoes it.
LEMMA CallTodo ==
  ASSUME Shape, NEW p \in Procs, Call(p)
  PROVE  \E q : /\ Goes(p, q) /\ q.goal = proc[p].goal /\ q.handle = proc[p].handle
                /\ Continues(p, q)
<1> DEFINE c == Current(p)
           rest == Tail(proc[p].todo)
           Same(q) == /\ DOMAIN q = DOMAIN Idle
                      /\ q.goal = proc[p].goal /\ q.handle = proc[p].handle
           Result(q) == Same(q) /\ Continues(p, q)
<1>0. DOMAIN proc[p] = DOMAIN Idle
  BY DEF Shape
<1>1. /\ Same(Advanced(p)) /\ Advanced(p).todo = rest /\ Advanced(p).at = proc[p].at
      /\ Same(Failed(p)) /\ Failed(p).todo = c.undo /\ Failed(p).at = "rollback"
      /\ \A ok : LET q == Returned(p, ok)
                 IN Same(q) /\ q.todo = Beyond(rest) /\ q.at = proc[p].at
  BY <1>0 DEF Idle, Advanced, Failed, Returned
<1> SUFFICES \E q : Goes(p, q) /\ Result(q)
  OBVIOUS
<1> DEFINE Onward(q) == Same(q) /\ q.todo = rest /\ q.at = proc[p].at
<1>2. ASSUME c.op \in BuildOps PROVE Result(Failed(p))
  BY <1>1, <1>2, Zenon DEF Continues
<1>3. ASSUME c.op # "adopt", c.op = "launch" => LaunchSucceeds(p), NEW q, Onward(q)
      PROVE  Result(q)
  BY <1>3, Zenon DEF Continues
<1>4. CASE Checks(p) \/ Refuses(p)
  <2>1. c.op \in {"check", "refuse", "skip"} /\ (Goes(p, Advanced(p)) \/ Goes(p, Failed(p)))
    BY <1>4, Zenon DEF Checks, Refuses, At
  <2>2. c.op \in BuildOps /\ c.op # "adopt" /\ c.op # "launch"
    BY <2>1 DEF BuildOps
  <2> HIDE DEF Result, c
  <2> QED BY <1>1, <1>2, <1>3, <2>1, <2>2, Zenon
<1>5. CASE Makes(p)
  <2>1. c.op \in {"make", "makeNew"}
    BY <1>5 DEF Makes, At
  <2>2. \A new : Onward([Advanced(p) EXCEPT !.fresh = new])
    BY <1>1 DEF Idle
  <2>3. \/ \E new : Goes(p, [Advanced(p) EXCEPT !.fresh = new])
        \/ Goes(p, Failed(p))
    BY <1>5, Zenon DEF Makes
  <2>4. c.op \in BuildOps /\ c.op # "adopt" /\ c.op # "launch"
    BY <2>1 DEF BuildOps
  <2> HIDE DEF Result, Onward, c
  <2> QED BY <1>1, <1>2, <1>3, <2>2, <2>3, <2>4, Zenon
<1>6. CASE LaunchSucceeds(p)
  <2>1. c.op = "launch"
    BY <1>6 DEF LaunchSucceeds, At
  <2>2. /\ \A vm : Onward([Advanced(p) EXCEPT !.sent = FALSE, !.vm = vm])
        /\ \A vm : Onward([Advanced(p) EXCEPT !.vm = vm, !.made = @ + 1, !.sent = FALSE])
    BY <1>1 DEF Idle
  <2>3. \/ \E vm : Goes(p, [Advanced(p) EXCEPT !.sent = FALSE, !.vm = vm])
        \/ \E vm : Goes(p, [Advanced(p) EXCEPT !.vm = vm, !.made = @ + 1, !.sent = FALSE])
    BY <1>6, Zenon DEF LaunchSucceeds
  <2> HIDE DEF Result, Onward, c
  <2> QED BY <1>3, <1>6, <2>1, <2>2, <2>3, Zenon
<1>7. CASE LaunchFails(p)
  <2> DEFINE made == [proc[p] EXCEPT !.made = @ + 1, !.sent = TRUE]
             Start(q) == Same(q) /\ q.todo = proc[p].todo /\ q.at = proc[p].at
  <2>1. c.op = "launch" /\ c.op \in BuildOps
    BY <1>7 DEF LaunchFails, At, BuildOps
  <2>2. Start(proc[p]) /\ Start(made)
    BY <1>0 DEF Idle
  <2>3. ASSUME NEW q, Start(q) PROVE Result([q EXCEPT !.try = @ + 1])
    <3> DEFINE u == [q EXCEPT !.try = @ + 1]
    <3>1. Same(u) /\ u.todo = proc[p].todo /\ u.at = proc[p].at
      BY <2>3 DEF Idle
    <3> HIDE DEF u
    <3>2. Result(u)
      BY <2>1, <3>1 DEF Continues
    <3> QED BY <3>2 DEF u
  <2>4. ASSUME NEW q, Start(q) PROVE Result(GivesUp(p, q))
    <3> DEFINE u == [q EXCEPT !.at = "rollback", !.todo = c.undo, !.sent = FALSE]
               v == [q EXCEPT !.todo = <<Adopt(c.onError, c.undo)>> \o Tail(@),
                              !.sent = FALSE, !.try = 1]
    <3>1. GivesUp(p, q) = u \/ GivesUp(p, q) = v
      BY <2>4, Zenon DEF GivesUp, Current
    <3>2. /\ Same(u) /\ u.todo = c.undo /\ u.at = "rollback"
          /\ Same(v) /\ v.todo = <<Adopt(c.onError, c.undo)>> \o rest /\ v.at = proc[p].at
      BY <2>4 DEF Idle
    <3> HIDE DEF u, v
    <3> QED BY <2>1, <3>1, <3>2, Zenon DEF Continues
  <2>5. \E q \in {proc[p], made} :
          Goes(p, GivesUp(p, q)) \/ Goes(p, [q EXCEPT !.try = @ + 1])
    BY <1>7, Zenon DEF LaunchFails
  <2> HIDE DEF Result, made, Start
  <2> QED BY <2>2, <2>3, <2>4, <2>5
<1>8. CASE adoptCreatedVM(p)
  <2>1. c.op = "adopt" /\ c.op \in BuildOps
    BY <1>8, Zenon DEF adoptCreatedVM, At, BuildOps
  <2>2. ASSUME NEW x \in Adopted(p)
        PROVE  Result([proc[p] EXCEPT !.vm = x.id, !.todo = <<>>])
    <3> DEFINE u == [proc[p] EXCEPT !.vm = x.id, !.todo = <<>>]
    <3>1. Same(u) /\ u.todo = <<>> /\ u.at = proc[p].at /\ Adopted(p) # {}
      BY <1>0, <2>2 DEF Idle
    <3> HIDE DEF u
    <3>2. Result(u)
      BY <2>1, <3>1 DEF Continues
    <3> QED BY <3>2 DEF u
  <2>3. \A q \in NoneAdopted(p) : Result(q)
    <3> DEFINE u == [proc[p] EXCEPT !.todo = <<Launch("name", "adopt", <<>>)>> \o Tail(@)]
    <3>1. /\ Same(u) /\ u.todo = <<Launch("name", "adopt", <<>>)>> \o rest
          /\ u.at = proc[p].at
      BY <1>0 DEF Idle
    <3>2. NoneAdopted(p) \subseteq {Failed(p), u}
      BY Zenon DEF NoneAdopted
    <3> HIDE DEF u
    <3>3. Result(u)
      BY <2>1, <3>1 DEF Continues
    <3> HIDE DEF Result, c
    <3> QED BY <1>2, <2>1, <3>2, <3>3
  <2>4. \/ \E x \in Adopted(p) : Goes(p, [proc[p] EXCEPT !.vm = x.id, !.todo = <<>>])
        \/ \E q \in NoneAdopted(p) : Goes(p, q)
        \/ Goes(p, Failed(p))
    BY <1>8, Zenon DEF adoptCreatedVM
  <2> HIDE DEF Result, c
  <2> QED BY <1>2, <2>1, <2>2, <2>3, <2>4, Zenon
<1>9. CASE Reaps(p)
  <2>1. c.op = "reap" /\ Goes(p, Advanced(p))
    BY <1>9 DEF Reaps, At
  <2> HIDE DEF Result, c
  <2> QED BY <1>1, <1>3, <2>1
<1>10. CASE Captures(p)
  <2> DEFINE knows(kinds, w) == [Advanced(p) EXCEPT !.got = kinds, !.who = w]
  <2>1. \A kinds, w : Onward(knows(kinds, w))
    BY <1>1 DEF Idle
  <2>2. \/ \E kinds, w : Goes(p, knows(kinds, w))
        \/ \E ok : Goes(p, Returned(p, ok))
    BY <1>10, Zenon DEF Captures
  <2>3. c.op = "capture"
    BY <1>10, Zenon DEF Captures, At
  <2>4. \A ok : Result(Returned(p, ok))
    BY <1>1, <2>3, Zenon DEF Continues
  <2> HIDE DEF Result, Onward, knows, c
  <2> QED BY <1>3, <2>1, <2>2, <2>3, <2>4
<1>11. CASE Kills(p)
  <2>1. \/ Goes(p, Advanced(p))
        \/ \E ok : Goes(p, Returned(p, ok))
    BY <1>11, Zenon DEF Kills
  <2>2. c.op = "kill"
    BY <1>11 DEF Kills, At
  <2>3. \A ok : Result(Returned(p, ok))
    BY <1>1, <2>2, Zenon DEF Continues
  <2> HIDE DEF Result, c
  <2> QED BY <1>1, <1>3, <2>1, <2>2, <2>3, Zenon
<1>12. CASE Drops(p)
  <2> DEFINE loud(b) == [Advanced(p) EXCEPT !.ok = @ /\ b]
  <2>1. \A b : Onward(loud(b))
    BY <1>1 DEF Idle
  <2>2. Goes(p, Advanced(p)) \/ \E b : Goes(p, loud(b))
    BY <1>12, Zenon DEF Drops
  <2>3. c.op \in {"drop", "dropFresh", "dropGot", "dropBilling", "dropOne"}
    BY <1>12 DEF Drops, At
  <2> HIDE DEF Result, loud, c
  <2> QED BY <1>1, <1>3, <2>1, <2>2, <2>3, Zenon
<1> QED BY <1>4, <1>5, <1>6, <1>7, <1>8, <1>9, <1>10, <1>11, <1>12, Zenon DEF Call, DestroyCall

\* The run has a machine in the account.
Holds(r) == \E x \in Instances : x.run = r

\* A process in the middle of an operation has calls of that operation left.
Typed(q) ==
  /\ q.todo \in Seq(Calls) /\ (q.at # "create" => q.todo \in Seq(UndoCalls))
  /\ q.at \notin {"create", "rollback", "abort", "cleanup"} => q.todo = <<>>

\* A process that is past its launch, and one that will delete a machine, has
\* its own; only stop repeats a teardown without knowing.
Owns(q, held) ==
  /\ q.at = "create" => Building(q.todo, held)
  /\ q.at \in {"setup", "up", "held"} => held
  /\ q.at \in {"rollback", "abort", "cleanup"} /\ q.goal # "stop" => Armed(q.todo, held)

\* A call leaves calls of the same operation, or of what undoes it.
LEMMA CallTyped ==
  ASSUME Shape, NEW p \in Procs, Call(p), Typed(proc[p])
  PROVE  Typed(proc'[p])
<1> DEFINE c == Current(p)
           s == proc[p].todo
           rest == Tail(s)
<1>0. s # <<>> /\ s \in Seq(Calls) /\ (proc[p].at # "create" => s \in Seq(UndoCalls))
      /\ proc[p].at \in {"create", "rollback", "abort", "cleanup"}
  BY CallProc DEF Typed
<1>1. PICK q : Goes(p, q) /\ Continues(p, q)
  BY CallTodo
<1>2. proc'[p] = q
  BY <1>1 DEF Goes, Shape
<1>3. /\ c \in Calls /\ (proc[p].at # "create" => c \in UndoCalls)
      /\ rest \in Seq(Calls) /\ (proc[p].at # "create" => rest \in Seq(UndoCalls))
  BY <1>0 DEF Current
<1>4. /\ Beyond(rest) \in Seq(Calls)
      /\ proc[p].at # "create" => Beyond(rest) \in Seq(UndoCalls)
  <2> HIDE DEF rest
  <2> QED BY <1>3, BeyondSeq
<1>5. c.op \in BuildOps => /\ proc[p].at = "create" /\ c.undo \in Seq(UndoCalls)
                           /\ c \in BuildCalls
  BY <1>3, CallFacts DEF BuildOps, Calls
<1>6. c.op = "launch" => <<Adopt(c.onError, c.undo)>> \o rest \in Seq(Calls)
  <2> SUFFICES ASSUME c.op = "launch" PROVE Adopt(c.onError, c.undo) \in Calls
    BY <1>3
  <2>1. c \in BuildCalls /\ c.undo \in Seq(UndoCalls)
    BY <1>5 DEF BuildOps
  <2>2. c.onError \in {"leave", "adopt", "substitute"}
    BY <2>1, CallFacts
  <2> HIDE DEF c
  <2> QED BY <2>1, <2>2, BuildTypes, Zenon DEF Calls
<1>7. <<Launch("name", "adopt", <<>>)>> \o rest \in Seq(Calls)
  <2>1. <<>> \in Seq(UndoCalls)
    OBVIOUS
  <2>2. Launch("name", "adopt", <<>>) \in Calls
    BY <2>1, BuildTypes, Zenon DEF Calls
  <2> QED BY <1>3, <2>2
<1>8. <<>> \in Seq(Calls) /\ \A u \in Seq(UndoCalls) : u \in Seq(Calls)
  BY DEF Calls
<1>9. /\ q.todo \in Seq(Calls) /\ (q.at # "create" => q.todo \in Seq(UndoCalls))
      /\ q.at \in {"create", "rollback", "abort", "cleanup"}
  <2> HIDE DEF c, rest, s
  <2>1. CASE q.at = "rollback" /\ q.todo = c.undo /\ c.op \in BuildOps
    BY <2>1, <1>5, <1>8
  <2>2. CASE q.at = proc[p].at /\ c.op \in BuildOps
    <3>1. proc[p].at = "create"
      BY <1>5, <2>2
    <3>2. \/ q.todo \in {rest, s, <<>>, Beyond(rest)}
          \/ c.op = "launch" /\ q.todo = <<Adopt(c.onError, c.undo)>> \o rest
          \/ q.todo = <<Launch("name", "adopt", <<>>)>> \o rest
      BY <1>1, <2>2, <3>1, Zenon DEF Continues, c, s, rest
    <3> QED BY <1>0, <1>3, <1>4, <1>6, <1>7, <1>8, <2>2, <3>1, <3>2, Zenon
  <2>3. CASE q.at = proc[p].at /\ c.op \notin BuildOps
    <3>1. q.todo \in {rest, Beyond(rest)}
      BY <1>1, <2>3, Zenon DEF Continues, c, s, rest, BuildOps
    <3> QED BY <1>0, <1>3, <1>4, <2>3, <3>1
  <2>4. \/ q.at = "rollback" /\ q.todo = c.undo /\ c.op \in BuildOps
        \/ q.at = proc[p].at
    BY <1>1, Zenon DEF Continues, c
  <2> QED BY <2>1, <2>2, <2>3, <2>4
<1> QED BY <1>2, <1>9 DEF Typed

\* Only deleting and reaping take machines away, and a machine is launched only
\* where none has the name.
LEMMA CallInstances ==
  ASSUME Shape, NEW r \in Runs, Call(r), provider \in ByName, Typed(proc[r])
  PROVE  /\ Current(r).op \notin {"kill", "reap"} => \A x \in Instances : x \in cloud'
         /\ LaunchSucceeds(r) /\ Current(r).retry # "token" => Holds(r)'
         /\ \A x \in cloud' : x.kind = "instance" =>
              x \in cloud \/ (x.run = r /\ Instances = {} /\ x.st = "up")
<1> DEFINE c == Current(r)
           New(x) == x.run = r /\ Instances = {} /\ x.st = "up"
<1>0. r \in Procs /\ proc[r].todo # <<>>
  BY CallProc, GcIsNoRun
<1>1. c \in Calls
  BY <1>0 DEF Typed, Current
<1>2. \A x \in NewMachine(r) : x.kind = "instance" => x.run = r /\ x.st = "up"
  BY DEF NewMachine, Satellite
<1>3. \E x \in NewMachine(r) : x.kind = "instance" /\ x.run = r
  <2> DEFINE m == [kind |-> "instance", id |-> NewId(r), run |-> r, owned |-> TRUE,
                   st |-> "up", gen |-> KeyGeneration(r)]
  <2>1. m \in NewMachine(r)
    BY Zenon DEF NewMachine
  <2>2. m.kind = "instance" /\ m.run = r
    OBVIOUS
  <2> QED BY <2>1, <2>2
<1>4. ~TurnedDown(r) => Instances = {}
  BY DEF TurnedDown, UniqueNames
<1>5. \A m : Without(m) = cloud \ m
  BY DEF Without, ByName, Asynchronous
<1>6. CASE Checks(r) \/ Refuses(r) \/ Captures(r) \/ adoptCreatedVM(r)
  <2>1. cloud' = cloud /\ c.op # "launch"
    BY <1>6, Zenon DEF Checks, Refuses, Captures, adoptCreatedVM, At
  <2> QED BY <2>1 DEF LaunchSucceeds, At, Instances
<1>7. CASE Makes(r)
  <2>1. c.op \in {"make", "makeNew"} /\ c.kind # "instance"
    BY <1>1, <1>7, CallFacts DEF Makes, At, Calls
  <2>2. cloud' = cloud \/ cloud' = cloud \cup {Satellite(r, c.kind)}
    BY <1>7 DEF Makes
  <2>3. Satellite(r, c.kind).kind # "instance"
    BY <2>1 DEF Satellite
  <2> QED BY <2>1, <2>2, <2>3 DEF LaunchSucceeds, At, Instances
<1>8. CASE LaunchSucceeds(r)
  <2>1. \/ cloud' = cloud /\ (Replayed(r) \/ Unchanged(r))
        \/ cloud' = cloud \cup NewMachine(r) /\ ~TurnedDown(r)
    BY <1>8, Zenon DEF LaunchSucceeds
  <2>2. c.retry # "token" /\ cloud' = cloud /\ (Replayed(r) \/ Unchanged(r)) => Holds(r)'
    BY DEF Replayed, Unchanged, Holds, Instances
  <2>3. cloud' = cloud \cup NewMachine(r) => Holds(r)'
    BY <1>3 DEF Holds, Instances
  <2> QED BY <1>2, <1>4, <2>1, <2>2, <2>3 DEF Instances
<1>9. CASE LaunchFails(r) /\ ~LaunchSucceeds(r)
  <2>1. cloud' = cloud \/ (cloud' = cloud \cup NewMachine(r) /\ ~TurnedDown(r))
    BY <1>9, Zenon DEF LaunchFails
  <2> QED BY <1>2, <1>4, <1>9, <2>1 DEF Instances
<1>10. CASE Drops(r)
  <2>1. c.op \in {"drop", "dropFresh", "dropGot", "dropBilling", "dropOne"}
    BY <1>10 DEF Drops, At
  <2>2. c.kind # "instance"
    BY <1>1, <2>1, CallFacts DEF Calls
  <2>3. cloud' = cloud \/ cloud' = cloud \ OfRun(c.kind, DropsOf(r))
    BY <1>10, Zenon DEF Drops
  <2> QED BY <2>1, <2>2, <2>3 DEF LaunchSucceeds, At, Instances, OfRun
<1>11. CASE Kills(r) \/ Reaps(r)
  <2>1. c.op \in {"kill", "reap"}
    BY <1>11, Zenon DEF Kills, Reaps, At
  <2>2. cloud' \subseteq cloud
    BY <1>5, <1>11, Zenon DEF Kills, Reaps
  <2> QED BY <2>1, <2>2 DEF LaunchSucceeds, At
<1> QED BY <1>6, <1>7, <1>8, <1>9, <1>10, <1>11, Zenon DEF Call, DestroyCall

\* What a process may have pending without its machine it may have with it.
LEMMA OwnsMore ==
  ASSUME NEW q, NEW h \in BOOLEAN, NEW k \in BOOLEAN, Owns(q, h), h => k
  PROVE  Owns(q, k)
BY BuildingHeld, Zenon DEF Owns, Armed

\* After a call the run still has the machine that it will delete.
LEMMA CallOwns ==
  ASSUME Shape, NEW r \in Runs, Call(r), provider \in ByName, Typed(proc[r]),
         Owns(proc[r], Holds(r))
  PROVE  Owns(proc'[r], Holds(r)')
<1> DEFINE c == Current(r)
           s == proc[r].todo
           rest == Tail(s)
           h == Holds(r)
           k == Holds(r)'
<1>0. /\ r \in Procs /\ s # <<>> /\ c = Head(s) /\ h \in BOOLEAN /\ k \in BOOLEAN
      /\ proc[r].at \in {"create", "rollback", "abort", "cleanup"}
  BY CallProc, GcIsNoRun DEF Typed, Current, Holds
<1>1. PICK q : Goes(r, q) /\ q.goal = proc[r].goal /\ Continues(r, q)
  BY <1>0, CallTodo
<1>2. proc'[r] = q
  BY <1>0, <1>1 DEF Goes, Shape
<1>3. c.op \notin {"kill", "reap"} => (h => k)
  BY CallInstances DEF Holds, Instances
<1>4. /\ \/ q.at = "rollback" /\ q.todo = c.undo /\ c.op \in BuildOps
         \/ q.at = proc[r].at
              /\ \/ q.todo = rest /\ c.op # "adopt" /\ (c.op = "launch" => LaunchSucceeds(r))
                 \/ q.todo = Beyond(rest) /\ c.op \in {"capture", "kill"}
                 \/ q.todo = s /\ c.op = "launch"
                 \/ q.todo = <<Adopt(c.onError, c.undo)>> \o rest /\ c.op = "launch"
                 \/ q.todo = <<Launch("name", "adopt", <<>>)>> \o rest /\ c.op = "adopt"
                 \/ q.todo = <<>> /\ c.op = "adopt" /\ Adopted(r) # {}
  BY <1>1, Zenon DEF Continues
<1>5. CASE proc[r].at = "create"
  <2>1. Building(s, h)
    BY <1>5 DEF Owns
  <2>2. /\ c \in BuildCalls /\ Armed(c.undo, h) /\ Building(rest, h \/ Gets(c))
        /\ Gets(c) => ~HasKill(c.undo)
        /\ c.op = "launch" => c.retry # "token"
    <3> HIDE DEF s, h
    <3> QED BY <1>0, <2>1, BuildingSteps, Zenon DEF c, rest
  <2>3. c.op \in BuildOps /\ c.op \notin {"kill", "reap", "capture"} /\ (h => k)
    BY <1>3, <2>2, CallFacts DEF BuildOps
  <2>4. \A u : Building(u, h) => Building(u, k)
    BY <2>3, <1>0, BuildingHeld, Zenon
  <2>5. CASE q.at = "rollback" /\ q.todo = c.undo
    <3>1. Armed(q.todo, k)
      BY <2>2, <2>3, <2>5 DEF Armed
    <3> QED BY <1>2, <2>5, <3>1 DEF Owns
  <2>6. CASE q.at = "create"
    <3> SUFFICES Building(q.todo, k)
      BY <1>2, <2>6 DEF Owns
    <3>1. CASE q.todo = rest /\ c.op # "adopt" /\ (c.op = "launch" => LaunchSucceeds(r))
      <4>1. CASE c.op = "launch"
        <5>1. k
          BY <2>2, <3>1, <4>1, CallInstances
        <5>2. Building(rest, TRUE)
          BY <2>2, <4>1, Zenon DEF Gets
        <5> QED BY <1>0, <3>1, <5>1, <5>2, Zenon
      <4>2. CASE c.op # "launch"
        <5>1. ~Gets(c)
          BY <3>1, <4>2 DEF Gets
        <5>2. Building(rest, h)
          BY <1>0, <2>2, <5>1
        <5> QED BY <2>4, <3>1, <5>2
      <4> QED BY <4>1, <4>2
    <3>2. CASE q.todo = s
      BY <2>1, <2>4, <3>2
    <3>3. CASE q.todo = <<Adopt(c.onError, c.undo)>> \o rest /\ c.op = "launch"
      <4> DEFINE a == Adopt(c.onError, c.undo)
      <4>1. a.op = "adopt" /\ a.undo = c.undo
        BY DEF Adopt
      <4>2. c.undo \in Seq(UndoCalls) /\ c.onError \in {"leave", "adopt", "substitute"}
        BY <2>2, <3>3, CallFacts
      <4>3. a \in BuildCalls
        <5> HIDE DEF c
        <5> QED BY <4>2, BuildTypes, Zenon
      <4>4. Gets(a) /\ ~HasKill(a.undo) /\ a.op # "launch"
        BY <2>2, <3>3, <4>1 DEF Gets
      <4>5. Building(<<a>> \o rest, h)
        <5> HIDE DEF a, s, h
        <5> QED BY <1>0, <2>1, <4>3, <4>4, BuildingMore DEF rest
      <4> QED BY <2>4, <3>3, <4>5
    <3>4. CASE q.todo = <<Launch("name", "adopt", <<>>)>> \o rest
      <4> DEFINE a == Launch("name", "adopt", <<>>)
      <4>1. a.op = "launch" /\ a.undo = <<>> /\ a.retry # "token"
        BY DEF Launch
      <4>2. <<>> \in Seq(UndoCalls) /\ ~HasKill(<<>>)
        BY DEF HasKill
      <4>3. a \in BuildCalls
        BY <4>2, BuildTypes, Zenon
      <4>4. Gets(a) /\ ~HasKill(a.undo)
        BY <4>1, <4>2 DEF Gets
      <4>5. Building(<<a>> \o rest, h)
        <5> HIDE DEF a, s, h
        <5> QED BY <1>0, <2>1, <4>1, <4>3, <4>4, BuildingMore DEF rest
      <4> QED BY <2>4, <3>4, <4>5
    <3>5. CASE q.todo = <<>> /\ Adopted(r) # {}
      <4>1. h
        BY <3>5, ListedMachines DEF Adopted, Holds
      <4> QED BY <1>0, <2>3, <3>5, <4>1, BuildingHeld, Zenon
    <3> HIDE DEF c, s, rest, h, k
    <3> QED BY <1>4, <2>3, <2>6, <3>1, <3>2, <3>3, <3>4, <3>5
  <2> HIDE DEF c, s, rest, h, k
  <2> QED BY <1>4, <1>5, <2>5, <2>6
<1>6. CASE proc[r].at # "create"
  <2>1. s \in Seq(UndoCalls) /\ c \in UndoCalls
    BY <1>0, <1>6, HeadTail, Zenon DEF Typed
  <2>2. c.op \notin BuildOps
    BY <2>1, CallFacts DEF BuildOps
  <2>3. /\ q.at = proc[r].at
        /\ q.todo = rest \/ (q.todo = Beyond(rest) /\ c.op \in {"capture", "kill"})
    <3> HIDE DEF c, s, rest
    <3> QED BY <1>4, <2>2 DEF BuildOps
  <2> SUFFICES ASSUME proc[r].goal # "stop" PROVE Armed(q.todo, k)
    BY <1>0, <1>1, <1>2, <1>6, <2>3, Zenon DEF Owns
  <2>4. Armed(s, h)
    BY <1>0, <1>6 DEF Owns
  <2>5. /\ c.op # "kill" => Armed(rest, h)
        /\ c.op \in {"kill", "reap"} => ~HasKill(rest)
        /\ ~HasKill(Beyond(rest))
    <3> HIDE DEF s, h
    <3> QED BY <1>0, <2>1, <2>4, ArmedSteps DEF rest, c
  <2> QED BY <1>3, <2>3, <2>5, Zenon DEF Armed
<1> QED BY <1>5, <1>6

\* What a step between two operations makes of the process.
Proceeds(r, q) ==
  LET was == proc[r]
  IN \/ q.at \in {"ended", "crashed", "again"} /\ q.todo = <<>>
     \/ q.at = "create" /\ q.todo = CreateVM
     \/ q.at = "setup" /\ q.todo = <<>> /\ was.at = "create" /\ was.todo = <<>>
     \/ q.at \in {"up", "held"} /\ q.todo = was.todo /\ was.at \in {"setup", "up"}
     \/ /\ q.at \in {"abort", "cleanup"} /\ q.todo = DestroyVM
        /\ was.at \in {"setup", "up"} \/ q.goal = "stop"

\* Between calls a run starts an operation from its beginning or has none.
LEMMA LifecycleTodo ==
  ASSUME Shape, NEW r \in Runs, Lifecycle(r)
  PROVE  \E q : Goes(r, q) /\ Proceeds(r, q)
<1>0. DOMAIN proc[r] = DOMAIN Idle
  BY GcIsNoRun DEF Shape
<1>1. ASSUME NEW b, Ends(r, b) PROVE \E q : Goes(r, q) /\ Proceeds(r, q)
  <2> DEFINE q == [Idle EXCEPT !.at = "ended", !.vm = proc[r].vm, !.got = proc[r].got,
                               !.who = proc[r].who]
  <2>1. q.at = "ended" /\ q.todo = <<>>
    BY DEF Idle
  <2>2. Goes(r, q)
    BY <1>1, Zenon DEF Ends
  <2> HIDE DEF q
  <2> QED BY <2>1, <2>2 DEF Proceeds
<1>2. CASE Execute(r)
  <2> DEFINE q(vm) == [proc[r] EXCEPT !.at = "create", !.todo = CreateVM, !.att = @ + 1,
                                      !.ok = TRUE, !.vm = vm]
  <2>1. \A vm : q(vm).at = "create" /\ q(vm).todo = CreateVM
    BY <1>0 DEF Idle
  <2>2. Ends(r, FALSE) \/ \E vm : Goes(r, q(vm))
    BY <1>2, Zenon DEF Execute
  <2> HIDE DEF q
  <2> QED BY <1>1, <2>1, <2>2, Zenon DEF Proceeds
<1>3. CASE Created(r) \/ Preserve(r)
  <2> DEFINE q(at) == [proc[r] EXCEPT !.at = at]
  <2>1. \A at : q(at).at = at /\ q(at).todo = proc[r].todo
    BY <1>0 DEF Idle
  <2>2. \/ Goes(r, q("setup")) /\ proc[r].at = "create" /\ proc[r].todo = <<>>
        \/ Goes(r, q("held")) /\ proc[r].at = "up"
    BY <1>3, Zenon DEF Created, Preserve
  <2> HIDE DEF q
  <2> QED BY <2>1, <2>2 DEF Proceeds
<1>4. CASE SetUp(r) \/ K8sSetUp(r)
  <2> DEFINE up == [proc[r] EXCEPT !.at = "up", !.handle = proc[r].vm]
             abort == [proc[r] EXCEPT !.at = "abort", !.todo = DestroyVM]
  <2>1. /\ up.at = "up" /\ up.todo = proc[r].todo
        /\ abort.at = "abort" /\ abort.todo = DestroyVM
    BY <1>0 DEF Idle
  <2>2. (Goes(r, up) \/ Goes(r, abort)) /\ proc[r].at = "setup"
    BY <1>4, Zenon DEF SetUp, K8sSetUp
  <2> HIDE DEF up, abort
  <2> QED BY <2>1, <2>2 DEF Proceeds
<1>5. CASE Cleanup(r)
  <2> DEFINE q(goal) == [proc[r] EXCEPT !.at = "cleanup", !.todo = DestroyVM, !.ok = TRUE,
                                        !.goal = goal, !.got = {}, !.who = NoRun]
  <2>1. \A goal : q(goal).at = "cleanup" /\ q(goal).todo = DestroyVM
    BY <1>0 DEF Idle
  <2>2. (\E goal : Goes(r, q(goal))) /\ proc[r].at = "up"
    BY <1>5, Zenon DEF Cleanup
  <2> HIDE DEF q
  <2> QED BY <2>1, <2>2 DEF Proceeds
<1>6. CASE ExecuteFails(r) \/ CleanedUp(r)
  <2> DEFINE q == [proc[r] EXCEPT !.at = "again"]
  <2>1. q.at = "again" /\ q.todo = proc[r].todo
    BY <1>0 DEF Idle
  <2>2. (\E b : Ends(r, b)) \/ (Goes(r, q) /\ proc[r].todo = <<>>)
    BY <1>6, Zenon DEF ExecuteFails, CleanedUp
  <2> HIDE DEF q
  <2> QED BY <1>1, <2>1, <2>2 DEF Proceeds
<1>7. CASE Crash(r)
  <2> DEFINE q == [Idle EXCEPT !.at = "crashed", !.handle = proc[r].handle]
  <2>1. q.at = "crashed" /\ q.todo = <<>>
    BY DEF Idle
  <2>2. Goes(r, q)
    BY <1>7 DEF Crash
  <2> HIDE DEF q
  <2> QED BY <2>1, <2>2 DEF Proceeds
<1>8. CASE Stop(r)
  <2> DEFINE q == [proc[r] EXCEPT !.at = "cleanup", !.todo = DestroyVM, !.ok = TRUE,
                                  !.goal = "stop", !.vm = proc[r].handle]
  <2>1. q.at = "cleanup" /\ q.todo = DestroyVM /\ q.goal = "stop"
    BY <1>0 DEF Idle
  <2>2. Ends(r, FALSE) \/ Goes(r, q)
    BY <1>8, Zenon DEF Stop
  <2> HIDE DEF q
  <2> QED BY <1>1, <2>1, <2>2, Zenon DEF Proceeds
<1> QED BY <1>2, <1>3, <1>4, <1>5, <1>6, <1>7, <1>8 DEF Lifecycle

\* Where machines have ids, the process knows no machine but its own.
Own(r, q) == provider \notin ByName => q.vm[1] \in {r, NoRun} /\ q.handle[1] \in {r, NoRun}

\* All machines of the name are one run's, and none of them is on its way out.
OneName == \A x, y \in Instances : x.run = y.run /\ x.st # "ending"

\* What makes the teardown of a run hit no machine but its own.
TeardownInv ==
  /\ \A r \in Runs : Typed(proc[r]) /\ Own(r, proc[r])
  /\ provider \in ByName => /\ OneName
                            /\ \A r \in Runs \ robbed : Owns(proc[r], Holds(r))

\* The steps of a run keep what holds of its process.
LEMMA RunProc ==
  ASSUME GcInv, TeardownInv, NEW r \in Runs, RunStep(r)
  PROVE  /\ Typed(proc'[r]) /\ Own(r, proc'[r])
         /\ provider \in ByName /\ Owns(proc[r], Holds(r)) => Owns(proc'[r], Holds(r)')
         /\ \A o \in Runs \ {r} : proc'[o] = proc[o]
         /\ UNCHANGED provider
<1>0. Shape /\ CloudInv /\ r \in Procs /\ Typed(proc[r]) /\ Own(r, proc[r])
  BY GcIsNoRun DEF GcInv, TeardownInv
<1>1. provider \notin ByName => NewId(r)[1] = r
  BY DEF NewId
<1>2. CASE Call(r)
  <2>1. PICK q : Steps(r, q) /\ Knows(r, q.vm)
    BY <1>0, <1>2, CallProc
  <2>2. PICK u : Goes(r, u) /\ u.handle = proc[r].handle
    BY <1>0, <1>2, CallTodo
  <2>3. proc'[r] = q /\ q = u /\ \A o \in Runs \ {r} : proc'[o] = proc[o]
    BY <1>0, <2>1, <2>2, GoesEffect, GcIsNoRun, Zenon DEF Goes, Shape
  <2>4. Own(r, q)
    <3> SUFFICES ASSUME provider \notin ByName PROVE q.vm[1] \in {r, NoRun}
      BY <1>0, <2>2, <2>3 DEF Own
    <3>1. \A x \in Adopted(r) : x.id[1] = r
      <4> SUFFICES ASSUME NEW x \in Adopted(r) PROVE x.id[1] = r
        OBVIOUS
      <4>1. x \in Instances /\ x.run = r
        BY <1>0, ListedMachines DEF Adopted
      <4> QED BY <1>0, <4>1, MachineId, Zenon
    <3>2. <<r, proc[r].made>>[1] = r
      OBVIOUS
    <3> QED BY <1>0, <1>1, <2>1, <3>1, <3>2, Zenon DEF Knows, Own
  <2>5. Typed(proc'[r])
    BY <1>0, <1>2, CallTyped
  <2>6. provider \in ByName /\ Owns(proc[r], Holds(r)) => Owns(proc'[r], Holds(r)')
    BY <1>0, <1>2, CallOwns
  <2>7. UNCHANGED provider
    BY <1>0, <1>2, CallProc DEF OnlyCalls
  <2> QED BY <2>3, <2>4, <2>5, <2>6, <2>7 DEF Own
<1>3. CASE Lifecycle(r)
  <2>1. PICK q : /\ Steps(r, q)
                 /\ q.vm \in {NoVM, proc[r].vm, proc[r].handle, NewId(r)}
                 /\ q.handle \in {NoVM, proc[r].vm, proc[r].handle}
    BY <1>0, <1>3, LifecycleProc
  <2>2. PICK u : Goes(r, u) /\ Proceeds(r, u)
    BY <1>0, <1>3, LifecycleTodo
  <2>3. proc'[r] = q /\ q = u /\ \A o \in Runs \ {r} : proc'[o] = proc[o]
    BY <1>0, <2>1, <2>2, GoesEffect, GcIsNoRun DEF Goes, Shape
  <2>4. UNCHANGED <<provider, cloud>>
    BY <1>0, <1>3, LifecycleProc, Zenon
  <2>5. NoVM[1] = NoRun
    BY DEF NoVM
  <2>6. Own(r, q)
    BY <1>0, <1>1, <2>1, <2>5 DEF Own
  <2>7. CreateVM \in Seq(Calls) /\ DestroyVM \in Seq(UndoCalls) /\ DestroyVM \in Seq(Calls)
        /\ <<>> \in Seq(Calls) /\ <<>> \in Seq(UndoCalls)
    <3>1. DestroyVM \in Seq(UndoCalls) /\ UndoCalls \subseteq Calls
      BY <1>0, DestroyTyped DEF Calls
    <3> QED BY <1>0, <3>1, CreateTyped
  <2>8. Typed(u)
    BY <1>0, <2>2, <2>7, Zenon DEF Proceeds, Typed
  <2>9. Holds(r)' = Holds(r) /\ Holds(r) \in BOOLEAN
    BY <2>4 DEF Holds, Instances
  <2>10. ASSUME provider \in ByName, Owns(proc[r], Holds(r)) PROVE Owns(u, Holds(r))
    <3>1. Building(CreateVM, Holds(r))
      BY <1>0, <2>9, <2>10, CreateBuilding, BuildingHeld, Zenon
    <3>2. Holds(r) => Armed(DestroyVM, Holds(r))
      BY <1>0, <2>9, <2>10, DestroyArmed, Zenon DEF Armed
    <3>3. proc[r].at = "create" /\ proc[r].todo = <<>> => Holds(r)
      BY <2>9, <2>10, BuildingHeld DEF Owns
    <3> QED BY <2>2, <2>10, <3>1, <3>2, <3>3 DEF Proceeds, Owns
  <2> QED BY <2>3, <2>4, <2>6, <2>8, <2>9, <2>10 DEF Own
<1> QED BY <1>2, <1>3, Zenon DEF RunStep, Lifecycle

\* A run that loses its machine to the step of another process is robbed.
LEMMA OthersOwn ==
  ASSUME NEW p, NEW r \in Runs \ robbed', r # p, proc'[r] = proc[r],
         robbed' = robbed \cup Robs(p), Owns(proc[r], Holds(r))
  PROVE  Owns(proc'[r], Holds(r)')
<1>1. CASE r \in Live
  <2>1. Holds(r) => Holds(r)'
    <3> SUFFICES ASSUME NEW x \in Instances, x.run = r PROVE x \in cloud'
      BY DEF Holds, Instances
    <3> QED BY <1>1 DEF Robs, Instances
  <2>2. Holds(r) \in BOOLEAN /\ Holds(r)' \in BOOLEAN
    BY DEF Holds
  <2> QED BY <2>1, <2>2, OwnsMore
<1>2. CASE r \notin Live
  BY <1>2 DEF Live, Owns
<1> QED BY <1>1, <1>2

\* No step of a run, of gc or of the account breaks the invariant.
LEMMA RunTeardown ==
  ASSUME GcInv, TeardownInv, NEW r \in Runs, RunStep(r), robbed' = robbed \cup Robs(r)
  PROVE  TeardownInv'
<1>1. /\ Typed(proc'[r]) /\ Own(r, proc'[r])
      /\ provider \in ByName /\ Owns(proc[r], Holds(r)) => Owns(proc'[r], Holds(r)')
      /\ \A o \in Runs \ {r} : proc'[o] = proc[o]
      /\ UNCHANGED provider
  BY RunProc, Zenon
<1>2. \A o \in Runs : Typed(proc'[o]) /\ Own(o, proc'[o])
  BY <1>1 DEF TeardownInv
<1>3. ASSUME provider \in ByName
      PROVE  OneName' /\ \A o \in Runs \ robbed' : Owns(proc'[o], Holds(o)')
  <2>1. ASSUME NEW o \in Runs \ robbed' PROVE Owns(proc'[o], Holds(o)')
    <3>1. Owns(proc[o], Holds(o))
      BY <1>3 DEF TeardownInv
    <3> QED BY <1>1, <1>3, <3>1, OthersOwn
  <2>2. \A x \in Instances' : x \in Instances \/ (x.run = r /\ Instances = {} /\ x.st = "up")
    <3>1. CASE Call(r)
      BY <1>3, <3>1, CallInstances DEF GcInv, TeardownInv, Instances
    <3>2. CASE Lifecycle(r)
      <4>1. cloud' = cloud
        BY <3>2, LifecycleProc DEF GcInv
      <4> QED BY <4>1 DEF Instances
    <3> QED BY <3>1, <3>2 DEF RunStep, Lifecycle
  <2>3. OneName'
    BY <1>3, <2>2 DEF TeardownInv, OneName
  <2> QED BY <2>1, <2>3
<1> QED BY <1>1, <1>2, <1>3 DEF TeardownInv, Own

\* gc may take machines away, and notes the runs it takes them from.
LEMMA GcTeardown ==
  ASSUME GcInv, TeardownInv, GcStep, robbed' = robbed \cup Robs(Gc)
  PROVE  TeardownInv'
<1>1. UNCHANGED provider /\ \A o \in Runs : proc'[o] = proc[o]
  <2>1. \E q : Goes(Gc, q)
    <3>1. CASE DestroyCall(Gc)
      BY <3>1, DestroyProc, GcIsNoRun DEF GcInv, Steps
    <3>2. CASE ~DestroyCall(Gc)
      BY <3>2, Zenon DEF GcStep, GcReads, GcLists, GcDestroys, GcDestroyed
    <3> QED BY <3>1, <3>2
  <2>2. UNCHANGED provider
    <3>1. CASE DestroyCall(Gc)
      BY <3>1, DestroyProc, GcIsNoRun DEF GcInv, OnlyCalls
    <3>2. CASE ~DestroyCall(Gc)
      BY <3>2, Zenon DEF GcStep, GcReads, GcLists, GcDestroys, GcDestroyed
    <3> QED BY <3>1, <3>2
  <2> QED BY <2>1, <2>2, GcIsNoRun DEF Goes, GcInv, Shape
<1>2. provider \in ByName => cloud' \subseteq cloud
  <2> SUFFICES ASSUME provider \in ByName PROVE cloud' \subseteq cloud
    OBVIOUS
  <2>1. \A m : Without(m) = cloud \ m
    BY DEF Without, ByName, Asynchronous
  <2> QED BY <2>1, Zenon DEF GcStep, GcReads, GcLists, GcDestroys, GcDestroyed, DestroyCall,
                             Captures, Kills, Drops
<1>3. ASSUME provider \in ByName
      PROVE  OneName' /\ \A o \in Runs \ robbed' : Owns(proc'[o], Holds(o)')
  <2>1. ASSUME NEW o \in Runs \ robbed' PROVE Owns(proc'[o], Holds(o)')
    <3>1. Owns(proc[o], Holds(o)) /\ o # Gc
      BY <1>3, GcIsNoRun DEF TeardownInv
    <3> QED BY <1>1, <3>1, OthersOwn
  <2> QED BY <1>2, <1>3, <2>1 DEF TeardownInv, OneName, Instances
<1> QED BY <1>1, <1>3 DEF TeardownInv, Own

\* A machine that halts, one that vanishes and a damaged record keep the invariant.
LEMMA EnvironmentTeardown ==
  ASSUME GcInv, TeardownInv, Environment, UNCHANGED robbed
  PROVE  TeardownInv'
<1>1. UNCHANGED <<provider, proc>>
  BY DEF Environment, MachineHalts, MachineVanishes, RecordDamaged
<1>2. ASSUME provider \in ByName
      PROVE  OneName' /\ \A r \in Runs : Holds(r) => Holds(r)'
  <2>1. CASE MachineHalts
    <3>1. PICK x \in Instances, st \in watchdogSelfDestruct :
            cloud' = (cloud \ {x}) \cup {[x EXCEPT !.st = st]}
      BY <2>1 DEF MachineHalts
    <3> DEFINE y == [x EXCEPT !.st = st]
    <3>2. DOMAIN x = DOMAIN Foreign /\ st # "ending"
      BY DEF GcInv, CloudInv, Instances, watchdogSelfDestruct, azureWatchdogSelfDestruct
    <3>3. y.run = x.run /\ y.kind = x.kind /\ y.st = st
      BY <3>2 DEF Foreign
    <3> HIDE DEF y
    <3>4. cloud' = (cloud \ {x}) \cup {y}
      BY <3>1 DEF y
    <3>5. \A z \in Instances' : z \in Instances \/ z = y
      BY <3>4 DEF Instances
    <3>6. OneName'
      BY <1>2, <3>2, <3>3, <3>5 DEF TeardownInv, OneName
    <3>7. y \in Instances'
      BY <3>3, <3>4 DEF Instances
    <3>8. \A z \in Instances : z = x \/ z \in Instances'
      BY <3>4 DEF Instances
    <3> QED BY <3>3, <3>6, <3>7, <3>8 DEF Holds
  <2>2. CASE ~MachineHalts
    <3>1. cloud' = cloud
      BY <1>2, <2>2 DEF Environment, MachineVanishes, RecordDamaged, TeardownInv, OneName
    <3> QED BY <1>2, <3>1 DEF TeardownInv, OneName, Holds, Instances
  <2> QED BY <2>1, <2>2
<1>3. ASSUME provider \in ByName, NEW r \in Runs \ robbed' PROVE Owns(proc'[r], Holds(r)')
  <2>1. Owns(proc[r], Holds(r)) /\ Holds(r) \in BOOLEAN /\ Holds(r)' \in BOOLEAN
    BY <1>3, Zenon DEF TeardownInv, Holds
  <2> QED BY <1>1, <1>2, <1>3, <2>1, OwnsMore
<1> QED BY <1>1, <1>2, <1>3 DEF TeardownInv, Own

\* Nothing is pending before the first command.
LEMMA TeardownInit == GcInit => TeardownInv
<1> SUFFICES ASSUME GcInit PROVE TeardownInv
  OBVIOUS
<1>1. \A r \in Runs : proc[r] = Idle
  BY DEF GcInit, Init, Procs
<1>2. /\ Idle.at = "idle" /\ Idle.todo = <<>> /\ Idle.vm[1] = NoRun /\ Idle.handle[1] = NoRun
  BY DEF Idle, NoVM
<1>3. <<>> \in Seq(Calls) /\ <<>> \in Seq(UndoCalls)
  OBVIOUS
<1>4. \A r \in Runs : Typed(proc[r]) /\ Own(r, proc[r])
  BY <1>1, <1>2, <1>3, Zenon DEF Typed, Own
<1>5. \A r \in Runs : Owns(proc[r], Holds(r))
  BY <1>1, <1>2 DEF Owns
<1>6. OneName
  BY DEF GcInit, Init, OneName, Instances, Foreign, Standing
<1> QED BY <1>4, <1>5, <1>6 DEF TeardownInv

\* Every step keeps the invariant.
LEMMA TeardownStep ==
  ASSUME GcInv, TeardownInv, [Next]_gcVars
  PROVE  TeardownInv'
<1>1. CASE UNCHANGED gcVars
  <2>1. UNCHANGED <<provider, cloud, proc, robbed>>
    BY <1>1 DEF gcVars, vars
  <2> QED BY <2>1, Zenon DEF TeardownInv, Own, OneName, Holds, Instances
<1> QED BY <1>1, RunTeardown, GcTeardown, EnvironmentTeardown DEF Next

(***************************************************************************)
(* A run whose machine nobody took has it for as long as one of its calls  *)
(* can delete a machine, whatever fails on the way.                        *)
(***************************************************************************)
THEOREM TeardownInvCorrect == Spec => []TeardownInv
BY TeardownInit, TeardownStep, GcInvCorrect, PTL DEF Spec

(***************************************************************************)
(* The process of a run takes down no machine of another run: not when     *)
(* CreateVM undoes a failed launch, not through a machine it adopted, not  *)
(* in the teardown and not when the executor provisions again. Where the   *)
(* name of the workload is all that identifies a machine the run has to    *)
(* have its own still, which a robbed run and a repeated stop do not know. *)
(***************************************************************************)
THEOREM TeardownCorrect == Spec => TeardownHitsOwnMachine
<1>1. ASSUME GcInv, TeardownInv, NEW r \in Runs, RunStep(r),
             NEW x \in Instances, x \notin cloud'
      PROVE  \/ x.run = r
             \/ provider \in ByName /\ (r \in robbed \/ proc[r].goal = "stop")
  <2>0. Shape /\ CloudInv /\ r \in Procs /\ Typed(proc[r]) /\ Own(r, proc[r])
    BY <1>1, GcIsNoRun DEF GcInv, TeardownInv
  <2>1. Call(r)
    BY <1>1, <2>0, LifecycleProc, Zenon DEF RunStep, Lifecycle, Instances
  <2>2. Current(r) \in Calls /\ (proc[r].at # "create" => Current(r) \in UndoCalls)
        /\ proc[r].at \in {"create", "rollback", "abort", "cleanup"}
        /\ proc[r].todo # <<>>
    <3>1. proc[r].todo # <<>>
      BY <2>0, <2>1, CallProc, Zenon
    <3>2. /\ proc[r].todo \in Seq(Calls)
          /\ proc[r].at # "create" => proc[r].todo \in Seq(UndoCalls)
          /\ proc[r].at \in {"create", "rollback", "abort", "cleanup"}
      BY <2>0, <3>1, Zenon DEF Typed
    <3> QED
      BY <3>1, <3>2 DEF Current
  <2>3. CASE Kills(r)
    <3>1. x \in Target(r) /\ Current(r).op = "kill"
      BY <1>1, <2>3, Zenon DEF Kills, Without, Instances, At
    <3>2. CASE provider \notin ByName
      <4>1. x.run \in Runs /\ x.id[1] = x.run /\ x.id = proc[r].vm
        <5>1. x.run \in Runs /\ x.id[1] = x.run
          BY <1>1, <2>0, <3>2, MachineId, Zenon
        <5>2. x.id = proc[r].vm
          BY <3>1, <3>2 DEF Target
        <5> QED BY <5>1, <5>2
      <4> QED BY <2>0, <3>2, <4>1, RunsAssumption DEF Own
    <3>3. CASE provider \in ByName /\ r \notin robbed /\ proc[r].goal # "stop"
      <4>1. Owns(proc[r], Holds(r)) /\ OneName
        BY <1>1, <3>3 DEF TeardownInv
      <4>2. proc[r].at # "create"
        <5> SUFFICES ASSUME proc[r].at = "create" PROVE FALSE
          OBVIOUS
        <5>1. Current(r) \in BuildCalls
          <6>1. proc[r].todo \in Seq(BuildCalls) /\ proc[r].todo # <<>>
            BY <2>2, <4>1, Zenon DEF Owns, Building
          <6> QED BY <6>1 DEF Current
        <5> QED BY <3>1, <5>1, CallFacts
      <4>3. Armed(proc[r].todo, Holds(r)) /\ proc[r].todo \in Seq(UndoCalls)
        BY <2>0, <2>2, <3>3, <4>1, <4>2, Zenon DEF Owns, Typed
      <4>4. Holds(r)
        BY <2>2, <3>1, <4>3, ArmedSteps, Zenon DEF Current, Holds
      <4> QED BY <4>1, <4>4 DEF OneName, Holds
    <3> QED BY <3>2, <3>3
  <2>4. CASE Reaps(r)
    <3>1. x \in ListedWithTag(r)
      BY <1>1, <2>4, Zenon DEF Reaps, Without, Instances
    <3> QED BY <2>0, <3>1, ListedMachines
  <2>5. CASE Drops(r)
    <3>1. Current(r).op \in {"drop", "dropFresh", "dropGot", "dropBilling", "dropOne"}
      BY <2>5 DEF Drops, At
    <3>2. Current(r).kind # "instance"
      BY <2>2, <3>1, CallFacts DEF Calls
    <3> QED BY <1>1, <2>5, <3>2, Zenon DEF Drops, OfRun, Instances
  <2>6. CASE ~Kills(r) /\ ~Reaps(r) /\ ~Drops(r)
    BY <1>1, <2>1, <2>6, Zenon
    DEF Call, DestroyCall, Checks, Refuses, Makes, LaunchSucceeds, LaunchFails,
        adoptCreatedVM, Captures, Instances
  <2> QED BY <2>3, <2>4, <2>5, <2>6, Zenon
<1>2. GcInv /\ TeardownInv /\ [Next]_gcVars =>
        [\A r \in Runs : RunStep(r) =>
           \A x \in Instances : x \notin cloud' =>
             \/ x.run = r
             \/ provider \in ByName /\ (r \in robbed \/ proc[r].goal = "stop")]_gcVars
  BY <1>1, Zenon
<1> QED BY <1>2, GcInvCorrect, TeardownInvCorrect, PTL DEF Spec, TeardownHitsOwnMachine

-----------------------------------------------------------------------------
(***************************************************************************)
(* The rules that restrict the access to a machine are made before it and  *)
(* go after it.                                                            *)
(***************************************************************************)
\* The call makes a rule of kind k.
Builds(c, k) == c.op \in {"make", "makeNew"} /\ c.kind = k
\* s makes a rule of kind k before it gets a machine.
Fences(s, k) ==
  \E i \in 1 .. Len(s) : Builds(s[i], k) /\ \A j \in 1 .. i : ~Gets(s[j])
\* A process that is past CreateVM has the rule, and one in CreateVM has it or
\* makes it in time.
Fenced(q, k, has) ==
  /\ q.at \in {"setup", "up", "held"} => has
  /\ q.at = "create" => q.todo \in Seq(BuildCalls) /\ (has \/ Fences(q.todo, k))
\* The run has a resource of kind k in the account.
Has(r, k) == OfRun(k, r) # {}

FenceInv == \A r \in Runs \ robbed, k \in Fence : Fenced(proc[r], k, Has(r, k))

\* A rule is no machine.
LEMMA FenceKinds == \A k \in Fence : k # "instance"
BY DEF Fence

\* As long as the rule is missing, the next call is no launch, and makes the
\* rule or leaves it to a later one.
LEMMA FencesStep ==
  ASSUME NEW s \in Seq(BuildCalls), NEW k, Fences(s, k)
  PROVE  /\ s # <<>> /\ ~Gets(Head(s))
         /\ Builds(Head(s), k) \/ Fences(Tail(s), k)
<1> DEFINE t == Tail(s)
<1>1. PICK i \in 1 .. Len(s) : Builds(s[i], k) /\ \A j \in 1 .. i : ~Gets(s[j])
  BY Zenon DEF Fences
<1>2. /\ s # <<>> /\ Head(s) = s[1] /\ 1 \in 1 .. i /\ Len(t) = Len(s) - 1
      /\ \A j \in 1 .. Len(t) : t[j] = s[j + 1]
      /\ \A j \in 1 .. i - 1 : j + 1 \in 1 .. i /\ j \in 1 .. Len(t)
      /\ i = 1 \/ (i - 1 \in 1 .. Len(t) /\ t[i - 1] = s[i])
  OBVIOUS
<1> HIDE DEF t
<1>3. i = 1 => Builds(Head(s), k)
  BY <1>1, <1>2
<1>4. i # 1 => Fences(t, k)
  <2>1. \A j \in 1 .. i - 1 : ~Gets(t[j])
    BY <1>1, <1>2, Zenon
  <2> QED BY <1>1, <1>2, <2>1, Zenon DEF Fences
<1> QED BY <1>1, <1>2, <1>3, <1>4, Zenon DEF t

\* CreateVM of the providers that have such rules makes them first.
LEMMA CreateFenced ==
  ASSUME Shape, NEW k \in Fence
  PROVE  CreateVM \in Seq(BuildCalls) /\ Fences(CreateVM, k)
<1> DEFINE s == CreateVM
           Early == {"check", "make", "makeNew"}
           First(n) == /\ n \in 1 .. Len(s) /\ Builds(s[n], k)
                       /\ \A i \in 1 .. n : s[i].op \in Early
                       /\ \A i \in 1 .. Len(s) : s[i].op \in Early \cup {"launch"}
<1>1. /\ \A u : Check(u).op = "check"
      /\ \A l, u : /\ Make(l, u).op = "make" /\ Make(l, u).kind = l
                   /\ MakeNew(l, u).op = "makeNew" /\ MakeNew(l, u).kind = l
      /\ \A t, e, u : Launch(t, e, u).op = "launch"
  BY DEF Check, Make, MakeNew, Launch
<1>2. ASSUME NEW n, First(n) PROVE s \in Seq(BuildCalls) /\ Fences(s, k)
  <2>1. s \in Seq(Calls)
    BY CreateTyped
  <2> HIDE DEF s
  <2>2. s \in Seq(BuildCalls)
    BY <1>2, <2>1, CallFacts DEF Calls
  <2>3. \A i \in 1 .. n : ~Gets(s[i])
    BY <1>2 DEF Gets
  <2> QED BY <1>2, <2>2, <2>3, Zenon DEF Fences
<1>3. CASE provider = "aws" /\ k = "sg"
  <2>1. /\ Len(s) = 8 /\ s[1] = Check(<<>>) /\ s[2] = Check(<<>>) /\ s[3] = Make("sg", <<>>)
        /\ s[4] = Check(<<DropFresh("sg")>>) /\ s[5] = Check(<<Drop("sg")>>)
        /\ s[6] = Launch("token", "leave", <<Drop("sg")>>) /\ s[7] = Check(<<Drop("sg")>>)
        /\ s[8] = Check(awsDestroyVM \o <<Drop("sg")>>)
    BY <1>3 DEF CreateVM, awsCreateVM, awsPrepare, awsCreateSSHSecurityGroup, awsUserData,
                awsLaunch, awsResult, awsWaitForIP
  <2> HIDE DEF s
  <2>2. /\ s[3].op = "make" /\ s[3].kind = "sg" /\ s[6].op = "launch"
        /\ s[1].op = "check" /\ s[2].op = "check" /\ s[4].op = "check" /\ s[5].op = "check"
        /\ s[7].op = "check" /\ s[8].op = "check"
    BY <1>1, <2>1
  <2>3. Len(s) = 8
    BY <2>1, Zenon
  <2>4. First(3)
    BY <1>3, <2>2, <2>3 DEF Builds
  <2> QED BY <1>2, <2>4, Zenon DEF s
<1>4. CASE provider = "gcp" /\ restrict /\ k \in {"allow", "deny"}
  <2>1. /\ Len(s) = 5 /\ s[1] = Check(<<>>) /\ s[2] = Make("deny", <<>>)
        /\ s[3] = Make("allow", <<>>) /\ s[5] = Check(<<>>)
        /\ s[4] = Launch("name", "adopt", When(restrict, deleteSSHFirewall))
    BY <1>4 DEF CreateVM, gcpCreateVM, gcpPrepare, gcpLaunch, gcpResult, createSSHFirewall,
                When
  <2> HIDE DEF s
  <2>2. /\ s[2].op = "make" /\ s[2].kind = "deny" /\ s[3].op = "make" /\ s[3].kind = "allow"
        /\ s[1].op = "check" /\ s[4].op = "launch" /\ s[5].op = "check"
    BY <1>1, <2>1
  <2>3. Len(s) = 5
    BY <2>1, Zenon
  <2>4. (k = "deny" => First(2)) /\ (k = "allow" => First(3))
    BY <2>2, <2>3 DEF Builds
  <2>5. k = "deny" \/ k = "allow"
    BY <1>4
  <2> QED BY <1>2, <2>4, <2>5, Zenon DEF s
<1>5. CASE provider = "hetzner" /\ restrict /\ k = "firewall"
  <2>1. /\ Len(s) = 7 /\ s[1] = Check(<<>>) /\ s[2] = Make("sshkey", <<>>)
        /\ s[3] = Check(<<Drop("sshkey")>>) /\ s[4] = MakeNew("firewall", <<Drop("sshkey")>>)
        /\ s[5] = Check(<<Drop("firewall"), Drop("sshkey")>>)
        /\ \E u : s[6] = Launch("name", "adopt", u)
        /\ s[7] = Check(<<Drop("sshkey")>>)
    BY <1>5 DEF CreateVM, hetznerCreateVM, uploadHetznerSSHKey, hetznerFirewall, hetznerLaunch,
                When
  <2> HIDE DEF s
  <2>2. /\ s[4].op = "makeNew" /\ s[4].kind = "firewall" /\ s[2].op = "make"
        /\ s[1].op = "check" /\ s[3].op = "check" /\ s[5].op = "check"
        /\ s[6].op = "launch" /\ s[7].op = "check"
    BY <1>1, <2>1
  <2>3. Len(s) = 7
    BY <2>1, Zenon
  <2>4. First(4)
    BY <1>5, <2>2, <2>3 DEF Builds
  <2> QED BY <1>2, <2>4, Zenon DEF s
<1>6. \/ provider = "aws" /\ k = "sg"
      \/ provider = "gcp" /\ restrict /\ k \in {"allow", "deny"}
      \/ provider = "hetzner" /\ restrict /\ k = "firewall"
  BY DEF Fence
<1> QED BY <1>3, <1>4, <1>5, <1>6

\* A call of CreateVM takes nothing away, and one that makes a rule and goes on
\* leaves the rule in the account.
LEMMA BuildCloud ==
  ASSUME Shape, NEW r \in Runs, Call(r), Current(r).op \in BuildOps
  PROVE  /\ cloud \subseteq cloud'
         /\ \A k : Builds(Current(r), k) /\ proc'[r].at = "create" => Has(r, k)'
<1> DEFINE c == Current(r)
           made == cloud \cup {Satellite(r, c.kind)}
<1>1. CASE Makes(r)
  <2>1. /\ cloud' \in {cloud, made}
        /\ \/ OfRun(c.kind, r) = {} /\ cloud' = made
           \/ OfRun(c.kind, r) # {} /\ cloud' = cloud
           \/ Goes(r, Failed(r))
    BY <1>1, Zenon DEF Makes
  <2>2. Goes(r, Failed(r)) => proc'[r].at = "rollback"
    BY GcIsNoRun DEF Shape, Goes, Failed, Idle
  <2>3. Satellite(r, c.kind).kind = c.kind /\ Satellite(r, c.kind).run = r
    BY DEF Satellite
  <2>4. ASSUME NEW k, c.kind = k, proc'[r].at = "create" PROVE Has(r, k)'
    <3>1. \/ OfRun(k, r) = {} /\ cloud' = cloud \cup {Satellite(r, k)}
          \/ OfRun(k, r) # {} /\ cloud' = cloud
      BY <2>1, <2>2, <2>4
    <3>2. PICK x : x = Satellite(r, k) /\ x.kind = k /\ x.run = r
      BY <2>3, <2>4
    <3> QED BY <3>1, <3>2 DEF Has, OfRun
  <2>5. cloud \subseteq cloud'
    BY <2>1
  <2> QED BY <2>4, <2>5, Zenon DEF Builds
<1>2. CASE ~Makes(r)
  <2>1. c.op \notin {"reap", "capture", "kill", "drop", "dropFresh", "dropGot",
                     "dropBilling", "dropOne"}
    BY DEF BuildOps
  <2>2. ~Reaps(r) /\ ~DestroyCall(r)
    BY <2>1, Zenon DEF Reaps, DestroyCall, Captures, Kills, Drops, At
  <2>3. Checks(r) \/ Refuses(r) \/ LaunchSucceeds(r) \/ LaunchFails(r) \/ adoptCreatedVM(r)
    BY <1>2, <2>2, Zenon DEF Call
  <2>4. c.op \notin {"make", "makeNew"}
    BY <2>3, Zenon DEF Checks, Refuses, LaunchSucceeds, LaunchFails, adoptCreatedVM, At
  <2>5. cloud' = cloud \/ cloud' = cloud \cup NewMachine(r)
    BY <2>3, Zenon DEF Checks, Refuses, LaunchSucceeds, LaunchFails, adoptCreatedVM
  <2> QED BY <2>4, <2>5, Zenon DEF Builds
<1> QED BY <1>1, <1>2

\* A call of the run leaves its rules in the account, or has taken the process
\* out of CreateVM.
LEMMA CallFence ==
  ASSUME Shape, NEW r \in Runs, Call(r), Typed(proc[r]), NEW k, Fenced(proc[r], k, Has(r, k))
  PROVE  Fenced(proc'[r], k, Has(r, k)')
<1> DEFINE c == Current(r)
           s == proc[r].todo
           rest == Tail(s)
<1>0. /\ r \in Procs /\ s # <<>> /\ c = Head(s)
      /\ proc[r].at \in {"create", "rollback", "abort", "cleanup"}
  BY CallProc, GcIsNoRun DEF Typed, Current
<1>1. PICK q : Goes(r, q) /\ Continues(r, q)
  BY <1>0, CallTodo
<1>2. proc'[r] = q
  BY <1>0, <1>1 DEF Goes, Shape
<1>3. q.at \in {"rollback", proc[r].at}
  BY <1>1, Zenon DEF Continues
<1>4. CASE q.at # "create"
  BY <1>0, <1>2, <1>3, <1>4 DEF Fenced
<1>5. CASE q.at = "create"
  <2>1. proc[r].at = "create" /\ s \in Seq(BuildCalls) /\ (Has(r, k) \/ Fences(s, k))
    BY <1>3, <1>5 DEF Fenced
  <2>2. /\ c \in BuildCalls /\ rest \in Seq(BuildCalls) /\ c.op \in BuildOps
        /\ c.op \notin {"capture", "kill"} /\ c.undo \in Seq(UndoCalls)
    <3>1. c \in BuildCalls /\ rest \in Seq(BuildCalls)
      BY <1>0, <2>1, HeadTail, Zenon
    <3> HIDE DEF c
    <3> QED BY <3>1, CallFacts DEF BuildOps
  <2>3. \/ q.todo = rest /\ c.op # "adopt" /\ (c.op = "launch" => LaunchSucceeds(r))
        \/ q.todo = s /\ c.op = "launch"
        \/ q.todo = <<Adopt(c.onError, c.undo)>> \o rest /\ c.op = "launch"
        \/ q.todo = <<Launch("name", "adopt", <<>>)>> \o rest /\ c.op = "adopt"
        \/ q.todo = <<>> /\ c.op = "adopt"
    <3>1. "rollback" # "create"
      OBVIOUS
    <3> QED BY <1>1, <1>5, <2>2, <3>1, Zenon DEF Continues
  <2>4. cloud \subseteq cloud' /\ (Builds(c, k) => Has(r, k)')
    BY <1>2, <1>5, <2>2, BuildCloud, Zenon
  <2>5. Has(r, k) => Has(r, k)'
    BY <2>4 DEF Has, OfRun
  <2>6. q.todo \in Seq(BuildCalls)
    <3>1. ASSUME c.op = "launch" PROVE Adopt(c.onError, c.undo) \in BuildCalls
      <4>1. c.onError \in {"leave", "adopt", "substitute"}
        BY <2>2, <3>1, CallFacts
      <4> HIDE DEF c
      <4> QED BY <2>2, <4>1, BuildTypes, Zenon
    <3>2. Launch("name", "adopt", <<>>) \in BuildCalls
      <4>1. <<>> \in Seq(UndoCalls)
        OBVIOUS
      <4> QED BY <4>1, BuildTypes, Zenon
    <3>3. \A a \in BuildCalls : <<a>> \o rest \in Seq(BuildCalls)
      <4> HIDE DEF rest
      <4> QED BY <2>2
    <3>4. <<>> \in Seq(BuildCalls)
      OBVIOUS
    <3> HIDE DEF c, s, rest
    <3> QED BY <2>1, <2>2, <2>3, <3>1, <3>2, <3>3, <3>4, Zenon
  <2>7. ASSUME ~Has(r, k) PROVE Has(r, k)' \/ Fences(q.todo, k)
    <3>1. ~Gets(c) /\ (Builds(c, k) \/ Fences(rest, k))
      <4> HIDE DEF s
      <4> QED BY <1>0, <2>1, <2>7, FencesStep, Zenon DEF rest
    <3>2. c.op \notin {"launch", "adopt"}
      BY <3>1, Zenon DEF Gets
    <3>3. q.todo = rest
      BY <2>3, <3>2
    <3> QED BY <2>4, <3>1, <3>3, Zenon
  <2> QED BY <1>2, <1>5, <2>5, <2>6, <2>7, Zenon DEF Fenced
<1> QED BY <1>4, <1>5

\* The steps of a run keep the rules of the run.
LEMMA RunFence ==
  ASSUME GcInv, TeardownInv, NEW r \in Runs, RunStep(r), NEW k \in Fence,
         Fenced(proc[r], k, Has(r, k))
  PROVE  Fenced(proc'[r], k, Has(r, k)')
<1>0. Shape /\ r \in Procs /\ Typed(proc[r])
  BY GcIsNoRun DEF GcInv, TeardownInv
<1>1. CASE Call(r)
  BY <1>0, <1>1, CallFence
<1>2. CASE Lifecycle(r)
  <2>1. PICK q : Goes(r, q) /\ Proceeds(r, q)
    BY <1>0, <1>2, LifecycleTodo
  <2>2. proc'[r] = q
    BY <1>0, <2>1 DEF Goes, Shape
  <2>3. Has(r, k)' = Has(r, k)
    BY <1>0, <1>2, LifecycleProc DEF Has, OfRun
  <2>4. CreateVM \in Seq(BuildCalls) /\ Fences(CreateVM, k)
    BY <1>0, CreateFenced
  <2>5. ~Fences(<<>>, k)
    BY DEF Fences
  <2> QED BY <2>1, <2>2, <2>3, <2>4, <2>5 DEF Proceeds, Fenced
<1> QED BY <1>1, <1>2, Zenon DEF RunStep, Lifecycle

\* A run that loses a rule to the step of another process is robbed.
LEMMA OthersFence ==
  ASSUME NEW p, NEW r \in Runs \ robbed', r # p, proc'[r] = proc[r],
         robbed' = robbed \cup Robs(p), NEW k, Fenced(proc[r], k, Has(r, k))
  PROVE  Fenced(proc'[r], k, Has(r, k)')
<1>1. CASE r \in Live
  <2>1. Has(r, k) => Has(r, k)'
    <3> SUFFICES ASSUME NEW x \in cloud, x.run = r PROVE x \in cloud'
      BY DEF Has, OfRun
    <3> QED BY <1>1 DEF Robs
  <2> QED BY <2>1, Zenon DEF Fenced
<1>2. CASE r \notin Live
  BY <1>2 DEF Live, Fenced
<1> QED BY <1>1, <1>2

\* gc is not a run, and changes neither the provider nor the processes of runs.
LEMMA GcOnly ==
  ASSUME GcInv, GcStep
  PROVE  UNCHANGED <<provider, restrict>> /\ \A o \in Runs : proc'[o] = proc[o]
<1>1. CASE DestroyCall(Gc)
  <2>1. OnlyCalls /\ \E q : Goes(Gc, q)
    BY <1>1, DestroyProc, GcIsNoRun DEF GcInv, Steps
  <2> QED BY <2>1, GcIsNoRun DEF Goes, GcInv, Shape, OnlyCalls
<1>2. CASE ~DestroyCall(Gc)
  <2>1. UNCHANGED <<provider, restrict>> /\ \E q : Goes(Gc, q)
    BY <1>2, Zenon DEF GcStep, GcReads, GcLists, GcDestroys, GcDestroyed
  <2> QED BY <2>1, GcIsNoRun DEF Goes, GcInv, Shape
<1> QED BY <1>1, <1>2

\* Every step keeps the invariant.
LEMMA FenceStep ==
  ASSUME GcInv, TeardownInv, FenceInv, [Next]_gcVars
  PROVE  FenceInv'
<1>1. CASE UNCHANGED gcVars
  <2>1. UNCHANGED <<provider, restrict, cloud, proc, robbed>>
    BY <1>1 DEF gcVars, vars
  <2>2. Fence' = Fence
    BY <2>1, Zenon DEF Fence
  <2>3. \A r, k : Has(r, k)' = Has(r, k)
    BY <2>1, Zenon DEF Has, OfRun
  <2> QED BY <2>1, <2>2, <2>3, Zenon DEF FenceInv, Fenced
<1>2. ASSUME NEW r \in Runs, RunStep(r), robbed' = robbed \cup Robs(r)
      PROVE  FenceInv'
  <2>1. UNCHANGED <<provider, restrict>>
    <3>1. Shape /\ r \in Procs
      BY GcIsNoRun DEF GcInv
    <3>2. Call(r) => UNCHANGED <<provider, restrict>>
      BY <3>1, CallProc DEF OnlyCalls
    <3>3. Lifecycle(r) => UNCHANGED <<provider, restrict>>
      BY <3>1, LifecycleProc
    <3> QED BY <1>2, <3>2, <3>3, Zenon DEF RunStep, Lifecycle
  <2>2. \A o \in Runs \ {r} : proc'[o] = proc[o]
    BY <1>2, RunProc, Zenon
  <2>3. ASSUME NEW o \in Runs \ robbed', NEW k \in Fence PROVE Fenced(proc'[o], k, Has(o, k)')
    <3>1. Fenced(proc[o], k, Has(o, k))
      BY <1>2, Zenon DEF FenceInv
    <3>2. CASE o = r
      BY <1>2, <3>1, <3>2, RunFence
    <3>3. CASE o # r
      BY <1>2, <2>2, <3>1, <3>3, OthersFence
    <3> QED BY <3>2, <3>3
  <2>4. Fence' = Fence
    BY <2>1, Zenon DEF Fence
  <2> QED BY <2>3, <2>4, Zenon DEF FenceInv
<1>3. ASSUME GcStep, robbed' = robbed \cup Robs(Gc) PROVE FenceInv'
  <2>1. UNCHANGED <<provider, restrict>> /\ \A o \in Runs : proc'[o] = proc[o]
    BY <1>3, GcOnly
  <2>2. ASSUME NEW o \in Runs \ robbed', NEW k \in Fence PROVE Fenced(proc'[o], k, Has(o, k)')
    <3>1. Fenced(proc[o], k, Has(o, k)) /\ o # Gc
      BY <1>3, GcIsNoRun, Zenon DEF FenceInv
    <3> QED BY <1>3, <2>1, <3>1, OthersFence
  <2>3. Fence' = Fence
    BY <2>1, Zenon DEF Fence
  <2> QED BY <2>2, <2>3, Zenon DEF FenceInv
<1>4. ASSUME Environment, UNCHANGED robbed PROVE FenceInv'
  <2>1. UNCHANGED <<provider, restrict, proc>>
    BY <1>4, Zenon DEF Environment, MachineHalts, MachineVanishes, RecordDamaged
  <2>2. \A x \in cloud : x.kind # "instance" => x \in cloud'
    BY <1>4 DEF Environment, MachineHalts, MachineVanishes, RecordDamaged, Instances
  <2>3. ASSUME NEW o \in Runs, NEW k \in Fence, Has(o, k) PROVE Has(o, k)'
    BY <2>2, <2>3, FenceKinds DEF Has, OfRun
  <2>4. Fence' = Fence
    BY <2>1, Zenon DEF Fence
  <2> QED BY <1>4, <2>1, <2>3, <2>4, Zenon DEF FenceInv, Fenced
<1> QED BY <1>1, <1>2, <1>3, <1>4, Zenon DEF Next

(***************************************************************************)
(* The security group, the firewall rules and the firewall of a run are in *)
(* the account for as long as the run works on its machine or keeps it:    *)
(* CreateVM makes them before the launch, a failure on the way out of      *)
(* CreateVM ends the use, and no teardown, retry or sweep takes them from  *)
(* under a run that nobody robs.                                           *)
(***************************************************************************)
THEOREM FenceCorrect == Spec => []FencedWhileUsed
<1>1. GcInit => FenceInv
  <2> SUFFICES ASSUME GcInit PROVE FenceInv
    OBVIOUS
  <2>1. \A r \in Runs : proc[r].at = "idle"
    BY DEF GcInit, Init, Procs, Idle
  <2> QED BY <2>1 DEF FenceInv, Fenced
<1>2. FenceInv => FencedWhileUsed
  BY Zenon DEF FenceInv, FencedWhileUsed, Fenced, Has
<1> QED BY <1>1, <1>2, FenceStep, GcInvCorrect, TeardownInvCorrect, PTL DEF Spec
=============================================================================
