-------------------------- MODULE AttestedRunProofs --------------------------
(***************************************************************************)
(* Proofs about a confidential run, for every set of plans, of agents, and *)
(* every number of sessions an agent serves at once.                       *)
(***************************************************************************)
EXTENDS AttestedRun, FiniteSetTheorems, SequenceTheorems, TLAPS

(***************************************************************************)
(* The agent's evidence for the run, on the run's own session, passes the  *)
(* verifier of its back end.                                               *)
(***************************************************************************)
Vouched == Verified(Evidence("run", "run"), plan, "run", bindData("agent", "run"))

(***************************************************************************)
(* The check that refuses a run that pins no image.                        *)
(***************************************************************************)
ImageCheck == IF plan.backend = "cs" THEN "image" ELSE "pins"

(***************************************************************************)
(* Before a machine is there an image is pinned, or that is still to be    *)
(* checked; the payload is on its way only to an agent that was vouched    *)
(* for.                                                                    *)
(***************************************************************************)
AttestInv ==
  /\ plan.image = Empty => handle = NoHandle
  /\ plan.image = Empty =>
       \/ cli.pc \in {"return", "failed", "dead"}
       \/ /\ cli.pc = "preflight"
          /\ \E i \in 1..Len(cli.todo) : cli.todo[i] = ImageCheck
  /\ cli.pc \in {"send", "await"} => front = "agent" /\ Vouched
  /\ "agent" \in got => Vouched /\ plan.image # Empty
  /\ "proxy" \notin got

(***************************************************************************)
(* What is left when nothing has failed to be deleted.                     *)
(***************************************************************************)
MachineAccounted == machine.st = "up" => failures \cap {"create", "destroy"} # {}

RuleAccounted == firewall = "ours" => failures \cap {"open", "reap"} # {}

(***************************************************************************)
(* Up to the teardown no call has failed; a teardown goes through the rule *)
(* before the machine, and only Confidential Space has a rule.             *)
(***************************************************************************)
TeardownInv ==
  /\ cli.pc = "preflight" => machine.st = "none" /\ firewall # "ours"
  /\ plan.backend # "cs" =>
       /\ firewall = "none"
       /\ cli.pc \notin {"firewall", "vminfo", "reap", "firewall of cleanup"}
  /\ handle # NoHandle =>
       cli.pc \in {"return", "returned", "dead", "firewall of cleanup", "cleaned"}
  /\ \/ cli.pc \in {"preflight", "firewall", "vminfo", "pin", "reap", "returned"}
                   \cup Supervising
     \/ cli.pc = "return" /\ handle # NoHandle
     => failures = {}
  /\ cli.pc = "destroy" => RuleAccounted
  /\ cli.pc = "failed" \/ (cli.pc = "return" /\ handle = NoHandle) =>
       MachineAccounted /\ RuleAccounted
  /\ cli.pc \in {"firewall of cleanup", "cleaned"} /\ machine.st = "up" =>
       "destroy" \in failures /\ ~report.success /\ "vm" \in report.errors
  /\ cli.pc = "firewall of cleanup" => "reap" \notin failures
  /\ cli.pc = "cleaned" /\ firewall = "ours" =>
       "reap" \in failures /\ "firewall" \in report.errors
  /\ cli.pc \in {"failed", "returned", "firewall of cleanup", "cleaned"} => ~keyfile
-----------------------------------------------------------------------------
(***************************************************************************)
(* The plan, the agent and what answers at its address stay what they are. *)
(***************************************************************************)
LEMMA SettingStep ==
  ASSUME [Next]_vars
  PROVE  UNCHANGED <<plan, agent, front>>
BY DEF Next, vars, Dispatcher, CleanUp, Agent, World

(***************************************************************************)
(* A step of Execute is one of these, with what it leaves alone.           *)
(***************************************************************************)
LEMMA ExecuteCases ==
  ASSUME Dispatcher
  PROVE  /\ UNCHANGED <<cancelled, issued, result, report>>
         /\ \/ /\ Check
               /\ UNCHANGED <<machine, firewall, beat, conn, got, handle, failures>>
            \/ /\ CreateVM
               /\ UNCHANGED <<firewall, keyfile, beat, conn, got, handle>>
            \/ /\ createConfidentialSpaceVM
               /\ UNCHANGED <<machine, keyfile, beat, conn, got, handle>>
            \/ /\ StartRenewal \/ StartAgent \/ waitForAgentEndpoint \/ RunOverATLS
                  \/ ClientAttest \/ attestDeadline \/ interruptOnCancel
               /\ UNCHANGED <<machine, firewall, keyfile, got, handle, failures>>
               /\ UNCHANGED conn \/ RunOverATLS
            \/ /\ ClientHandshake
               /\ UNCHANGED <<machine, firewall, keyfile, beat, conn, got, handle, failures>>
            \/ /\ ClientRun
               /\ UNCHANGED <<machine, firewall, keyfile, beat, conn, handle, failures>>
            \/ /\ ReadResult
               /\ UNCHANGED <<machine, firewall, keyfile, conn, got, failures>>
            \/ /\ destroyOnErr
               /\ UNCHANGED <<keyfile, beat, got, handle>>
            \/ /\ Deferred
               /\ UNCHANGED <<machine, firewall, beat, conn, got, handle, failures>>
BY DEF Dispatcher, Execute

-----------------------------------------------------------------------------
(***************************************************************************)
(* Types.                                                                  *)
(***************************************************************************)
LEMMA PreflightType ==
  ASSUME NEW b \in Backends
  PROVE  Preflight[b] \in Seq(Todos)
<1>1. /\ csPreflight \in Seq(Todos) /\ sshPreflight \in Seq(Todos)
      /\ <<"pins", "key", "egress">> \in Seq(Todos)
      /\ <<"pins", "ami", "key", "egress">> \in Seq(Todos)
  <2>1. csPreflight \in Seq(Todos)
    BY DEF csPreflight, Todos
  <2>2. sshPreflight \in Seq(Todos)
    BY DEF sshPreflight, Todos
  <2>3. <<"pins", "key", "egress">> \in Seq(Todos)
    BY DEF Todos
  <2>4. <<"pins", "ami", "key", "egress">> \in Seq(Todos)
    BY DEF Todos
  <2> QED
    BY <2>1, <2>2, <2>3, <2>4
<1>2. azurePreflight \in Seq(Todos) /\ nitroPreflight \in Seq(Todos)
  BY <1>1, ConcatProperties DEF azurePreflight, nitroPreflight
<1> QED
  BY <1>1, <1>2 DEF Preflight, Backends

\* A run starts typed.
LEMMA TypeInit == Init => TypeOK
<1> SUFFICES ASSUME Init PROVE TypeOK
  OBVIOUS
<1>1. plan \in Plans /\ plan.backend \in Backends
  BY AttestedAssumption DEF Init
<1>2. cli.pc = "preflight" /\ cli.todo \in Seq(Todos)
      /\ cli = [pc |-> cli.pc, todo |-> cli.todo]
  BY <1>1, PreflightType DEF Init
<1>3. <<>> \in {<<>>} \cup {<<c>> : c \in ExitCodes}
  OBVIOUS
<1> QED
  BY <1>1, <1>2, <1>3 DEF Init, TypeOK, Labels, NoReport, Sessions

\* Where Execute goes, and the machine's life, are of their types.
LEMMA GotoType ==
  ASSUME NEW p \in Labels, Goto(p)
  PROVE  cli' \in [pc : Labels, todo : Seq(Todos)] /\ cli'.pc = p /\ cli'.todo = <<>>
BY DEF Goto

\* A machine that is destroyed is gone, or the failure is on record.
LEMMA DestroyStep ==
  ASSUME NEW then, DestroyVM(then)
  PROVE  /\ cli'.pc = then /\ cli'.todo = <<>>
         /\ \/ machine'.st = "gone" /\ failures' = failures
            \/ machine' = machine /\ failures' = failures \cup {"destroy"}
BY DEF DestroyVM, Goto, Down

\* The times of a plan are numbers.
LEMMA LifeType ==
  ASSUME NEW p \in Plans
  PROVE  Life(p) \in Nat /\ watchdogTTL(p) \in Nat
<1>1. /\ p.backend \in {"cs", "azure", "nitro"} /\ p.maxDuration \in Nat /\ p.ttl \in Nat
      /\ TTL \in Nat
  BY AttestedAssumption DEF Backends
<1>2. confidentialLifetime(p) \in Nat /\ watchdogTTL(p) \in Nat
  BY <1>1 DEF confidentialLifetime, watchdogTTL
<1> QED
  BY <1>1, <1>2 DEF Life
\* A run that fails is torn down.
LEMMA FailType ==
  ASSUME TypeOK, Fail
  PROVE  /\ cli' \in [pc : Labels, todo : Seq(Todos)]
         /\ cli'.pc \in {"reap", "destroy"}
         /\ cli'.pc = "reap" <=> plan.backend = "cs"
         /\ beat' \in {"off", "last"}
<1>1. Goto(IF plan.backend = "cs" THEN "reap" ELSE "destroy")
  BY DEF Fail, Teardown
<1>2. (IF plan.backend = "cs" THEN "reap" ELSE "destroy") \in Labels
  BY DEF Labels
<1> QED
  BY <1>1, <1>2, GotoType DEF Fail, Stopped

\* Every step of the dispatcher keeps the types.
LEMMA ExecuteType ==
  ASSUME TypeOK, Dispatcher
  PROVE  TypeOK'
<1>0. /\ UNCHANGED <<plan, agent, front, cancelled, issued, result, report>>
      /\ plan \in Plans /\ plan.backend \in Backends
  BY AttestedAssumption DEF Dispatcher, TypeOK
<1> USE DEF TypeOK
<1>1. CASE Check /\ UNCHANGED <<machine, firewall, beat, conn, got, handle, failures>>
  <2>1. keyfile' \in BOOLEAN
    BY <1>1 DEF Check
  <2>2. cli' \in [pc : Labels, todo : Seq(Todos)]
    <3>1. CASE cli' = [cli EXCEPT !.todo = Tail(@)]
      <4>1. Tail(cli.todo) \in Seq(Todos)
        BY <1>1, HeadTailProperties DEF Check
      <4> QED
        BY <3>1, <4>1
    <3>2. CASE Return
      BY <3>2, GotoType DEF Return, Labels
    <3> QED
      BY <1>1, <3>1, <3>2 DEF Check
  <2> QED
    BY <1>0, <1>1, <2>1, <2>2
<1>2. CASE CreateVM /\ UNCHANGED <<firewall, keyfile, beat, conn, got, handle>>
  <2>1. cli' \in [pc : Labels, todo : Seq(Todos)]
    <3>1. AfterCreate \in Labels /\ "return" \in Labels
      BY DEF AfterCreate, Labels, Supervising
    <3> QED
      BY <1>2, <3>1, GotoType DEF CreateVM, Return
  <2>2. machine' \in [st : {"none", "up", "gone", "stopped"}, left : Nat]
    BY <1>0, <1>2, LifeType DEF CreateVM
  <2>3. failures' \subseteq {"create", "open", "destroy", "reap"}
    BY <1>2, ZenonT(120) DEF CreateVM
  <2> QED
    BY <1>0, <1>2, <2>1, <2>2, <2>3
<1>3. CASE createConfidentialSpaceVM
           /\ UNCHANGED <<machine, keyfile, beat, conn, got, handle>>
  <2>1. cli' \in [pc : Labels, todo : Seq(Todos)]
    <3>1. {"vminfo", "destroy", "ready", "reap"} \subseteq Labels
      BY DEF Labels, Supervising
    <3> QED
      BY <1>3, <3>1, GotoType DEF createConfidentialSpaceVM, createAgentFirewall, Teardown
  <2>2. /\ firewall' \in {"none", "stale", "ours"}
        /\ failures' \subseteq {"create", "open", "destroy", "reap"}
    BY <1>3 DEF createConfidentialSpaceVM, createAgentFirewall
  <2> QED
    BY <1>0, <1>3, <2>1, <2>2
<1>4. ASSUME StartRenewal \/ StartAgent \/ waitForAgentEndpoint \/ RunOverATLS
                  \/ ClientAttest \/ attestDeadline \/ interruptOnCancel,
             UNCHANGED <<machine, firewall, keyfile, got, handle, failures>>,
             UNCHANGED conn \/ RunOverATLS
      PROVE  TypeOK'
  <2>1. beat' \in {"off", "idle", "due", "last"} /\ cli' \in [pc : Labels, todo : Seq(Todos)]
    <3>0. {"start", "ready", "dial", "handshake", "send"} \subseteq Labels
      BY DEF Labels, Supervising, Exchange
    <3>1. CASE Fail
      BY <3>1, FailType
    <3>2. CASE StartRenewal
      BY <3>0, <3>2 DEF StartRenewal
    <3>3. CASE StartAgent /\ ~Fail
      <4>1. PICK calls \in Seq(Todos) :
              /\ calls # <<>>
              /\ IF Len(calls) > 1 THEN cli' = [cli EXCEPT !.todo = Tail(calls)]
                 ELSE Goto("ready")
        <5>1. nitroStartAgent \in Seq(Todos) /\ azureSNPStartAgent \in Seq(Todos)
          BY DEF nitroStartAgent, azureSNPStartAgent, Todos
        <5>2. nitroStartAgent # <<>> /\ azureSNPStartAgent # <<>>
          BY DEF nitroStartAgent, azureSNPStartAgent
        <5> QED
          BY <3>3, <5>1, <5>2 DEF StartAgent
      <4>2. Tail(calls) \in Seq(Todos)
        BY <4>1, HeadTailProperties
      <4>3. UNCHANGED beat
        BY <3>3 DEF StartAgent
      <4> QED
        BY <3>0, <4>1, <4>2, <4>3, GotoType, ZenonT(120)
    <3>4. CASE waitForAgentEndpoint /\ ~Fail
      BY <3>0, <3>4, GotoType DEF waitForAgentEndpoint
    <3>5. CASE RunOverATLS /\ ~Fail
      BY <3>0, <3>5, GotoType DEF RunOverATLS
    <3>6. CASE ClientAttest /\ ~Fail
      BY <3>0, <3>6, GotoType DEF ClientAttest
    <3> QED
      BY <1>4, <3>1, <3>2, <3>3, <3>4, <3>5, <3>6 DEF attestDeadline, interruptOnCancel
  <2>2. conn' \in [Sessions -> {"closed", "queued", "attest", "request", "running", "answer"}]
    BY <1>4 DEF RunOverATLS, Sessions
  <2> QED
    BY <1>0, <1>4, <2>1, <2>2
<1>5. CASE ClientRun
           /\ UNCHANGED <<machine, firewall, keyfile, beat, conn, handle, failures>>
  <2>1. cli' \in [pc : Labels, todo : Seq(Todos)]
    BY <1>5, GotoType DEF ClientRun, Labels, Supervising, Exchange
  <2> QED
    BY <1>0, <1>5, <2>1 DEF ClientRun
<1>6. CASE ReadResult /\ UNCHANGED <<machine, firewall, keyfile, conn, got, failures>>
  <2>1. beat' \in {"off", "idle", "due", "last"} /\ cli' \in [pc : Labels, todo : Seq(Todos)]
    BY <1>6, FailType, GotoType DEF ReadResult, Stopped, Labels
  <2> QED
    BY <1>0, <1>6, <2>1
<1>7. CASE destroyOnErr /\ UNCHANGED <<keyfile, beat, got, handle>>
  <2>1. cli' \in [pc : Labels, todo : Seq(Todos)]
    BY <1>7, GotoType DEF destroyOnErr, deleteAgentFirewall, DestroyVM, Labels
  <2>2. /\ firewall' \in {"none", "stale", "ours"}
        /\ failures' \subseteq {"create", "open", "destroy", "reap"}
    BY <1>7 DEF destroyOnErr, deleteAgentFirewall, DestroyVM
  <2>3. /\ machine' \in [st : {"none", "up", "gone", "stopped"}, left : Nat]
        /\ conn' \in [Sessions -> {"closed", "queued", "attest", "request", "running", "answer"}]
    BY <1>7 DEF destroyOnErr, DestroyVM, Down
  <2> QED
    BY <1>0, <1>7, <2>1, <2>2, <2>3
<1>8. CASE Deferred /\ UNCHANGED <<machine, firewall, beat, conn, got, handle, failures>>
  <2>1. cli' \in [pc : Labels, todo : Seq(Todos)] /\ keyfile' \in BOOLEAN
    BY <1>8, GotoType DEF Deferred, Labels, Ended
  <2> QED
    BY <1>0, <1>8, <2>1
<1>9. CASE ClientHandshake
           /\ UNCHANGED <<machine, firewall, keyfile, beat, conn, got, handle, failures>>
  <2>1. cli' \in [pc : Labels, todo : Seq(Todos)]
    BY <1>9, GotoType DEF ClientHandshake, Labels, Supervising, Exchange
  <2> QED
    BY <1>0, <1>9, <2>1
<1> QED
  BY <1>1, <1>2, <1>3, <1>4, <1>5, <1>6, <1>7, <1>8, <1>9, ExecuteCases

\* Every step keeps the types.
LEMMA TypeStep ==
  ASSUME TypeOK, [Next]_vars
  PROVE  TypeOK'
<1>0. UNCHANGED <<plan, agent, front>> /\ plan \in Plans
  BY SettingStep DEF TypeOK
<1> USE DEF TypeOK
<1>1. CASE Dispatcher
  BY <1>1, ExecuteType
<1>2. CASE CleanUp
  <2>1. cli' \in [pc : Labels, todo : Seq(Todos)]
    BY <1>2, GotoType DEF CleanUp, Cleanup, DestroyVM, deleteAgentFirewall, Labels, Ended
  <2>2. /\ machine' \in [st : {"none", "up", "gone", "stopped"}, left : Nat]
        /\ conn' \in [Sessions -> {"closed", "queued", "attest", "request", "running", "answer"}]
    <3>1. UNCHANGED <<machine, conn>> \/ Down("gone")
      BY <1>2 DEF CleanUp, Cleanup, DestroyVM
    <3> QED
      BY <3>1 DEF Down
  <2>3. /\ firewall' \in {"none", "stale", "ours"}
        /\ failures' \subseteq {"create", "open", "destroy", "reap"}
    BY <1>2 DEF CleanUp, Cleanup, DestroyVM, deleteAgentFirewall
  <2>4. report' \in [success : BOOLEAN, errors : SUBSET {"vm", "firewall"}]
    <3>1. \/ report' = [success |-> TRUE, errors |-> {}]
          \/ report' = [success |-> FALSE, errors |-> {"vm"}]
          \/ report' = report
          \/ report' = [report EXCEPT !.errors = @ \cup {"firewall"}]
      <4>1. CASE failures' = failures
        BY <1>2, <4>1 DEF CleanUp, Cleanup
      <4>2. CASE failures' # failures
        BY <1>2, <4>2 DEF CleanUp, Cleanup
      <4> QED
        BY <4>1, <4>2
    <3>2. report \in [success : BOOLEAN, errors : SUBSET {"vm", "firewall"}]
      OBVIOUS
    <3>3. report.errors \cup {"firewall"} \in SUBSET {"vm", "firewall"}
      BY <3>2
    <3> HIDE DEF TypeOK
    <3>4. CASE report' = [report EXCEPT !.errors = @ \cup {"firewall"}]
      BY <3>2, <3>3, <3>4
    <3>5. CASE report' = [success |-> TRUE, errors |-> {}]
      BY <3>5
    <3>6. CASE report' = [success |-> FALSE, errors |-> {"vm"}]
      BY <3>6
    <3> QED
      BY <3>1, <3>2, <3>4, <3>5, <3>6
  <2> QED
    BY <1>0, <1>2, <2>1, <2>2, <2>3, <2>4 DEF CleanUp
<1>3. ASSUME NEW s \in Sessions, Agent(Server(s)) \/ Agent(defaultRunner(s))
      PROVE  TypeOK'
  <2>1. conn' \in [Sessions -> {"closed", "queued", "attest", "request", "running", "answer"}]
    BY <1>3 DEF Agent, Server, ServeATLSOn, ServerAttest, ServerRun, serveATLSConn,
                defaultRunner, Becomes
  <2>2. issued' \subseteq {"old", "run"}
    <3>1. issued' = issued \/ \E n \in OtherNonces : issued' = issued \cup {n}
      BY <1>3, Zenon DEF Agent, Server, ServeATLSOn, ServerAttest, ServerRun, serveATLSConn,
                         defaultRunner
    <3>2. OtherNonces \subseteq {"old", "run"} /\ issued \subseteq {"old", "run"}
      BY DEF OtherNonces
    <3> HIDE DEF TypeOK
    <3> QED
      BY <3>1, <3>2
  <2>3. got' \subseteq {"agent", "proxy"}
    BY <1>3 DEF Agent, Server, ServeATLSOn, ServerAttest, ServerRun, serveATLSConn,
                defaultRunner
  <2>4. result' \in {<<>>} \cup {<<c>> : c \in ExitCodes}
    BY <1>3 DEF Agent, Server, ServeATLSOn, ServerAttest, ServerRun, serveATLSConn,
                defaultRunner
  <2> QED
    BY <1>0, <1>3, <2>1, <2>2, <2>3, <2>4, Zenon DEF Agent
<1>4. CASE Agent(OtherClient)
  BY <1>0, <1>4 DEF Agent, OtherClient, Becomes, Sessions
<1>5. CASE World(Cancel) \/ World(Crash)
  <2>1. CASE World(Cancel)
    BY <2>1 DEF World, Cancel, Stopped
  <2>2. CASE World(Crash)
    <3>1. cli' \in [pc : Labels, todo : Seq(Todos)]
      BY <2>2, GotoType DEF World, Crash, Labels, Ended
    <3> QED
      BY <1>0, <2>2, <3>1 DEF World, Crash
  <2> QED
    BY <1>5, <2>1, <2>2
<1>6. CASE World(Tick)
  <2>1. /\ machine' \in [st : {"none", "up", "gone", "stopped"}, left : Nat]
        /\ conn' \in [Sessions -> {"closed", "queued", "attest", "request", "running", "answer"}]
    BY <1>6 DEF World, Tick, Down
  <2> QED
    BY <1>0, <1>6, <2>1 DEF World, Tick
<1>7. CASE World(renewWatchdogUntil)
  <2>1. machine' \in [st : {"none", "up", "gone", "stopped"}, left : Nat]
    BY <1>0, <1>7, LifeType DEF World, renewWatchdogUntil
  <2> QED
    BY <1>0, <1>7, <2>1 DEF World, renewWatchdogUntil
<1>8. CASE UNCHANGED vars
  BY <1>8 DEF vars
<1> QED
  BY <1>1, <1>2, <1>3, <1>4, <1>5, <1>6, <1>7, <1>8 DEF Next

(***************************************************************************)
(* The state of a confidential run keeps to its types.                     *)
(***************************************************************************)
THEOREM TypeCorrect == Spec => []TypeOK
BY TypeInit, TypeStep, PTL DEF Spec

-----------------------------------------------------------------------------
(***************************************************************************)
(* The sessions of the agent.                                              *)
(***************************************************************************)
\* A set of sessions has a size, and a smaller one a smaller size.
LEMMA SessionSets ==
  ASSUME NEW A \in SUBSET Sessions, NEW B \in SUBSET A
  PROVE  /\ IsFiniteSet(A) /\ Cardinality(A) \in Nat
         /\ Cardinality(B) \in Nat /\ Cardinality(B) <= Cardinality(A)
<1>1. IsFiniteSet(Sessions)
  <2>1. IsFiniteSet({"run"})
    BY FS_Singleton
  <2>2. IsFiniteSet({"run"} \cup {"other"})
    BY <2>1, FS_AddElement
  <2>3. Sessions = {"run"} \cup {"other"}
    BY DEF Sessions
  <2> QED
    BY <2>2, <2>3
<1>2. IsFiniteSet(A)
  BY <1>1, FS_Subset
<1> QED
  BY <1>2, FS_Subset, FS_CardinalityType

\* The agent accepts a session only while it has a free slot.
LEMMA ServingStep ==
  ASSUME TypeOK, ServesAtMostMaxConns, [Next]_vars
  PROVE  ServesAtMostMaxConns'
<1>0. Serving \in SUBSET Sessions /\ MaxConns \in Nat
  BY AttestedAssumption DEF Serving
<1>1. CASE Serving' \subseteq Serving
  BY <1>0, <1>1, SessionSets DEF ServesAtMostMaxConns
<1>2. ASSUME NEW s \in Sessions, ServeATLSOn(s)
      PROVE  ServesAtMostMaxConns'
  <2>1. Serving' \subseteq Serving \cup {s}
    BY <1>2 DEF TypeOK, ServeATLSOn, Becomes, Serving
  <2>2. /\ IsFiniteSet(Serving) /\ Cardinality(Serving) \in Nat
        /\ Cardinality(Serving) < MaxConns
    BY <1>0, <1>2, SessionSets DEF ServeATLSOn
  <2>3. Cardinality(Serving \cup {s}) <= Cardinality(Serving) + 1
    BY <2>2, FS_AddElement
  <2>4. /\ Cardinality(Serving') <= Cardinality(Serving \cup {s})
        /\ Cardinality(Serving') \in Nat /\ Cardinality(Serving \cup {s}) \in Nat
    BY <1>0, <2>1, SessionSets
  <2> QED
    BY <1>0, <2>2, <2>3, <2>4 DEF ServesAtMostMaxConns
<1>3. CASE UNCHANGED conn \/ conn' = [s \in Sessions |-> "closed"]
  BY <1>1, <1>3 DEF Serving
<1>4. ASSUME NEW s \in Sessions, NEW st, Becomes(s, st),
             conn[s] \in {"attest", "request", "running", "answer"} \/ st \in {"queued", "closed"}
      PROVE  Serving' \subseteq Serving
  BY <1>4 DEF TypeOK, Becomes, Serving
<1>5. CASE Dispatcher
  <2>1. CASE RunOverATLS
    <3>1. conn'["other"] = conn["other"] /\ conn'["run"] \in {"queued", conn["run"]}
      BY <2>1 DEF RunOverATLS, TypeOK, Sessions
    <3> QED
      BY <1>1, <3>1 DEF Serving, Sessions
  <2>2. CASE ~RunOverATLS
    <3>1. UNCHANGED conn \/ conn' = [s \in Sessions |-> "closed"]
      BY <1>5, <2>2, ExecuteCases DEF destroyOnErr, DestroyVM, Down, CreateVM
    <3> QED
      BY <1>3, <3>1
  <2> QED
    BY <2>1, <2>2
<1>6. CASE CleanUp
  BY <1>3, <1>6 DEF CleanUp, Cleanup, DestroyVM, Down
<1>7. ASSUME NEW s \in Sessions, Agent(Server(s)) \/ Agent(defaultRunner(s))
      PROVE  ServesAtMostMaxConns'
  BY <1>1, <1>2, <1>4, <1>7 DEF Agent, Server, ServerAttest, ServerRun, serveATLSConn,
                               defaultRunner
<1>8. CASE Agent(OtherClient)
  BY <1>1, <1>4, <1>8 DEF Agent, OtherClient, Sessions
<1>9. CASE World(Cancel) \/ World(Crash) \/ World(Tick) \/ World(renewWatchdogUntil)
  BY <1>3, <1>9 DEF World, Cancel, Crash, Tick, renewWatchdogUntil, Down
<1>10. CASE UNCHANGED vars
  BY <1>3, <1>10 DEF vars
<1> QED
  BY <1>5, <1>6, <1>7, <1>8, <1>9, <1>10 DEF Next

(***************************************************************************)
(* The agent serves at most MaxConns clients at a time, whoever connects   *)
(* and hangs up in whatever order (ServeATLSOn).                           *)
(***************************************************************************)
THEOREM SessionsBounded == Spec => []ServesAtMostMaxConns
<1>1. Init => ServesAtMostMaxConns
  <2> SUFFICES ASSUME Init PROVE ServesAtMostMaxConns
    OBVIOUS
  <2>1. Serving = {}
    BY DEF Init, Serving
  <2> QED
    BY <2>1, FS_EmptySet, AttestedAssumption DEF ServesAtMostMaxConns
<1> QED
  BY <1>1, ServingStep, TypeCorrect, PTL DEF Spec
-----------------------------------------------------------------------------
(***************************************************************************)
(* Attestation.                                                            *)
(***************************************************************************)
\* Every verifier compares the session the evidence commits to.
LEMMA VerifiedIsBound ==
  ASSUME NEW e, NEW p \in Plans, NEW nonce, NEW bind, Verified(e, p, nonce, bind)
  PROVE  e.bind = bind
<1>1. p.backend \in {"cs", "azure", "nitro"}
  BY AttestedAssumption DEF Backends
<1> QED
  BY <1>1 DEF Verified, CSValidator, verifyCSToken, AzureSNPValidator, NitroValidator

\* What the verifiers check is what the matrix says that they enforce.
LEMMA VouchedIsEnforced ==
  ASSUME plan \in Plans, Vouched, plan.image # Empty, NEW c \in Controls
  PROVE  LET claim == ConfidentialMatrix[plan.backend][c] IN
         /\ claim = "enforced" => Upholds(c, agent, plan)
         /\ claim = "fail-closed" => ~Requests(c, plan)
<1> DEFINE e == Evidence("run", "run")
           bind == bindData("agent", "run")
<1>0. /\ plan.backend \in {"cs", "azure", "nitro"} /\ e.claims = agent
      /\ c \in {"genuine", "measurement", "debugOff", "migrationOff", "minTCB", "revocation"}
  BY AttestedAssumption DEF Backends, Evidence, Controls
<1> HIDE DEF e, bind
<1>1. CASE plan.backend = "cs"
  <2>1. CSValidator(e, plan, "run", bind)
    BY <1>1 DEF Vouched, Verified, e, bind
  <2>2. /\ agent.chain /\ ~agent.debug /\ agent.image = plan.image
        /\ plan.minTCB = NoFloor
    BY <1>0, <2>1 DEF CSValidator, verifyCSToken, measurementAllowed
  <2>3. ConfidentialMatrix[plan.backend] =
          [genuine |-> "enforced", measurement |-> "enforced", debugOff |-> "enforced",
           migrationOff |-> "n/a", minTCB |-> "fail-closed", revocation |-> "n/a"]
    BY <1>1 DEF ConfidentialMatrix
  <2>4. CASE c \in {"migrationOff", "revocation"}
    BY <2>3, <2>4
  <2>5. CASE c = "minTCB"
    BY <2>2, <2>3, <2>5 DEF Requests
  <2>6. CASE c \in {"genuine", "measurement", "debugOff"}
    <3>1. ConfidentialMatrix[plan.backend][c] = "enforced"
      BY <2>3, <2>6
    <3> QED
      BY <2>2, <2>6, <3>1 DEF Upholds
  <2> QED
    BY <1>0, <2>4, <2>5, <2>6
<1>2. CASE plan.backend = "azure"
  <2>1. AzureSNPValidator(e, plan, "run", bind)
    BY <1>2 DEF Vouched, Verified, e, bind
  <2>2. /\ agent.chain /\ ~agent.debug /\ ~agent.migrate /\ agent.image = plan.image
        /\ agent.crl = "good" /\ \A k \in Components : agent.tcb[k] >= plan.minTCB[k]
    BY <1>0, <2>1 DEF AzureSNPValidator, verifyAzureSNP, verifyAzureSNPEvidence,
                      azureSNPCheckRevocation, tcbComponentsGTE
  <2>3. ConfidentialMatrix[plan.backend][c] = "enforced"
    <3>1. ConfidentialMatrix[plan.backend] = [k \in Controls |-> "enforced"]
      BY <1>2 DEF ConfidentialMatrix
    <3> QED
      BY <3>1
  <2> QED
    BY <1>0, <2>2, <2>3 DEF Upholds
<1>3. CASE plan.backend = "nitro"
  <2>1. NitroValidator(e, plan, "run", bind)
    BY <1>3 DEF Vouched, Verified, e, bind
  <2>2. agent.chain /\ agent.image = plan.image
    BY <1>0, <2>1 DEF NitroValidator, verifyNitroDoc
  <2>3. ConfidentialMatrix[plan.backend] =
          [genuine |-> "enforced", measurement |-> "enforced", debugOff |-> "n/a",
           migrationOff |-> "n/a", minTCB |-> "n/a", revocation |-> "n/a"]
    BY <1>3 DEF ConfidentialMatrix
  <2>4. CASE c \in {"debugOff", "migrationOff", "minTCB", "revocation"}
    BY <2>3, <2>4, SMTT(120)
  <2>5. CASE c \in {"genuine", "measurement"}
    <3>1. ConfidentialMatrix[plan.backend][c] = "enforced"
      BY <2>3, <2>5
    <3> QED
      BY <2>2, <2>5, <3>1 DEF Upholds
  <2> QED
    BY <1>0, <2>4, <2>5
<1> QED
  BY <1>0, <1>1, <1>2, <1>3

\* Nothing is attested before the first session.
LEMMA AttestInit == Init => AttestInv
<1> SUFFICES ASSUME Init PROVE AttestInv
  OBVIOUS
<1>1. plan.backend \in {"cs", "azure", "nitro"}
  BY AttestedAssumption DEF Init, Backends
<1>2. cli.pc = "preflight" /\ cli.todo = Preflight[plan.backend] /\ got = {} /\ handle = NoHandle
  BY DEF Init
<1>3. \E i \in 1..Len(cli.todo) : cli.todo[i] = ImageCheck
  <2>1. CASE plan.backend = "cs"
    <3>1. cli.todo = <<"gpu", "payload", "image", "allow", "egress">>
      BY <1>2, <2>1 DEF Preflight, csPreflight
    <3>2. 3 \in 1..Len(cli.todo) /\ cli.todo[3] = "image"
      BY <3>1
    <3> QED
      BY <2>1, <3>2 DEF ImageCheck
  <2>2. CASE plan.backend \in {"azure", "nitro"}
    <3> DEFINE azure == <<"pins", "key", "egress">>
               nitro == <<"pins", "ami", "key", "egress">>
    <3>1. azure \in Seq(Todos) /\ nitro \in Seq(Todos) /\ sshPreflight \in Seq(Todos)
      BY DEF sshPreflight, Todos
    <3>2. \/ cli.todo = azure \o sshPreflight
          \/ cli.todo = nitro \o sshPreflight
      <4>1. azurePreflight = azure \o sshPreflight /\ nitroPreflight = nitro \o sshPreflight
        BY Zenon DEF azurePreflight, nitroPreflight
      <4>2. cli.todo \in {azurePreflight, nitroPreflight}
        BY <1>2, <2>2 DEF Preflight
      <4> QED
        BY <4>1, <4>2, Zenon
    <3>3. Len(azure) = 3 /\ azure[1] = "pins" /\ Len(nitro) = 4 /\ nitro[1] = "pins"
      OBVIOUS
    <3> HIDE DEF azure, nitro
    <3>4. 1 \in 1..Len(cli.todo) /\ cli.todo[1] = "pins"
      <4>1. ASSUME NEW s \in Seq(Todos), Len(s) \in {3, 4}, s[1] = "pins"
            PROVE  LET all == s \o sshPreflight IN 1 \in 1..Len(all) /\ all[1] = "pins"
        <5>1. Len(s \o sshPreflight) = Len(s) + Len(sshPreflight)
              /\ (s \o sshPreflight)[1] = s[1] /\ Len(sshPreflight) \in Nat
          BY <3>1, <4>1
        <5> QED BY <4>1, <5>1
      <4> QED
        BY <3>1, <3>2, <3>3, <4>1, Zenon
    <3> QED
      BY <2>2, <3>4 DEF ImageCheck
  <2> QED
    BY <1>1, <2>1, <2>2
<1> QED
  BY <1>2, <1>3 DEF AttestInv

\* Every step keeps what the dispatcher knows of the session it is in.
LEMMA AttestStep ==
  ASSUME TypeOK, AttestInv, [Next]_vars
  PROVE  AttestInv'
<1>0. /\ plan' = plan /\ front' = front /\ plan \in Plans
      /\ (Vouched <=> Vouched') /\ ImageCheck' = ImageCheck
      /\ front \in {"agent", "proxy"} /\ cli \in [pc : Labels, todo : Seq(Todos)]
  BY SettingStep DEF TypeOK, Vouched, Evidence, ImageCheck
<1>1. ASSUME cli' = cli \/ cli'.pc \notin {"preflight", "send", "await"},
             plan.image = Empty => cli' = cli \/ cli'.pc \in {"return", "failed", "dead"},
             UNCHANGED <<got, handle>>
      PROVE  AttestInv'
  BY <1>0, <1>1 DEF AttestInv
<1>2. CASE Dispatcher
  <2>1. CASE Check /\ UNCHANGED <<machine, firewall, beat, conn, got, handle, failures>>
    <3>1. CASE cli' = [cli EXCEPT !.todo = Tail(@)] /\ ~Refused(Head(cli.todo))
      <4>1. cli'.pc = "preflight" /\ cli'.todo = Tail(cli.todo) /\ cli.todo # <<>>
            /\ cli.todo \in Seq(Todos)
        BY <1>0, <2>1, <3>1 DEF Check
      <4>2. ASSUME plan.image = Empty
            PROVE  \E i \in 1..Len(Tail(cli.todo)) : Tail(cli.todo)[i] = ImageCheck
        <5>1. PICK i \in 1..Len(cli.todo) : cli.todo[i] = ImageCheck
          BY <2>1, <4>2 DEF AttestInv, Check
        <5>2. Head(cli.todo) # ImageCheck
          BY <3>1, <4>2 DEF Refused, ImageCheck, buildAndPushAgentImage
        <5>3. i # 1
          BY <4>1, <5>1, <5>2
        <5>4. i - 1 \in 1..Len(Tail(cli.todo)) /\ Tail(cli.todo)[i - 1] = cli.todo[i]
          BY <4>1, <5>1, <5>3
        <5> QED
          BY <5>1, <5>4
      <4> QED
        BY <1>0, <2>1, <4>1, <4>2 DEF AttestInv
    <3>2. CASE Return
      BY <1>1, <2>1, <3>2 DEF Return, Goto
    <3> QED
      BY <2>1, <3>1, <3>2 DEF Check
  <2>2. CASE CreateVM /\ UNCHANGED <<firewall, keyfile, beat, conn, got, handle>>
    <3>1. plan.image # Empty
      <4>1. cli.pc = "preflight" /\ Len(cli.todo) = 0
        BY <2>2 DEF CreateVM
      <4> QED
        BY <4>1 DEF AttestInv
    <3>2. cli'.pc \in {"return", "firewall", "pin", "start"}
      BY <2>2, SMTT(120) DEF CreateVM, Return, Goto, AfterCreate
    <3> QED
      BY <1>1, <2>2, <3>1, <3>2
  <2>3. ASSUME cli.pc \notin {"preflight", "return", "failed", "dead"}
        PROVE  plan.image # Empty
    BY <2>3 DEF AttestInv
  <2>4. CASE createConfidentialSpaceVM
             /\ UNCHANGED <<machine, keyfile, beat, conn, got, handle>>
    <3>1. /\ cli.pc \in {"firewall", "vminfo"}
          /\ cli'.pc \in {"vminfo", "destroy", "ready", "reap"}
      BY <2>4 DEF createConfidentialSpaceVM, createAgentFirewall, Goto, Teardown
    <3> QED
      BY <1>1, <2>3, <2>4, <3>1
  <2>5. ASSUME StartRenewal \/ StartAgent \/ waitForAgentEndpoint \/ RunOverATLS
                  \/ ClientAttest \/ attestDeadline \/ interruptOnCancel,
               UNCHANGED <<machine, firewall, keyfile, got, handle, failures>>
        PROVE  AttestInv'
    <3>0. plan.image # Empty
      BY <2>3, <2>5 DEF StartRenewal, StartAgent, waitForAgentEndpoint, RunOverATLS,
                        ClientAttest, attestDeadline, interruptOnCancel, Exchange
    <3>1. CASE cli'.pc \notin {"preflight", "send", "await"}
      BY <1>1, <2>5, <3>0, <3>1
    <3>2. CASE Fail
      BY <3>1, <3>2, FailType
    <3>3. CASE StartAgent /\ ~Fail
      <4>1. cli'.pc \in {"start", "ready"}
        BY <1>0, <3>3 DEF StartAgent, Goto
      <4> QED
        BY <3>1, <4>1
    <3>4. CASE (StartRenewal \/ waitForAgentEndpoint \/ RunOverATLS) /\ ~Fail
      BY <3>1, <3>4 DEF StartRenewal, waitForAgentEndpoint, RunOverATLS, Goto
    <3>5. CASE ClientAttest /\ ~Fail
      <4>1. PICK e \in Arriving : Verified(e, plan, "run", bindData(front, "run"))
        BY <3>5 DEF ClientAttest
      <4>2. cli'.pc = "send"
        BY <3>5 DEF ClientAttest, Goto
      <4>3. e.bind = <<front, "run">>
        BY <1>0, <4>1, VerifiedIsBound DEF bindData
      <4>4. front = "agent" /\ e = Evidence("run", "run")
        <5>1. CASE front = "proxy"
          <6>1. PICK n \in issued : e = Evidence(n, "other")
            BY <4>1, <5>1 DEF Arriving
          <6>2. e.bind = <<"agent", "other">>
            BY <6>1 DEF Evidence, bindData
          <6> QED
            BY <4>3, <5>1, <6>2
        <5> QED
          BY <1>0, <4>1, <5>1 DEF Arriving
      <4> QED
        BY <1>0, <2>5, <3>0, <4>1, <4>2, <4>4 DEF AttestInv, Vouched
    <3> QED
      BY <2>5, <3>2, <3>3, <3>4, <3>5 DEF attestDeadline, interruptOnCancel
  <2>6. CASE ClientHandshake
             /\ UNCHANGED <<machine, firewall, keyfile, beat, conn, got, handle, failures>>
    BY <1>1, <2>3, <2>6 DEF ClientHandshake, Goto
  <2>7. CASE ClientRun
             /\ UNCHANGED <<machine, firewall, keyfile, beat, conn, handle, failures>>
    <3>1. cli.pc = "send" /\ cli'.pc = "await"
      BY <2>7 DEF ClientRun, Goto
    <3>2. front = "agent" /\ Vouched /\ got' = got
      BY <2>7, <3>1 DEF ClientRun, AttestInv
    <3> QED
      BY <1>0, <2>3, <2>7, <3>1, <3>2 DEF AttestInv
  <2>8. CASE ReadResult /\ UNCHANGED <<machine, firewall, keyfile, conn, got, failures>>
    <3>1. cli.pc = "await" /\ plan.image # Empty /\ cli'.pc \in {"return", "reap", "destroy"}
      <4>1. cli.pc = "await" /\ (Goto("return") \/ Fail)
        BY <2>8 DEF ReadResult
      <4> QED
        BY <2>3, <4>1, FailType DEF Goto
    <3> QED
      BY <1>0, <2>8, <3>1 DEF AttestInv
  <2>9. CASE destroyOnErr /\ UNCHANGED <<keyfile, beat, got, handle>>
    <3>1. cli.pc \in {"reap", "destroy"} /\ cli'.pc \in {"destroy", "return"}
      BY <2>9 DEF destroyOnErr, deleteAgentFirewall, DestroyVM, Goto
    <3> QED
      BY <1>1, <2>3, <2>9, <3>1
  <2>10. CASE Deferred /\ UNCHANGED <<machine, firewall, beat, conn, got, handle, failures>>
    <3>1. cli'.pc \in {"failed", "returned"} /\ (handle = NoHandle => cli'.pc = "failed")
      BY <2>10 DEF Deferred, Goto
    <3>2. plan.image = Empty => handle = NoHandle
      BY DEF AttestInv
    <3> QED
      BY <1>1, <2>10, <3>1, <3>2
  <2> QED
    BY <1>2, <2>1, <2>2, <2>4, <2>5, <2>6, <2>7, <2>8, <2>9, <2>10, ExecuteCases
<1>3. CASE CleanUp
  <2>1. /\ cli.pc \in {"returned", "firewall of cleanup"}
        /\ cli'.pc \in {"firewall of cleanup", "cleaned"}
    <3>1. CASE cli.pc = "returned"
      <4>1. DestroyVM(IF plan.backend = "cs" THEN "firewall of cleanup" ELSE "cleaned")
        BY <1>3, <3>1 DEF CleanUp, Cleanup
      <4>2. cli'.pc = IF plan.backend = "cs" THEN "firewall of cleanup" ELSE "cleaned"
        BY <4>1, DestroyStep
      <4> QED
        BY <3>1, <4>2
    <3>2. CASE cli.pc = "firewall of cleanup"
      <4>1. deleteAgentFirewall("cleaned")
        BY <1>3, <3>2 DEF CleanUp, Cleanup
      <4> QED
        BY <3>2, <4>1 DEF deleteAgentFirewall, Goto
    <3> QED
      BY <1>3, <3>1, <3>2 DEF CleanUp, Cleanup
  <2> QED
    BY <1>1, <1>3, <2>1 DEF CleanUp, AttestInv
<1>4. ASSUME NEW s \in Sessions, Agent(Server(s)) \/ Agent(defaultRunner(s))
      PROVE  AttestInv'
  <2>1. UNCHANGED <<cli, handle>>
    BY <1>4 DEF Agent
  <2>2. CASE got' = got
    BY <1>1, <2>1, <2>2
  <2>3. CASE got' # got
    <3>1. s = "run" /\ cli.pc = "await" /\ got' = got \cup {"agent"}
      BY <1>4, <2>3 DEF Agent, Server, ServeATLSOn, ServerAttest, ServerRun,
                        serveATLSConn, defaultRunner
    <3>2. Vouched /\ plan.image # Empty
      BY <3>1 DEF AttestInv
    <3> QED
      BY <1>0, <2>1, <3>1, <3>2 DEF AttestInv
  <2> QED
    BY <2>2, <2>3
<1>5. CASE Agent(OtherClient)
  BY <1>1, <1>5 DEF Agent, OtherClient
<1>6. CASE World(Cancel) \/ World(Crash) \/ World(Tick) \/ World(renewWatchdogUntil)
  <2>1. UNCHANGED <<got, handle>> /\ (cli' = cli \/ cli'.pc = "dead")
    BY <1>6 DEF World, Cancel, Crash, Tick, renewWatchdogUntil, Goto
  <2> QED
    BY <1>1, <2>1
<1>7. CASE UNCHANGED vars
  BY <1>1, <1>7 DEF vars
<1> QED
  BY <1>2, <1>3, <1>4, <1>5, <1>6, <1>7 DEF Next

\* The dispatcher knows whom it talks to.
LEMMA AttestCorrect == Spec => []AttestInv
BY AttestInit, AttestStep, TypeCorrect, PTL DEF Spec

(***************************************************************************)
(* The source and the secrets reach an agent only if it upholds every      *)
(* control that the published matrix calls enforced on its back end, for   *)
(* every agent that may answer and every plan (the validators of           *)
(* atls_validators.go, the refusals of the three adapters).                *)
(***************************************************************************)
THEOREM MatrixCorrect == Spec => []MatrixIsEnforced
<1>1. TypeOK /\ AttestInv => MatrixIsEnforced
  BY VouchedIsEnforced DEF TypeOK, AttestInv, MatrixIsEnforced
<1> QED
  BY <1>1, TypeCorrect, AttestCorrect, PTL

(***************************************************************************)
(* What stands between dispatcher and the TEE never gets the payload: its  *)
(* evidence commits to another session (atls.go).                          *)
(***************************************************************************)
THEOREM BindingCorrect == Spec => []BoundToTheSession
<1>1. AttestInv => BoundToTheSession
  BY DEF AttestInv, BoundToTheSession
<1> QED
  BY <1>1, AttestCorrect, PTL
-----------------------------------------------------------------------------
(***************************************************************************)
(* Teardown.                                                               *)
(***************************************************************************)
LEMMA TeardownInit == Init => TeardownInv
BY SMTT(120) DEF Init, TeardownInv, Supervising, Exchange

\* Every step keeps the account of the machine and of the firewall rule.
LEMMA TeardownStep ==
  ASSUME TypeOK, AttestInv, TeardownInv, [Next]_vars
  PROVE  TeardownInv'
<1>0. plan' = plan /\ cli \in [pc : Labels, todo : Seq(Todos)]
  BY SettingStep DEF TypeOK
<1> USE DEF MachineAccounted, RuleAccounted, Supervising, Exchange
<1>1. ASSUME UNCHANGED <<cli, firewall, keyfile, handle, report, failures>>,
             machine'.st = machine.st \/ (machine.st = "up" /\ machine'.st # "up")
      PROVE  TeardownInv'
  BY <1>0, <1>1 DEF TeardownInv
<1>2. ASSUME cli.pc \in {"firewall", "vminfo", "pin"} \cup Supervising,
             cli'.pc \in {"pin", "reap"} \cup Supervising
               \/ (cli'.pc = "destroy" /\ plan.backend # "cs"),
             cli'.pc = "reap" => plan.backend = "cs",
             UNCHANGED <<machine, firewall, keyfile, handle, report, failures>>
      PROVE  TeardownInv'
  BY <1>0, <1>2 DEF TeardownInv
<1>3. CASE Dispatcher
  <2>0. report' = report
    BY <1>3 DEF Dispatcher
  <2>1. CASE Check /\ UNCHANGED <<machine, firewall, beat, conn, got, handle, failures>>
    <3>1. cli.pc = "preflight" /\ cli'.pc \in {"preflight", "return"}
      BY <1>0, <2>1 DEF Check, Return, Goto
    <3> QED
      BY <1>0, <2>0, <2>1, <3>1 DEF TeardownInv
  <2>2. CASE CreateVM /\ UNCHANGED <<firewall, keyfile, beat, conn, got, handle>>
    <3>0. cli.pc = "preflight"
      BY <2>2 DEF CreateVM
    <3>1. CASE Goto(AfterCreate) /\ UNCHANGED failures
      <4>1. /\ cli'.pc \in {"firewall", "pin", "start"}
            /\ cli'.pc = "firewall" => plan.backend = "cs"
        BY <3>1 DEF Goto, AfterCreate
      <4> QED
        BY <1>0, <2>0, <2>2, <3>0, <3>1, <4>1 DEF TeardownInv
    <3>2. CASE Return /\ (UNCHANGED machine \/ failures' = failures \cup {"create"})
      <4>1. cli'.pc = "return"
        BY <3>2 DEF Return, Goto
      <4> QED
        BY <1>0, <2>0, <2>2, <3>0, <3>2, <4>1 DEF TeardownInv
    <3> QED
      BY <2>2, <3>1, <3>2 DEF CreateVM
  <2>3. CASE createConfidentialSpaceVM
             /\ UNCHANGED <<machine, keyfile, beat, conn, got, handle>>
    <3>0. cli.pc \in {"firewall", "vminfo"} /\ plan.backend = "cs"
      BY <2>3 DEF createConfidentialSpaceVM, TeardownInv
    <3>1. CASE cli'.pc \in {"vminfo", "ready", "reap"} /\ UNCHANGED failures
      BY <1>0, <2>0, <2>3, <3>0, <3>1 DEF TeardownInv
    <3>2. CASE cli'.pc = "destroy" /\ failures' = failures \cup {"open"}
      BY <1>0, <2>0, <2>3, <3>0, <3>2 DEF TeardownInv
    <3> QED
      BY <2>3, <3>0, <3>1, <3>2
         DEF createConfidentialSpaceVM, createAgentFirewall, Goto, Teardown
  <2>4. ASSUME StartRenewal \/ StartAgent \/ waitForAgentEndpoint \/ RunOverATLS
                  \/ ClientAttest \/ attestDeadline \/ interruptOnCancel,
               UNCHANGED <<machine, firewall, keyfile, got, handle, failures>>
        PROVE  TeardownInv'
    <3>0. cli.pc \in {"firewall", "vminfo", "pin"} \cup Supervising
      BY <2>4 DEF StartRenewal, StartAgent, waitForAgentEndpoint, RunOverATLS,
                  ClientAttest, attestDeadline, interruptOnCancel
    <3>1. CASE Fail
      BY <1>2, <2>0, <2>4, <3>0, <3>1, FailType
    <3>2. CASE ~Fail
      <4>1. cli'.pc \in Supervising
        <5>1. CASE StartAgent
          BY <1>0, <3>2, <5>1 DEF StartAgent, Goto
        <5>2. CASE ~StartAgent
          BY <2>4, <3>2, <5>2 DEF StartRenewal, waitForAgentEndpoint, RunOverATLS,
                                  ClientAttest, attestDeadline, interruptOnCancel, Goto
        <5> QED
          BY <5>1, <5>2
      <4> QED
        BY <1>2, <2>0, <2>4, <3>0, <4>1
    <3> QED
      BY <3>1, <3>2
  <2>5. CASE ClientHandshake
             /\ UNCHANGED <<machine, firewall, keyfile, beat, conn, got, handle, failures>>
    BY <1>2, <2>0, <2>5 DEF ClientHandshake, Goto
  <2>6. CASE ClientRun
             /\ UNCHANGED <<machine, firewall, keyfile, beat, conn, handle, failures>>
    BY <1>2, <2>0, <2>6 DEF ClientRun, Goto
  <2>7. CASE ReadResult /\ UNCHANGED <<machine, firewall, keyfile, conn, got, failures>>
    <3>0. cli.pc = "await" /\ plan.image # Empty
      BY <2>7 DEF ReadResult, AttestInv
    <3>1. CASE Fail /\ UNCHANGED handle
      BY <1>2, <2>0, <2>7, <3>0, <3>1, FailType
    <3>2. CASE Goto("return") /\ handle' = [image |-> plan.image, exit |-> result[1]]
      <4>1. cli'.pc = "return" /\ handle' # NoHandle
        BY <3>0, <3>2 DEF Goto, NoHandle
      <4> QED
        BY <1>0, <2>0, <2>7, <3>0, <4>1 DEF TeardownInv
    <3> QED
      BY <2>7, <3>1, <3>2 DEF ReadResult
  <2>8. CASE destroyOnErr /\ UNCHANGED <<keyfile, beat, got, handle>>
    <3>0. handle = NoHandle
      BY <2>8 DEF destroyOnErr, TeardownInv
    <3>1. CASE cli.pc = "reap" /\ deleteAgentFirewall("destroy") /\ UNCHANGED <<machine, conn>>
      <4>1. cli'.pc = "destroy"
        BY <3>1 DEF deleteAgentFirewall, Goto
      <4>2. firewall' = "none" \/ failures' = failures \cup {"reap"}
        BY <3>1 DEF deleteAgentFirewall
      <4>3. plan.backend = "cs"
        BY <3>1 DEF TeardownInv
      <4> QED
        BY <1>0, <2>0, <2>8, <3>0, <3>1, <4>1, <4>2, <4>3 DEF TeardownInv
    <3>2. CASE cli.pc = "destroy" /\ DestroyVM("return") /\ UNCHANGED firewall
      <4>1. cli'.pc = "return"
        BY <3>2, DestroyStep
      <4>2. failures \subseteq failures' /\ (machine'.st = "up" => "destroy" \in failures')
        BY <3>2, DestroyStep
      <4> QED
        BY <1>0, <2>0, <2>8, <3>0, <3>2, <4>1, <4>2 DEF TeardownInv
    <3> QED
      BY <2>8, <3>1, <3>2 DEF destroyOnErr
  <2>9. CASE Deferred /\ UNCHANGED <<machine, firewall, beat, conn, got, handle, failures>>
    <3>1. cli.pc = "return" /\ cli'.pc = (IF handle = NoHandle THEN "failed" ELSE "returned")
          /\ ~keyfile'
      BY <2>9 DEF Deferred, Goto
    <3>2. CASE handle = NoHandle
      BY <1>0, <2>0, <2>9, <3>1, <3>2 DEF TeardownInv
    <3>3. CASE handle # NoHandle
      BY <1>0, <2>0, <2>9, <3>1, <3>3 DEF TeardownInv
    <3> QED
      BY <3>2, <3>3
  <2> QED
    BY <1>3, <2>1, <2>2, <2>3, <2>4, <2>5, <2>6, <2>7, <2>8, <2>9, ExecuteCases
<1>4. CASE CleanUp
  <2>0. keyfile' = keyfile /\ handle' = handle
    BY <1>4 DEF CleanUp
  <2>1. CASE cli.pc = "returned"
    <3> DEFINE then == IF plan.backend = "cs" THEN "firewall of cleanup" ELSE "cleaned"
    <3>1. /\ DestroyVM(then) /\ firewall' = firewall
          /\ failures' # failures =>
               report' = [success |-> FALSE, errors |-> {"vm"}]
      BY <1>4, <2>1 DEF CleanUp, Cleanup
    <3> HIDE DEF then
    <3>2. failures = {}
      BY <2>1 DEF TeardownInv
    <3>3. /\ cli'.pc = then
          /\ machine'.st = "gone" \/ failures' = {"destroy"}
          /\ "reap" \notin failures'
      BY <3>1, <3>2, DestroyStep
    <3>4. machine'.st = "up" =>
            "destroy" \in failures' /\ ~report'.success /\ "vm" \in report'.errors
      BY <3>1, <3>2, <3>3
    <3>5. then \in {"firewall of cleanup", "cleaned"}
          /\ (then = "firewall of cleanup" <=> plan.backend = "cs")
      BY DEF then
    <3>6. ~keyfile' /\ (plan.backend # "cs" => firewall' = "none")
      BY <2>0, <2>1, <3>1 DEF TeardownInv
    <3> QED
      BY <1>0, <2>0, <3>3, <3>4, <3>5, <3>6 DEF TeardownInv
  <2>2. CASE cli.pc = "firewall of cleanup"
    <3>1. /\ deleteAgentFirewall("cleaned") /\ machine' = machine
          /\ report' = IF failures' = failures THEN report
                       ELSE [report EXCEPT !.errors = @ \cup {"firewall"}]
      BY <1>4, <2>2 DEF CleanUp, Cleanup
    <3>2. cli'.pc = "cleaned" /\ plan.backend = "cs" /\ ~keyfile' /\ "reap" \notin failures
      BY <2>0, <2>2, <3>1 DEF deleteAgentFirewall, Goto, TeardownInv
    <3>3. \/ firewall' = "none" /\ failures' = failures
          \/ failures' = failures \cup {"reap"}
      BY <3>1 DEF deleteAgentFirewall
    <3>4. report'.success = report.success /\ report.errors \subseteq report'.errors
          /\ (failures' # failures => "firewall" \in report'.errors)
      BY <3>1 DEF TypeOK
    <3>5. /\ machine'.st = "up" =>
               "destroy" \in failures' /\ ~report'.success /\ "vm" \in report'.errors
          /\ firewall' = "ours" => "reap" \in failures' /\ "firewall" \in report'.errors
      BY <2>2, <3>1, <3>2, <3>3, <3>4 DEF TeardownInv
    <3> QED
      BY <1>0, <2>0, <3>2, <3>5 DEF TeardownInv
  <2> QED
    BY <1>4, <2>1, <2>2 DEF CleanUp, Cleanup
<1>5. CASE \E s \in Sessions : Agent(Server(s)) \/ Agent(defaultRunner(s))
  BY <1>1, <1>5 DEF Agent
<1>6. CASE Agent(OtherClient)
  BY <1>1, <1>6 DEF Agent
<1>7. CASE World(Cancel) \/ World(Tick) \/ World(renewWatchdogUntil)
  <2>1. machine'.st = machine.st \/ (machine.st = "up" /\ machine'.st # "up")
    BY <1>7 DEF World, Cancel, Tick, renewWatchdogUntil, Down, TypeOK
  <2> QED
    BY <1>1, <1>7, <2>1 DEF World, Cancel, Tick, renewWatchdogUntil
<1>8. CASE World(Crash)
  <2>1. cli'.pc = "dead"
    BY <1>8 DEF World, Crash, Goto
  <2> QED
    BY <1>0, <1>8, <2>1 DEF World, Crash, TeardownInv
<1>9. CASE UNCHANGED vars
  BY <1>1, <1>9 DEF vars
<1> QED
  BY <1>3, <1>4, <1>5, <1>6, <1>7, <1>8, <1>9 DEF Next

(***************************************************************************)
(* What a confidential run leaves behind is what a provider refused to     *)
(* delete or made in a call it reported as failed, and Cleanup reports it; *)
(* no key file stays.  For every plan and at whatever point the run fails  *)
(* or is cancelled (destroyOnErr and Cleanup of the adapters).             *)
(***************************************************************************)
THEOREM TeardownCorrect == Spec => []NothingLeftSilently
<1>1. TeardownInv => NothingLeftSilently
  BY DEF TeardownInv, NothingLeftSilently, MachineAccounted, RuleAccounted
<1>2. Spec => []TeardownInv
  BY TeardownInit, TeardownStep, TypeCorrect, AttestCorrect, PTL DEF Spec
<1> QED
  BY <1>1, <1>2, PTL
=============================================================================
