----------------------------- MODULE AttestedRun -----------------------------
(***************************************************************************)
(* A confidential run (internal/cloudvm/confidential_*.go) and the agent   *)
(* inside the TEE that serves it (internal/attest/agent, .../atls).        *)
(*                                                                         *)
(* Execute boots a machine, opens the agent's port, attests the agent over *)
(* a TLS session, and only then sends it the source and the secrets and    *)
(* waits, on the same session, for the result.  The back ends are GCP      *)
(* Confidential Space (cs), a measured Azure machine (azure) and an AWS    *)
(* Nitro enclave (nitro).                                                  *)
(*                                                                         *)
(* What answers at the machine's address is the agent, or an intermediary  *)
(* outside the TEE (a parent's proxy, a machine that has taken over the    *)
(* address), which can open a session of its own with the agent and hand   *)
(* on what it gets.  The agent is any of Agents: the image the run pins,   *)
(* or one that differs from it.                                            *)
(*                                                                         *)
(* Time is what is left of the machine's life; Tick counts it down.        *)
(***************************************************************************)
EXTENDS Attestation, FiniteSets

CONSTANTS
  Plans,      \* the runs to check
  Agents,     \* Agents[b]: the agents that may answer on back end b
  TTL,        \* the default of the watchdog: three of its renewal periods
  MaxConns    \* the connections an agent serves at once (16 in the code)

ASSUME AttestedAssumption ==
  /\ TTL \in Nat \ {0} /\ MaxConns \in Nat \ {0}
  /\ \A b \in Backends : Agents[b] \subseteq Claims
  /\ \A p \in Plans : p.backend \in Backends /\ p.maxDuration \in Nat /\ p.ttl \in Nat

VARIABLES
  plan,     \* the run
  agent,    \* the agent on its machine
  front,    \* what answers at the machine's address: "agent" or "proxy"
  cli,      \* Execute: where it is and the checks or steps still to do
  cancelled,\* the run's context is cancelled: deadline, budget or Ctrl-C
  machine,  \* the machine and what is left of its life (0: no limit)
  firewall, \* the rule for the agent's port: none, stale, or this run's
  keyfile,  \* the run's key pair is in the state directory
  beat,     \* the goroutine that renews the machine's deadline
  conn,     \* the agent's side of each session
  issued,   \* evidence the intermediary holds
  got,      \* who has received the run's payload
  result,   \* the workload's exit code, once it has one
  handle,   \* what Execute returned: the verified measurement, the exit code
  report,   \* what Cleanup returned
  failures  \* calls that failed after a machine or rule was there

vars == <<plan, agent, front, cli, cancelled, machine, firewall, keyfile,
          beat, conn, issued, got, result, handle, report,
          failures>>

\* The session dispatcher opens, and the one anybody else does.
Sessions == {"run", "other"}
ExitCodes == {-1, 0, 1}
NoHandle == [image |-> Empty, exit |-> 0]
NoReport == [success |-> FALSE, errors |-> {}]

Ended == {"returned", "failed", "dead", "firewall of cleanup", "cleaned"}
\* The exchange with the agent.
Exchange == {"handshake", "evidence", "send", "await"}
\* Execute has a machine and has not given up on it.
Supervising == {"start", "ready", "dial"} \cup Exchange

(***************************************************************************)
(* What Execute checks and prepares before it creates a machine, in order. *)
(***************************************************************************)
csPreflight == <<"gpu", "payload", "image", "allow", "egress">>

sshPreflight == <<"allow", "gpu", "payload">>

azurePreflight == <<"pins", "key", "egress">> \o sshPreflight

nitroPreflight == <<"pins", "ami", "key", "egress">> \o sshPreflight

Preflight == [cs |-> csPreflight, azure |-> azurePreflight,
              nitro |-> nitroPreflight]

\* The workload author's allowlist; empty, the pins alone decide.
enforceWorkloadMeasurements(allow, attested) == allow = {} \/ attested \in allow

\* The image the registry says it holds, once built and pushed, must be one.
buildAndPushAgentImage(digest) == digest # Empty

\* Checks that look at the plan alone, and those that do not see the context.
Decided == {"pins", "gpu", "allow"}
Local == Decided \cup {"payload"}

Refused(check) ==
  \/ check = "pins" /\ (plan.image = Empty \/ (plan.backend = "azure" /\ plan.launch = Empty))
  \/ check = "gpu" /\ plan.gpu
  \/ check = "image" /\ ~buildAndPushAgentImage(plan.image)
  \/ check = "allow" /\ ~enforceWorkloadMeasurements(plan.allow, plan.image)

Init ==
  /\ plan \in Plans
  /\ agent \in Agents[plan.backend]
  /\ front \in {"agent", "proxy"}
  /\ cli = [pc |-> "preflight", todo |-> Preflight[plan.backend]]
  /\ cancelled = FALSE
  /\ machine = [st |-> "none", left |-> 0]
  /\ firewall \in (IF plan.backend = "cs" THEN {"none", "stale"} ELSE {"none"})
  /\ keyfile = FALSE /\ beat = "off"
  /\ conn = [s \in Sessions |-> "closed"]
  /\ issued = {} /\ got = {} /\ result = <<>>
  /\ handle = NoHandle /\ report = NoReport /\ failures = {}

-----------------------------------------------------------------------------
(***************************************************************************)
(* How Execute ends.                                                       *)
(***************************************************************************)
Goto(pc) == cli' = [pc |-> pc, todo |-> <<>>]

\* close(stopRenew): a renewal that is under way may still get through.
Stopped(b) == IF b = "due" THEN "last" ELSE "off"

\* An error before there is a machine to take down, and one after it.
Return == Goto("return")

Teardown == Goto(IF plan.backend = "cs" THEN "reap" ELSE "destroy")

\* The machine is gone, and with it every session of the agent.
Down(st) ==
  /\ machine' = [st |-> st, left |-> 0]
  /\ conn' = [s \in Sessions |-> "closed"]

\* Mutant: the teardown runs under the context of the run.
MutDestroyVM(then) ==
  \/ /\ ~cancelled
     /\ Down("gone") /\ Goto(then) /\ UNCHANGED failures
  \/ cancelled /\ Goto(then) /\ UNCHANGED <<machine, conn, failures>>

\* DestroyVM under a context of its own: nothing but the call can fail.
DestroyVM(then) ==
  \/ Down("gone") /\ Goto(then) /\ UNCHANGED failures
  \/ /\ failures' = failures \cup {"destroy"}
     /\ Goto(then) /\ UNCHANGED <<machine, conn>>

deleteAgentFirewall(then) ==
  /\ \/ firewall' = "none" /\ UNCHANGED failures
     \/ failures' = failures \cup {"reap"} /\ UNCHANGED firewall
  /\ Goto(then)

\* The deferred teardown of a run that failed.
destroyOnErr ==
  \/ /\ cli.pc = "reap" /\ deleteAgentFirewall("destroy")
     /\ UNCHANGED <<machine, conn>>
  \/ cli.pc = "destroy" /\ DestroyVM("return") /\ UNCHANGED firewall

\* The deferred removal of the key pair, and what the caller gets.
Deferred ==
  /\ cli.pc = "return"
  /\ keyfile' = FALSE
  /\ Goto(IF handle = NoHandle THEN "failed" ELSE "returned")

(***************************************************************************)
(* Execute, up to the exchange.                                            *)
(***************************************************************************)
Check ==
  /\ cli.pc = "preflight" /\ cli.todo # <<>>
  /\ LET check == Head(cli.todo) IN
       \/ /\ ~Refused(check) /\ (cancelled => check \in Local)
          /\ cli' = [cli EXCEPT !.todo = Tail(@)]
          /\ keyfile' = (keyfile \/ check = "key")
       \/ /\ Refused(check) \/ check \notin Decided
          /\ Return /\ UNCHANGED keyfile

\* Mutant: no cap unless the run has one.
MutConfidentialLifetime(p) == p.maxDuration

confidentialLifetime(p) ==
  CASE p.maxDuration > 0 -> p.maxDuration
    [] p.ttl > 0 -> p.ttl
    [] OTHER -> TTL

watchdogTTL(p) == IF p.ttl > 0 THEN p.ttl ELSE TTL

\* The watchdog comes as user data, and the measured Azure image is built with
\* allow_userdata: false.  Confidential Space caps the machine itself.
Life(p) ==
  CASE p.backend = "cs" -> confidentialLifetime(p)
    [] p.backend = "azure" -> 0
    [] p.backend = "nitro" -> watchdogTTL(p)

\* Confidential Space attests plain SEV only.
gcpCSComputeType(type) == type \in {Empty, "any", "sev"}

AfterCreate == IF plan.backend = "cs" THEN "firewall"
               ELSE IF plan.backend = "nitro" THEN "pin" ELSE "start"

\* A call that fails may have made the machine all the same.
CreateVM ==
  /\ cli.pc = "preflight" /\ cli.todo = <<>>
  /\ LET booted == [st |-> "up", left |-> Life(plan)] IN
       \/ /\ plan.backend = "cs" => gcpCSComputeType(plan.type)
          /\ ~cancelled
          /\ machine' = booted /\ Goto(AfterCreate) /\ UNCHANGED failures
       \/ /\ plan.backend = "cs" => gcpCSComputeType(plan.type)
          /\ machine' = booted /\ failures' = failures \cup {"create"} /\ Return
       \/ Return /\ UNCHANGED <<machine, failures>>

\* A leftover rule of the workload's name is deleted and made again; when
\* the rule cannot be made the machine goes, and what is there of the rule
\* stays.
createAgentFirewall ==
  \/ /\ ~cancelled
     /\ firewall' = "ours" /\ Goto("vminfo") /\ UNCHANGED failures
  \/ /\ firewall' \in {firewall, "ours"} \cup
                      (IF firewall = "stale" THEN {"none"} ELSE {})
     /\ failures' = failures \cup {"open"} /\ Goto("destroy")

\* gcloud's answer is read: its address, or the teardown of both.
createConfidentialSpaceVM ==
  \/ /\ cli.pc = "firewall" /\ createAgentFirewall
  \/ /\ cli.pc = "vminfo" /\ (Goto("ready") \/ Teardown)
     /\ UNCHANGED <<firewall, failures>>

\* PinHostKey, whose failure is only logged, then the renewals start.  It
\* takes less than a third of the TTL.
StartRenewal ==
  /\ cli.pc = "pin"
  /\ beat' = IF cancelled THEN "off" ELSE "idle"
  /\ cli' = [pc |-> "start", todo |-> <<>>]

nitroStartAgent == <<"ssh", "setup", "eif", "proxy", "enclave", "port">>

azureSNPStartAgent == <<"port">>

Fail == Teardown /\ beat' = Stopped(beat)

\* The calls of startAgent; the last opens the agent's port.
StartAgent ==
  /\ cli.pc = "start"
  /\ LET calls == IF cli.todo # <<>> THEN cli.todo
                  ELSE IF plan.backend = "nitro" THEN nitroStartAgent
                  ELSE azureSNPStartAgent IN
       \/ /\ ~cancelled /\ machine.st = "up"
          /\ IF Len(calls) > 1 THEN cli' = [cli EXCEPT !.todo = Tail(calls)]
             ELSE Goto("ready")
          /\ UNCHANGED beat
       \/ Fail

\* Something accepts a connection at the address.
Answers == front = "proxy" \/ machine.st = "up"

waitForAgentEndpoint ==
  /\ cli.pc = "ready"
  /\ \/ Answers /\ ~cancelled /\ Goto("dial") /\ UNCHANGED beat
     \/ Fail

(***************************************************************************)
(* The exchange, on dispatcher's side.                                     *)
(***************************************************************************)
\* Evidence of the agent for a nonce, on a session with this exporter.
Evidence(nonce, exporter) ==
  [claims |-> agent, nonce |-> nonce, bind |-> bindData("agent", exporter)]

RunOverATLS ==
  /\ cli.pc = "dial"
  /\ \/ /\ Answers /\ ~cancelled
        /\ Goto("handshake") /\ UNCHANGED beat
        /\ conn' = [conn EXCEPT !["run"] =
                      IF front = "agent" THEN "queued" ELSE @]
     \/ Fail /\ UNCHANGED conn

\* The session is up: dispatcher sends a fresh nonce.
ClientHandshake ==
  /\ cli.pc = "handshake"
  /\ front = "proxy" \/ conn["run"] = "attest"
  /\ Goto("evidence")

\* What can arrive as the peer's evidence.
Arriving ==
  IF front = "proxy" THEN {Evidence(n, "other") : n \in issued}
  ELSE IF conn["run"] = "request" THEN {Evidence("run", "run")} ELSE {}

ClientAttest ==
  /\ cli.pc = "evidence"
  /\ \E e \in Arriving :
       IF Verified(e, plan, "run", bindData(front, "run"))
       THEN Goto("send") /\ UNCHANGED beat
       ELSE Fail

\* Mutant: no deadline on the exchange with a peer not verified yet.
MutAttestDeadline == cli.pc = "handshake" /\ front = "agent" /\ Fail

attestDeadline == cli.pc \in {"handshake", "evidence"} /\ Fail

\* The run's context is cancelled, or the connection breaks.
interruptOnCancel ==
  /\ cli.pc \in Exchange
  /\ cancelled \/ (front = "agent" /\ conn["run"] = "closed")
  /\ Fail

ClientRun ==
  /\ cli.pc = "send"
  /\ Goto("await")
  /\ got' = got \cup (IF front = "proxy" THEN {"proxy"} ELSE {})

\* The result, unless it is too large or cannot be parsed.
ReadResult ==
  /\ cli.pc = "await" /\ conn["run"] = "answer"
  /\ \/ /\ handle' = [image |-> plan.image, exit |-> result[1]]
        /\ Goto("return") /\ beat' = Stopped(beat)
     \/ Fail /\ UNCHANGED handle

Execute ==
  \/ /\ Check
     /\ UNCHANGED <<machine, firewall, beat, conn, got, handle, failures>>
  \/ /\ CreateVM
     /\ UNCHANGED <<firewall, keyfile, beat, conn, got, handle>>
  \/ /\ createConfidentialSpaceVM
     /\ UNCHANGED <<machine, keyfile, beat, conn, got, handle>>
  \/ /\ StartRenewal \/ StartAgent \/ waitForAgentEndpoint
     /\ UNCHANGED <<machine, firewall, keyfile, conn, got, handle, failures>>
  \/ /\ RunOverATLS
     /\ UNCHANGED <<machine, firewall, keyfile, got, handle, failures>>
  \/ /\ ClientHandshake
     /\ UNCHANGED <<machine, firewall, keyfile, beat, conn, got, handle, failures>>
  \/ /\ ClientAttest \/ attestDeadline \/ interruptOnCancel
     /\ UNCHANGED <<machine, firewall, keyfile, conn, got, handle, failures>>
  \/ /\ ClientRun
     /\ UNCHANGED <<machine, firewall, keyfile, beat, conn, handle, failures>>
  \/ /\ ReadResult
     /\ UNCHANGED <<machine, firewall, keyfile, conn, got, failures>>
  \/ /\ destroyOnErr
     /\ UNCHANGED <<keyfile, beat, got, handle>>
  \/ /\ Deferred
     /\ UNCHANGED <<machine, firewall, beat, conn, got, handle, failures>>

\* The run is over when Execute returns: Status reads the handle.
Status(h) == IF h.exit # 0 THEN "ExecutionFailed" ELSE "Completed"

\* Cleanup of a run that returned: the machine, and on Confidential Space the
\* rule whatever came of the machine.  A failure is reported.
Cleanup ==
  \/ /\ cli.pc = "returned"
     /\ DestroyVM(IF plan.backend = "cs" THEN "firewall of cleanup" ELSE "cleaned")
     /\ LET lost == failures' # failures IN
        report' = [success |-> ~lost, errors |-> IF lost THEN {"vm"} ELSE {}]
     /\ UNCHANGED firewall
  \/ /\ cli.pc = "firewall of cleanup"
     /\ deleteAgentFirewall("cleaned")
     /\ report' = IF failures' = failures THEN report
                  ELSE [report EXCEPT !.errors = @ \cup {"firewall"}]
     /\ UNCHANGED <<machine, conn>>

-----------------------------------------------------------------------------
(***************************************************************************)
(* The agent: at most MaxConns sessions at a time, each of them attested   *)
(* and then read for one workload.                                         *)
(***************************************************************************)
Serving == {s \in Sessions : conn[s] \in {"attest", "request", "running", "answer"}}

Becomes(s, st) == conn' = [conn EXCEPT ![s] = st]

\* The other end of the session is still there.
Connected(s) == s = "other" \/ cli.pc \in Exchange

ServeATLSOn(s) ==
  /\ conn[s] = "queued" /\ Cardinality(Serving) < MaxConns
  /\ Becomes(s, "attest") /\ UNCHANGED <<issued, got, result>>

\* Nonces the other client may ask about: one of its own, or the run's when
\* it is the intermediary.
OtherNonces ==
  {"old"} \cup (IF front = "proxy" /\ cli.pc = "evidence" THEN {"run"} ELSE {})

\* Evidence for the nonce that arrives, or an error of the platform.
ServerAttest(s) ==
  /\ conn[s] = "attest" /\ Connected(s)
  /\ \/ /\ s = "run" => cli.pc = "evidence"
        /\ Becomes(s, "request")
        /\ \E n \in OtherNonces :
             issued' = IF s = "run" THEN issued ELSE issued \cup {n}
     \/ Becomes(s, "closed") /\ UNCHANGED issued
  /\ UNCHANGED <<got, result>>

ServerRun(s) ==
  /\ conn[s] = "request" /\ Connected(s)
  /\ s = "run" => cli.pc = "await"
  /\ Becomes(s, "running")
  /\ got' = got \cup (IF s = "run" THEN {"agent"} ELSE {})
  /\ UNCHANGED <<issued, result>>

\* The workload ends; -1 when it cannot be started.
defaultRunner(s) ==
  /\ conn[s] = "running"
  /\ Becomes(s, "answer")
  /\ \E code \in ExitCodes :
       result' = IF s = "run" THEN <<code>> ELSE result
  /\ UNCHANGED <<issued, got>>

\* The deadlines of the attestation and of the request that follows.
Expired(s) == conn[s] \in {"attest", "request"}

\* The session ends at its deadline, or when the peer has gone.  The answer
\* has no deadline.
serveATLSConn(s) ==
  /\ \/ Expired(s)
     \/ conn[s] \in {"queued", "attest", "request", "answer"} /\ ~Connected(s)
  /\ Becomes(s, "closed")
  /\ UNCHANGED <<issued, got, result>>

\* Another client connects, while the run is on, or hangs up, with its answer
\* or without.
OtherClient ==
  /\ \/ /\ machine.st = "up" /\ conn["other"] = "closed"
        /\ cli.pc \in {"ready", "dial"} \cup Exchange
        /\ Becomes("other", "queued")
     \/ /\ conn["other"] \in {"queued", "attest", "request", "answer"}
        /\ Becomes("other", "closed")
  /\ UNCHANGED <<issued, got, result>>

Server(s) ==
  ServeATLSOn(s) \/ ServerAttest(s) \/ ServerRun(s) \/ serveATLSConn(s)

-----------------------------------------------------------------------------
(***************************************************************************)
(* Time, cancellation and crash.                                           *)
(***************************************************************************)
Cancel ==
  /\ ~cancelled /\ cli.pc \notin Ended
  /\ cancelled' = TRUE /\ beat' = Stopped(beat)
  /\ UNCHANGED <<cli, machine, conn>>

\* dispatcher dies: no deferred call runs.
Crash ==
  /\ cli.pc \notin Ended
  /\ Goto("dead") /\ beat' = "off"
  /\ UNCHANGED <<cancelled, machine, conn>>

\* A renewal period.  A renewal ends within one.  At its deadline a machine
\* of Confidential Space is deleted, another powers off.
Tick ==
  /\ machine.st = "up" /\ machine.left > 0
  /\ beat \in {"off", "idle"} /\ cli.pc # "pin"
  /\ IF machine.left = 1
     THEN Down(IF plan.backend = "cs" THEN "gone" ELSE "stopped")
     ELSE machine' = [machine EXCEPT !.left = @ - 1] /\ UNCHANGED conn
  /\ beat' = IF beat = "idle" THEN "due" ELSE beat
  /\ UNCHANGED <<cli, cancelled>>

\* One renewal over ssh; a failure waits for the next period.
renewWatchdogUntil ==
  /\ beat \in {"due", "last"}
  /\ beat' = IF beat = "due" THEN "idle" ELSE "off"
  /\ \/ machine.st = "up" /\ machine' = [machine EXCEPT !.left = watchdogTTL(plan)]
     \/ UNCHANGED machine
  /\ UNCHANGED <<cli, cancelled, conn>>

-----------------------------------------------------------------------------
Dispatcher ==
  /\ Execute
  /\ UNCHANGED <<plan, agent, front, cancelled, issued, result, report>>

CleanUp ==
  /\ Cleanup
  /\ UNCHANGED <<plan, agent, front, cancelled, keyfile, beat, issued,
                 got, result, handle>>

Agent(Step) ==
  /\ Step
  /\ UNCHANGED <<plan, agent, front, cli, cancelled, machine, firewall, keyfile,
                 beat, handle, report, failures>>

World(Step) ==
  /\ Step
  /\ UNCHANGED <<plan, agent, front, firewall, keyfile, issued, got, result,
                 handle, report, failures>>

Next ==
  \/ Dispatcher
  \/ CleanUp
  \/ \E s \in Sessions : Agent(Server(s)) \/ Agent(defaultRunner(s))
  \/ Agent(OtherClient)
  \/ World(Cancel) \/ World(Crash) \/ World(Tick) \/ World(renewWatchdogUntil)

\* Every call of dispatcher has a timeout and ends, the agent's goroutines
\* run, and time passes.  A workload need not end, and nothing is asked of
\* other clients.
Fairness ==
  /\ WF_vars(Dispatcher)
  /\ \A s \in Sessions : WF_vars(Agent(serveATLSConn(s)))
  /\ WF_vars(Agent(Server("run")))
  /\ WF_vars(World(Tick)) /\ WF_vars(World(renewWatchdogUntil))

Spec == Init /\ [][Next]_vars /\ Fairness

-----------------------------------------------------------------------------
(***************************************************************************)
(* Properties.                                                             *)
(***************************************************************************)
\* What Execute has to check, or to do on the machine.
Todos == {"gpu", "payload", "image", "allow", "egress", "pins", "key", "ami",
          "ssh", "setup", "eif", "proxy", "enclave", "port"}

Labels == {"preflight", "firewall", "vminfo", "pin", "reap", "destroy", "return"}
          \cup Supervising \cup Ended

\* The state of the confidential adapters, of the agent and of the machine.
TypeOK ==
  /\ plan \in Plans /\ agent \in Agents[plan.backend]
  /\ front \in {"agent", "proxy"}
  /\ cli \in [pc : Labels, todo : Seq(Todos)]
  /\ cancelled \in BOOLEAN /\ keyfile \in BOOLEAN
  /\ machine \in [st : {"none", "up", "gone", "stopped"}, left : Nat]
  /\ firewall \in {"none", "stale", "ours"}
  /\ beat \in {"off", "idle", "due", "last"}
  /\ conn \in [Sessions -> {"closed", "queued", "attest", "request", "running",
                            "answer"}]
  /\ issued \subseteq {"old", "run"} /\ got \subseteq {"agent", "proxy"}
  /\ result \in {<<>>} \cup {<<c>> : c \in ExitCodes}
  /\ report \in [success : BOOLEAN, errors : SUBSET {"vm", "firewall"}]
  /\ failures \subseteq {"create", "open", "destroy", "reap"}

\* The agent attests, reads or runs for at most MaxConns clients at a time
\* (the semaphore of ServeATLSOn).
ServesAtMostMaxConns == Cardinality(Serving) <= MaxConns

\* The source and the secrets reach an agent only if it upholds every control
\* that the published enforcement matrix calls enforced on its back end, and
\* never for a run that asks for one the matrix calls fail-closed
\* (matrix.go: "every row is backed by a validator/adapter check").
MatrixIsEnforced ==
  "agent" \in got =>
    \A c \in Controls :
      LET claim == ConfidentialMatrix[plan.backend][c] IN
      /\ claim = "enforced" => Upholds(c, agent, plan)
      /\ claim = "fail-closed" => ~Requests(c, plan)

\* What stands between dispatcher and the TEE never gets the payload, though
\* it can have the agent attest on a session of its own, for the nonce of the
\* run: the evidence is bound to the session it was made for (atls.go).
BoundToTheSession == "proxy" \notin got

\* What a run leaves behind it is what a provider refused to delete, or made
\* in a call it reported as failed; after Cleanup it is also reported.  A
\* cancelled run tears down as any other, and no key file stays.
NothingLeftSilently ==
  LET over == cli.pc \in {"failed", "cleaned"} IN
  /\ over /\ machine.st = "up" => failures \cap {"create", "destroy"} # {}
  /\ over /\ firewall = "ours" => failures \cap {"open", "reap"} # {}
  /\ cli.pc = "cleaned" =>
       /\ machine.st = "up" => ~report.success /\ "vm" \in report.errors
       /\ firewall = "ours" => "firewall" \in report.errors
  /\ cli.pc \in {"failed", "returned", "cleaned"} => ~keyfile

\* Execute comes back: from everything but a workload that does not end, and
\* from that too once the run is cancelled or the machine is down.
ConfidentialRunReturns ==
  /\ cli.pc \notin Ended ~> cli.pc \in Ended \cup {"await"}
  /\ cli.pc = "await" /\ (cancelled \/ machine.st # "up") ~> cli.pc \in Ended

\* Whatever becomes of dispatcher, its machine does not run for ever, on the
\* back ends where the machine has a deadline of its own.
NoMachineOutlivesItsRun ==
  plan.backend # "azure" /\ cli.pc \in Ended ~> machine.st # "up"
=============================================================================
