------------------------------ MODULE Planning ------------------------------
(***************************************************************************)
(* `dispatcher run' up to the moment a machine is asked for: the flags,    *)
(* the live prices, the two readings of dispatcher.yaml, the plan (which   *)
(* targets can run the workload, what each would cost, which one is        *)
(* recommended, what must be approved), the checks of the run command, the *)
(* choice of the adapter, the approval and the adapter's own refusals.     *)
(*                                                                         *)
(* The command runs alone, but dispatcher.yaml is a file the user may be   *)
(* saving meanwhile: a save truncates the file and then writes it.         *)
(***************************************************************************)
EXTENDS Catalog, Targets

CONSTANTS
    Scenarios,      \* what a run starts from: code, flags, file, clouds; see MCPlanning
    Rewrites(_)     \* the versions the user may save over a given dispatcher.yaml

VARIABLES
    in,             \* the scenario
    file,           \* dispatcher.yaml: a config, NoFile, or Torn in mid-save
    versions,       \* the complete contents the file has had since the command started
    pc,             \* the step runRun is at, or "running" or "refused"
    why,            \* the reason of a refusal
    rows,           \* the live catalog; {} when there is none
    spec, cons,     \* the workload spec and the constraints
    plan,           \* the plan Build made, or NoPlan
    approved,       \* an approval was given: --yes, at the terminal or by `approve'
    backend         \* the adapter chosen

vars == <<in, file, versions, pc, why, rows, spec, cons, plan, approved, backend>>

NoFile == [sort |-> "absent"]
Torn   == [sort |-> "torn"]
NoPlan == [target |-> ""]
NoConf == [required |-> FALSE, type |-> "", profile |-> "", attestation |-> ""]
NoGPU  == [required |-> FALSE, count |-> 0, model |-> ""]

(***************************************************************************)
(* The workload: what the code shows, what dispatcher.yaml says.           *)
(***************************************************************************)
\* One framework import is enough, and asks for one GPU of any model.
DetectGPURequirements(code) ==
    IF code.framework THEN [required |-> TRUE, count |-> 1, model |-> ""] ELSE NoGPU

detectPackagePlan(code) ==
    [dockerfile |-> code.dockerfile,
     build |-> code.dockerfile \/ code.compose \/ code.runtime,
     base  |-> ~code.dockerfile /\ ~code.compose /\ code.runtime]

classifyWorkload(code) ==
    CASE code.framework  -> "gpu-job"
      [] ~code.framework /\ code.ports -> "service"
      [] ~code.framework /\ ~code.ports /\ code.dockerfile -> "container"
      [] ~code.framework /\ ~code.ports /\ ~code.dockerfile /\ code.runtime -> "script"
      [] OTHER -> "unknown"

InspectCode(code) ==
    [kind |-> classifyWorkload(code), gpu |-> DetectGPURequirements(code), conf |-> NoConf,
     pkg |-> detectPackagePlan(code), secrets |-> code.secrets, outputs |-> code.outputs,
     cpu |-> 0, mem |-> 0, arch |-> "", sandbox |-> FALSE,
     shard |-> [count |-> 0, discover |-> FALSE]]

maxShardCount == 10000

Validate(c) ==
    /\ c.cpu >= 0 /\ c.mem >= 0
    /\ c.arch \in {"", "x86_64", "arm64"}
    /\ c.maxCost >= 0
    /\ c.gpu.count >= 0
    /\ c.conf.type \in {"", "any", "sev", "sev-snp", "tdx"}
    /\ c.conf.profile \in {"", "azure-snp", "nitro"}
    /\ c.conf.attestation \in {"", "required", "off"}
    /\ c.shard.count \in 0 .. maxShardCount

\* An absent file is no config.  Anything else that does not decode strictly
\* (a torn file, an unknown field) or does not validate is an error.
MutLoadConfig(f) ==
    IF f.sort = "config" /\ f.known /\ Validate(f)
    THEN [ok |-> TRUE, cfg |-> f] ELSE [ok |-> TRUE, cfg |-> NoFile]

LoadConfig(f) ==
    [ok  |-> f.sort = "absent" \/ (f.sort = "config" /\ f.known /\ Validate(f)), cfg |-> f]

ApplyConfig(s, c) ==
    LET kind0 == IF s.kind = "unknown" /\ (c.command \/ c.image) THEN "script" ELSE s.kind
        kind1 == IF c.gpu.required THEN "gpu-job" ELSE kind0
    IN  [s EXCEPT
            !.kind = IF c.service THEN "service" ELSE kind1,
            !.cpu = c.cpu, !.mem = c.mem, !.arch = c.arch,
            !.pkg = IF c.image THEN [dockerfile |-> FALSE, build |-> FALSE, base |-> TRUE] ELSE @,
            !.conf = IF ~c.conf.required THEN @
                     ELSE [c.conf EXCEPT !.attestation = IF @ = "" THEN "required" ELSE @],
            !.shard = c.shard,
            !.gpu = IF ~c.gpu.required THEN @
                    ELSE [c.gpu EXCEPT !.count = IF @ = 0 THEN 1 ELSE @],
            !.sandbox = c.sandbox,
            !.outputs = c.outputs \/ IF c.aggregate = "absent" THEN @ ELSE c.aggregate = "outputs"]

(***************************************************************************)
(* Cost estimates.  An estimate names the instance it priced ("" for none) *)
(* and its confidence.                                                     *)
(***************************************************************************)
Card(base, cpu, mem, gpu) == [base |-> base, cpu |-> cpu, mem |-> mem, gpu |-> gpu]

\* There is no card for Lambda.
rateCards ==
    [local |-> Card(0, 0, 0, 0), ssh |-> Card(1000, 0, 0, 0),
     internal |-> Card(200, 400, 50, 15000),
     aws |-> Card(1000, 500, 70, 30000), gcp |-> Card(800, 400, 50, 28000),
     azure |-> Card(1000, 500, 70, 30000), hetzner |-> Card(30, 30, 10, 0),
     oci |-> Card(200, 300, 40, 0)]

parseCPU(cpu) == IF cpu = 0 THEN 2 ELSE cpu

assumedHours(s) == IF s.kind = "service" THEN 24 ELSE 1

requirementsFromSpec(s) ==
    [vcpus |-> parseCPU(s.cpu), mem |-> s.mem, arch |-> s.arch, conf |-> s.conf.required,
     gpus  |-> IF ~s.gpu.required THEN 0 ELSE IF s.gpu.count = 0 THEN 1 ELSE s.gpu.count,
     model |-> IF s.gpu.required THEN s.gpu.model ELSE ""]

estimateFromCatalog(s, r) ==
    [value |-> r.price * assumedHours(s), instance |-> r.name,
     conf  |-> IF s.kind = "gpu-job" THEN "low" ELSE "medium",
     ratio |-> IF r.spot > 0 THEN <<r.spot, r.price>> ELSE <<0, 1>>]

estimateFromRateCard(s, t, instance) ==
    IF t.card \notin DOMAIN rateCards
    THEN [value |-> 0, instance |-> instance, conf |-> "unknown", ratio |-> <<0, 1>>]
    ELSE LET card == rateCards[t.card]
             gpus == requirementsFromSpec(s).gpus
         IN  [value |-> assumedHours(s) * (card.base + card.cpu * parseCPU(s.cpu)
                                             + card.mem * s.mem + card.gpu * gpus),
              instance |-> instance, ratio |-> <<0, 1>>,
              conf |-> CASE t.card \in Clouds -> "low"
                         [] t.card \notin Clouds /\ s.kind = "gpu-job" -> "low"
                         [] t.card = "local" /\ s.kind # "gpu-job" -> "high"
                         [] OTHER -> "medium"]

\* The instance to launch when the feed has no match: one of the table's.
staticInstance(s, t) ==
    LET found == FindCheapestForProvider(defaultInstances, t.card, requirementsFromSpec(s))
    IN  IF t.kind # "cloud-vm" \/ found = {} THEN {""} ELSE {r.name : r \in found}

\* The estimates EstimateCost may give: several when equally priced rows tie.
EstimateCost(s, t, catalog) ==
    LET found == IF t.kind = "cloud-vm"
                 THEN FindCheapestForProvider(catalog, t.card, requirementsFromSpec(s))
                 ELSE {}
    IN  IF found # {}
        THEN {estimateFromCatalog(s, r) : r \in found}
        ELSE {estimateFromRateCard(s, t, i) : i \in staticInstance(s, t)}

spotDiscount == [gcp |-> 30, aws |-> 35, azure |-> 40, oci |-> 50]

ApplySpot(e, t) ==
    CASE e.ratio[1] > 0 ->
           [e EXCEPT !.value = (@ * e.ratio[1]) \div e.ratio[2], !.conf = "low"]
      [] e.ratio[1] = 0 /\ t.card \in DOMAIN spotDiscount ->
           [e EXCEPT !.value = (@ * spotDiscount[t.card]) \div 100, !.conf = "low"]
      [] OTHER -> e

estimateCost(s, t, catalog, spot) ==
    {IF spot THEN ApplySpot(e, t) ELSE e : e \in EstimateCost(s, t, catalog)}

(***************************************************************************)
(* The plan.                                                               *)
(***************************************************************************)
DefaultCostAutoApprove == 50000

isExternalProvider(t) == t.kind \in {"cloud-vm", "kubernetes", "ssh"}

\* The names under which something holds.
Raised(conditions) == {n \in DOMAIN conditions : conditions[n]}

\* policy.Evaluate: the approvals a plan needs.
Evaluate(s, t, e) ==
    Raised([unconfirmedCost   |-> e.conf = "unknown" \/ (e.conf = "low" /\ t.kind = "cloud-vm"),
            costApproval      |-> e.value > DefaultCostAutoApprove,
            gpuApproval       |-> s.gpu.required,
            publicEndpoint    |-> s.kind = "service" /\ t.public,
            secretsOnExternal |-> s.secrets /\ isExternalProvider(t)])

\* risk.Analyze.
Analyze(s, t, e, spot) ==
    Raised([spotInterruption   |-> spot,
            costUncertainty    |-> e.conf \in {"low", "unknown"},
            runtimeUncertainty |-> s.kind = "service",
            capacityRisk       |-> s.gpu.required,
            rightSizing        |-> s.gpu.required /\ s.gpu.model = "",
            gpuUnschedulable   |-> s.gpu.required /\ t.kind = "cloud-vm" /\ e.instance = "",
            credentialRisk     |-> s.secrets,
            publicEndpointRisk |-> s.kind = "service" /\ t.public,
            packageRisk        |-> s.pkg.build /\ ~s.pkg.dockerfile,
            confidentialDiskResidual |-> s.conf.required,
            outputsUnretrievable |-> s.outputs /\ t.kind \in {"docker", "kubernetes"}])

\* plan.validate: what does not pass.
validate(s, e) ==
    [packageBuild |-> IF s.pkg.build /\ ~s.pkg.dockerfile /\ ~s.pkg.base THEN "warn" ELSE "pass",
     costEstimate |-> IF e.conf = "unknown" THEN "fail" ELSE "pass",
     credentials  |-> IF s.secrets THEN "warn" ELSE "skipped"]

\* sortCandidates' order: an unknown cost after every known one; for speed
\* the local targets first and among remote ones the dearer; else the cheaper.
Before(c, d, goal) ==
    LET local(x) == isHostBound(x.target.kind)
    IN  IF (c.cost.conf = "unknown") # (d.cost.conf = "unknown")
        THEN d.cost.conf = "unknown"
        ELSE IF goal = "speed" /\ (~local(c) \/ ~local(d))
             THEN IF local(c) # local(d) THEN local(c) ELSE c.cost.value > d.cost.value
             ELSE c.cost.value < d.cost.value

Affordable(c, budget) ==
    budget <= 0 \/ (c.cost.conf # "unknown" /\ c.cost.value <= budget)

\* orderAndFilter: the candidates that may end up first, {} when it fails.  A
\* pinned target is first or nothing; equal candidates may come in any order.
orderAndFilter(cands, k) ==
    LET kept == {c \in cands : Affordable(c, k.maxCost)}
    IN  IF k.target # ""
        THEN {c \in kept : c.target.id = k.target}
        ELSE {c \in kept : \A d \in kept : ~Before(d, c, k.optimize)}

\* Every way to estimate the feasible targets, ties broken one way or another.
Candidates(feasible, s, catalog, spot) ==
    FoldSet(LAMBDA t, sets : {cs \union {[target |-> t, cost |-> e]} :
                                cs \in sets, e \in estimateCost(s, t, catalog, spot)},
            {{}}, feasible)

\* buildExecutionSteps, up to the steps every plan has.
buildExecutionSteps(s, t) ==
    (IF ~s.pkg.build THEN <<>>
     ELSE IF t.kind = "docker" THEN <<"build-image">> ELSE <<"build-image", "push-image">>)
    \o (IF s.kind = "service" THEN <<"deploy-service", "wait-for-health-check">>
        ELSE <<"run-workload">>)

PlanOf(c, s, spot) ==
    [target |-> c.target.id, kind |-> c.target.kind, cost |-> c.cost,
     approvals |-> Evaluate(s, c.target, c.cost),
     risks |-> Analyze(s, c.target, c.cost, spot),
     validation |-> validate(s, c.cost), steps |-> buildExecutionSteps(s, c.target)]

-----------------------------------------------------------------------------
(***************************************************************************)
(* The command.                                                            *)
(***************************************************************************)
Init ==
    /\ in \in Scenarios
    /\ file = in.file
    /\ versions = {in.file}
    /\ pc = "flags" /\ why = ""
    /\ rows = {} /\ spec = <<>> /\ cons = <<>>
    /\ plan = NoPlan /\ approved = FALSE /\ backend = ""

Refuse(reason) == pc' = "refused" /\ why' = reason

Goto(step) == pc' = step /\ UNCHANGED why

Files == <<file, versions>>

ParseFlags ==
    /\ pc = "flags"
    /\ IF /\ in.flags.maxCost >= 0
          /\ in.flags.optimize \in {"cost", "speed"}
          /\ in.flags.allowSSH # "invalid"
       THEN Goto("price") ELSE Refuse("flags")
    /\ cons' = [maxCost |-> in.flags.maxCost, optimize |-> in.flags.optimize,
                target |-> in.flags.target, region |-> in.flags.region,
                spot |-> in.flags.spot]
    /\ UNCHANGED <<in, Files, rows, spec, plan, approved, backend>>

\* The region a provider's prices are fetched for.
regionFor(self, target, region) == IF target = self THEN region ELSE ""

Fetch(p, target, region, spotSeen) ==
    CASE p = "hetzner" -> HetznerFetch(regionFor("hetzner-vm", target, region))
      [] p = "azure"   -> AzureFetch("")
      [] p = "gcp"     -> GCPFetch("")
      [] p = "oci"     -> parseOCIPrices
      [] p = "lambda"  -> parseLambdaInstanceTypes(regionFor("lambda-vm", target, region))
      [] p = "aws"     -> IF target \in {"aws-vm", ""} THEN AWSFetch(region, spotSeen) ELSE {}

\* Without an answer (no credentials, an error, the 30 s deadline) a provider
\* is skipped; with live pricing disabled there is no catalog.
loadLiveCatalogScoped ==
    /\ pc = "price"
    /\ rows' = IF in.offline THEN {}
               ELSE NewLiveCatalog(
                      [p \in Clouds |->
                         IF p \in in.down THEN {}
                         ELSE Fetch(p, cons.target, cons.region, in.spotSeen)])
    /\ Goto("inspect")
    /\ UNCHANGED <<in, Files, spec, cons, plan, approved, backend>>

InspectCodebase ==
    /\ pc = "inspect"
    /\ LET read == LoadConfig(file)
       IN  IF read.ok
           THEN /\ spec' = IF read.cfg.sort = "absent" THEN InspectCode(in.code)
                           ELSE ApplyConfig(InspectCode(in.code), read.cfg)
                /\ Goto("merge")
           ELSE Refuse("config") /\ UNCHANGED spec
    /\ UNCHANGED <<in, Files, rows, cons, plan, approved, backend>>

\* Build reads the file a second time for the constraints; flags win.
Merge(k, c) ==
    [k EXCEPT !.maxCost = IF @ = 0 /\ c.maxCost > 0 THEN c.maxCost ELSE @,
              !.target  = IF @ = "" THEN c.target ELSE @,
              !.region  = IF @ = "" THEN c.region ELSE @,
              !.spot    = @ \/ c.spot]

\* --gpu replaces the GPU requirement and makes the workload a GPU job.
applyGPUOverride(s) ==
    IF in.flags.gpu = NoGPU THEN s ELSE [s EXCEPT !.gpu = in.flags.gpu, !.kind = "gpu-job"]

MergeConfig ==
    /\ pc = "merge"
    /\ LET read == LoadConfig(file)
       IN  IF read.ok /\ in.flags.gpu.count >= 0
           THEN /\ cons' = IF read.cfg.sort = "absent" THEN cons ELSE Merge(cons, read.cfg)
                /\ spec' = applyGPUOverride(spec)
                /\ Goto("build")
           ELSE Refuse("config") /\ UNCHANGED <<cons, spec>>
    /\ UNCHANGED <<in, Files, rows, plan, approved, backend>>

Build ==
    /\ pc = "build"
    /\ LET registry == Registry(in.targets)
           feasible == {t \in registry : CheckFeasibility(t, spec)}
       IN  IF cons.target # "" /\ Get(feasible, cons.target) = {}
           THEN Refuse("target") /\ UNCHANGED plan
           ELSE \E cands \in Candidates(feasible, spec, rows, cons.spot) :
                  LET first == orderAndFilter(cands, cons)
                  IN  IF first = {}
                      THEN Refuse("no target") /\ UNCHANGED plan
                      ELSE /\ \E c \in first : plan' = PlanOf(c, spec, cons.spot)
                           /\ Goto("check")
    /\ UNCHANGED <<in, Files, rows, spec, cons, approved, backend>>

perRunFirewallSupported(t) == t \in {"hetzner-vm", "aws-vm", "gcp-vm", "azure-vm"}
spotSupported(t) == t \in {"aws-vm", "gcp-vm", "azure-vm", "oci-vm"}

Sharded == spec.shard.count > 0 \/ spec.shard.discover
FanoutKnown == spec.shard.count > 0 \/ ~spec.shard.discover
FanoutCount == IF spec.shard.count > 0 THEN spec.shard.count
               ELSE IF spec.shard.discover THEN 0 ELSE 1
Total == plan.cost.value * FanoutCount

OverFanoutBudget == cons.maxCost > 0 /\ (~FanoutKnown \/ Total > cons.maxCost)

MutFanoutNeedsYes == ~FanoutKnown \/ Total > DefaultCostAutoApprove

FanoutNeedsYes ==
    ~FanoutKnown \/ Total > DefaultCostAutoApprove \/ plan.approvals # {}

\* The refusals of the run command before any adapter is built; a fan-out is
\* approved as a whole by --yes or not at all.
CheckPlan ==
    /\ pc = "check"
    /\ CASE in.flags.allowSSH # "" /\ ~perRunFirewallSupported(plan.target) ->
              Refuse("firewall") /\ UNCHANGED approved
         [] (in.flags.allowSSH # "" => perRunFirewallSupported(plan.target))
              /\ cons.spot /\ ~spotSupported(plan.target) ->
              Refuse("spot") /\ UNCHANGED approved
         [] OTHER ->
              IF ~Sharded THEN Goto("adapter") /\ UNCHANGED approved
              ELSE IF \/ OverFanoutBudget
                      \/ FanoutNeedsYes /\ ~in.flags.yes
                      \/ spec.shard.discover /\ plan.target # "local-process"
                   THEN Refuse("fan-out") /\ UNCHANGED approved
                   ELSE Goto("adapter") /\ approved' = in.flags.yes
    /\ UNCHANGED <<in, Files, rows, spec, cons, plan, backend>>

Attested == spec.conf.required /\ spec.conf.attestation # "off"

usesConfidentialSpace == Attested /\ plan.target = "gcp-vm"
usesAzureSNP == Attested /\ spec.conf.profile = "azure-snp" /\ plan.target = "azure-vm"
usesAWSNitro == Attested /\ spec.conf.profile = "nitro" /\ plan.target = "aws-vm"

\* The adapter of a target: built-in ids by name, a user's SSH host from the
\* registry, which is loaded again.
adapterForTarget(id) ==
    CASE id \in reservedIDs \ {"ssh"} -> IF plan.kind \in {"cloud-vm", "local-vm"}
                                         THEN "cloudvm" ELSE plan.kind
      [] id \notin reservedIDs \ {"ssh"} /\
         (\E t \in Get(Registry(in.targets), id) : t.kind = "ssh" /\ t.ssh.host # "") -> "ssh"
      [] OTHER -> ""

MutadapterForPlan == adapterForTarget(plan.target)

\* The backend of the plan, "" when there is none and "unattested" when the
\* plan asks for attestation and no attesting backend fits it.
adapterForPlan ==
    CASE Attested /\ RequiredTargetForProfile(spec.conf.profile) \notin {"", plan.target} ->
           "unattested"
      [] OTHER ->
           IF usesConfidentialSpace THEN "confidential-space"
           ELSE IF usesAzureSNP THEN "azure-snp"
           ELSE IF usesAWSNitro THEN "nitro"
           ELSE IF Attested THEN "unattested"
           ELSE adapterForTarget(plan.target)

AttestingBackends == {"confidential-space", "azure-snp", "nitro"}

\* The attesting adapters are built only from the pinned images and keys.
SelectAdapter ==
    /\ pc = "adapter"
    /\ LET b == adapterForPlan
       IN  CASE b = "" -> Refuse("no adapter") /\ UNCHANGED backend
             [] b = "unattested" -> Refuse("unattested") /\ UNCHANGED backend
             [] b \in AttestingBackends \ in.pins -> Refuse("no pins") /\ UNCHANGED backend
             [] OTHER -> /\ backend' = b
                         /\ Goto(IF Sharded THEN "launch" ELSE "preflight")
    /\ UNCHANGED <<in, Files, rows, spec, cons, plan, approved>>

\* A bounded read of every input; a source that says no and one that cannot
\* be reached both end the run.  A fan-out has no preflight.
PreflightInputs ==
    /\ pc = "preflight"
    /\ \/ Goto("gate")
       \/ in.code.inputs /\ Refuse("input")
    /\ UNCHANGED <<in, Files, rows, spec, cons, plan, approved, backend>>

\* --yes approves, a terminal is asked, and without either the run waits for
\* `dispatcher approve' until it comes or the wait ends.
ApprovalGate ==
    /\ pc = "gate"
    /\ \/ plan.approvals = {} /\ Goto("launch") /\ UNCHANGED approved
       \/ plan.approvals # {} /\ Goto("launch") /\ approved' = TRUE
       \/ plan.approvals # {} /\ ~in.flags.yes /\ Refuse("approval") /\ UNCHANGED approved
    /\ UNCHANGED <<in, Files, rows, spec, cons, plan, backend>>

validateGPUInstance == ~(spec.gpu.required /\ plan.cost.instance = "")

\* The virtual-machine adapter's own refusals come just before CreateVM.
Launch ==
    /\ pc = "launch"
    /\ CASE backend = "cloudvm" /\ ~validateGPUInstance -> Refuse("gpu")
         [] backend = "cloudvm" /\ validateGPUInstance /\ Attested -> Refuse("attestation")
         [] OTHER -> Goto("running")
    /\ UNCHANGED <<in, Files, rows, spec, cons, plan, approved, backend>>

\* The user saves dispatcher.yaml: the file is truncated, then written.
Editing == pc \in {"flags", "price", "inspect", "merge"}

Truncate ==
    /\ Editing /\ file.sort = "config" /\ versions = {file} /\ Rewrites(file) # {}
    /\ file' = Torn
    /\ UNCHANGED <<in, versions, pc, why, rows, spec, cons, plan, approved, backend>>

Write ==
    /\ Editing /\ file = Torn
    /\ \E v \in versions : file' \in Rewrites(v)
    /\ versions' = versions \union {file'}
    /\ UNCHANGED <<in, pc, why, rows, spec, cons, plan, approved, backend>>

Next ==
    \/ ParseFlags \/ loadLiveCatalogScoped \/ InspectCodebase \/ MergeConfig \/ Build
    \/ CheckPlan \/ SelectAdapter \/ PreflightInputs \/ ApprovalGate \/ Launch
    \/ Truncate \/ Write

Spec == Init /\ [][Next]_vars

-----------------------------------------------------------------------------
(***************************************************************************)
(* Properties.                                                             *)
(***************************************************************************)
\* The types.  A config that was accepted asks for a possible number of GPUs
\* and of shards.
TypeOK ==
    /\ file.sort \in {"config", "absent", "torn"} /\ Torn \notin versions
    /\ pc \in {"flags", "price", "inspect", "merge", "build", "check", "adapter",
              "preflight", "gate", "launch", "running", "refused"}
    /\ (pc = "refused") = (why # "")
    /\ approved \in BOOLEAN
    /\ spec # <<>> => spec.gpu.count \in Nat /\ spec.shard.count \in 0 .. maxShardCount
    /\ plan # NoPlan => plan.target \in {t.id : t \in Registry(in.targets)}

Running == pc = "running"

\* The cap a run is under when dispatcher.yaml reads v: the flag, else the
\* file's (0 is none).
CapUnder(v) ==
    IF in.flags.maxCost > 0 THEN in.flags.maxCost
    ELSE IF v.sort = "config" THEN v.maxCost ELSE 0

(***************************************************************************)
(* A run is never priced above its cap, all its shards together: when      *)
(* every complete content dispatcher.yaml had during planning sets a cap   *)
(* (or --max-cost does), what runs has a known estimate within it.  A read *)
(* that meets the file in mid-save must not pass for `no cap'              *)
(* (LoadConfig, orderAndFilter, checkShardFanoutCost).                     *)
(***************************************************************************)
WithinBudget ==
    Running /\ (\A v \in versions : CapUnder(v) > 0) =>
        /\ plan.cost.conf # "unknown" /\ FanoutKnown
        /\ \E v \in versions : Total <= CapUnder(v)

(***************************************************************************)
(* What runs without anybody's approval is cheap, all its shards together, *)
(* has a confirmed price if a cloud bills it, has no GPU, opens no public  *)
(* endpoint and takes no secret off this machine (policy.Evaluate, the     *)
(* approval gate, and checkShardFanoutCost for a fan-out, whose shards     *)
(* approve themselves).                                                    *)
(***************************************************************************)
ApprovedSpend ==
    Running /\ ~approved =>
        /\ FanoutKnown /\ Total <= DefaultCostAutoApprove
        /\ plan.validation.costEstimate = "pass"
        /\ plan.kind = "cloud-vm" => plan.cost.conf # "low"
        /\ ~spec.gpu.required
        /\ \A t \in Get(Registry(in.targets), plan.target) :
              ~(spec.kind = "service" /\ t.public) /\ ~(spec.secrets /\ isExternalProvider(t))

\* What an instance name stands for: the cloud's offer, else the table's row.
Machine(p, name) ==
    LET sold == {o \in Offers : o.provider = p /\ o.name = name}
    IN  IF sold # {} THEN sold
        ELSE {r \in defaultInstances : r.provider = p /\ r.name = name}

CardOf(id) == CHOOSE c \in {t.card : t \in Get(BuiltinTargets, id)} : TRUE

(***************************************************************************)
(* The machine a cloud run asks for by name really has the processors, the *)
(* memory, the GPUs and the architecture the workload needs, whatever the  *)
(* feeds left out; and a GPU workload never gets a provider's default      *)
(* machine (FindCheapest, enrichSpecsFromStatic, seedStaticGPU,            *)
(* validateGPUInstance).  Lambda's feed names no architecture, so that one *)
(* is not claimed there.                                                   *)
(***************************************************************************)
InstanceFits ==
    Running /\ backend = "cloudvm" /\ plan.kind = "cloud-vm" =>
        LET p == CardOf(plan.target)
            req == requirementsFromSpec(spec)
        IN  IF plan.cost.instance = "" THEN ~spec.gpu.required
            ELSE \A m \in Machine(p, plan.cost.instance) :
                   /\ m.vcpus >= req.vcpus /\ m.mem >= req.mem /\ m.gpus >= req.gpus
                   /\ req.model # "" => m.model = req.model
                   /\ req.arch # "" /\ p # "lambda" => m.arch = req.arch

Demands(v) == v.sort = "config" /\ v.conf.required /\ v.conf.attestation # "off"

(***************************************************************************)
(* A workload that demands attestation runs on an attesting backend or not *)
(* at all, whichever target was pinned, planned or added by the user, and  *)
(* whatever is being saved to dispatcher.yaml (adapterForPlan,             *)
(* confidentialAttestationPreflight).                                      *)
(***************************************************************************)
AttestedOrRefused ==
    Running /\ (\A v \in versions : Demands(v)) => backend \in AttestingBackends

=============================================================================
