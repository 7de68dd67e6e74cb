------------------------------ MODULE Targets ------------------------------
(***************************************************************************)
(* The targets a workload can be sent to (the built-in ones and the ones   *)
(* the user has added) and which of them can run a given workload.         *)
(*                                                                         *)
(* A workload spec is a record with the fields `kind', `gpu' (required,    *)
(* count, model), `conf' (required, type, profile, attestation), `arch',   *)
(* `sandbox' and others this module does not read.                         *)
(***************************************************************************)
EXTENDS Integers, Sequences, SequencesExt

CONSTANT HostArch       \* the architecture dispatcher itself runs on

Basic    == {"script", "job"}
Packaged == Basic \union {"container", "service"}
AnyKind  == Packaged \union {"gpu-job"}

NoSSH == [host |-> "", user |-> "", port |-> 0, keyFile |-> ""]

\* Without GPUs and confidential machines, reachable only from this host.
Plain(id, kind, kinds, levels, card) ==
    [id |-> id, kind |-> kind, enabled |-> TRUE, kinds |-> kinds, gpu |-> FALSE, models |-> {},
     conf |-> {}, levels |-> levels, public |-> FALSE, card |-> card, services |-> TRUE,
     ssh |-> NoSSH]

CloudTarget(id, kinds, card) ==
    [Plain(id, "cloud-vm", kinds, {"vm"}, card) EXCEPT !.public = TRUE]

LocalProcess == Plain("local-process", "local", Basic, {"process"}, "local")
LocalDocker  == Plain("local-docker", "docker", Packaged, {"container"}, "local")
LimaVM       == Plain("lima-vm", "local-vm", Packaged, {"vm"}, "local")
FirecrackerVM == Plain("firecracker-vm", "local-vm", Basic, {"vm"}, "local")
SSH          == [Plain("ssh", "ssh", Packaged, {"process", "container"}, "ssh")
                    EXCEPT !.public = TRUE]
Kubernetes   == [Plain("kubernetes", "kubernetes", AnyKind, {"container", "dedicated-node"}, "internal")
                    EXCEPT !.public = TRUE, !.gpu = TRUE, !.models = {"a10", "l4"}]
AWSVM        == [CloudTarget("aws-vm", AnyKind, "aws")
                    EXCEPT !.gpu = TRUE, !.models = {"t4", "a10g", "a100"}, !.conf = {"sev-snp"}]
GCPVM        == [CloudTarget("gcp-vm", AnyKind, "gcp")
                    EXCEPT !.gpu = TRUE, !.models = {"l4", "a100", "h100"}, !.conf = {"sev"}]
AzureVM      == [CloudTarget("azure-vm", AnyKind, "azure")
                    EXCEPT !.gpu = TRUE, !.models = {"t4", "a100"}, !.conf = {"sev-snp", "tdx"}]
HetznerVM    == CloudTarget("hetzner-vm", AnyKind, "hetzner")
OCIVM        == CloudTarget("oci-vm", Packaged, "oci")
LambdaVM     == [CloudTarget("lambda-vm", AnyKind, "lambda")
                    EXCEPT !.gpu = TRUE, !.models = {"a100", "h100", "gh200", "a10", "a6000"}]

BuiltinTargets ==
    {LocalProcess, LocalDocker, LimaVM, FirecrackerVM, SSH, Kubernetes, AWSVM, GCPVM,
     AzureVM, HetznerVM, OCIVM, LambdaVM}

reservedIDs == {t.id : t \in BuiltinTargets}

(***************************************************************************)
(* User targets: the files of the targets directory in order, then the     *)
(* project's.  The first bad one ends the loading; those before it stay.   *)
(***************************************************************************)
\* What `targets add' and the importer give a target of a kind.
DefaultCapabilities(id, kind) ==
    CASE kind = "docker" -> Plain(id, kind, Packaged, {"container"}, "local")
      [] kind = "ssh" -> [SSH EXCEPT !.id = id]
      [] kind = "kubernetes" ->
           [Kubernetes EXCEPT !.id = id, !.kinds = AnyKind \ {"script"}, !.models = {}]
      [] OTHER -> Plain(id, kind, Basic, {}, "")

\* Words that ssh would read as an option or as two arguments.
BadWords == {"-o", "a b"}

ValidateSSHTarget(c) ==
    /\ c.host # "" /\ {c.host, c.user} \intersect BadWords = {}
    /\ c.port \in 0 .. 65535 /\ c.keyFile # "-o"

Loadable(t) ==
    /\ t.id # "" /\ t.id \notin reservedIDs
    /\ t.ssh # NoSSH => ValidateSSHTarget(t.ssh)

\* The targets before the first one that cannot be loaded.
LoadUserConfig(files) ==
    LET Prefix(n) == \A i \in 1 .. n : Loadable(files[i])
    IN  {files[i] : i \in {j \in 1 .. Len(files) : Prefix(j)}}

\* LoadBuiltins then LoadUserConfig; its error is only logged.
Registry(files) == BuiltinTargets \union LoadUserConfig(files)

Get(registry, id) == {t \in registry : t.id = id}

(***************************************************************************)
(* Feasibility.                                                            *)
(***************************************************************************)
RequiredTargetForProfile(profile) ==
    CASE profile = "nitro" -> "aws-vm"
      [] profile = "azure-snp" -> "azure-vm"
      [] OTHER -> ""

isHostBound(kind) == kind \in {"local", "docker", "local-vm"}

offersIsolation(levels) == levels \ {"", "process"} # {}

\* A model is asked of a target that names its models; one that names none
\* cannot confirm any.
offersGPU(t, w) ==
    w.gpu.required => t.gpu /\ (w.gpu.model # "" => w.gpu.model \in t.models)

\* The attested backends are tied to a cloud and, on AWS and Azure, to a
\* measured profile; none of them has a GPU.
offersConfidential(t, w) ==
    w.conf.required =>
        /\ t.conf # {}
        /\ w.conf.type \notin {"", "any"} => w.conf.type \in t.conf
        /\ ~w.gpu.required
        /\ RequiredTargetForProfile(w.conf.profile) \in {"", t.id}
        /\ w.conf.attestation # "off" =>
              /\ t.id = "aws-vm" => w.conf.profile = "nitro"
              /\ t.id = "azure-vm" => w.conf.profile = "azure-snp"

CheckFeasibility(t, w) ==
    /\ t.enabled
    /\ w.kind \in t.kinds
    /\ offersGPU(t, w)
    /\ offersConfidential(t, w)
    /\ w.arch # "" /\ isHostBound(t.kind) => w.arch = HostArch
    /\ w.sandbox => offersIsolation(t.levels)
    /\ w.kind = "service" => t.services

=============================================================================
