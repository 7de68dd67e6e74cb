----------------------------- MODULE MCPlanning -----------------------------
(***************************************************************************)
(* Planning, started from a few typical commands and everything that is at *)
(* most two changes away from one of them.                                 *)
(***************************************************************************)
EXTENDS Planning

Both(a, b) == [r \in {"us-east-1", "us-central1", "eastus", "fsn1", "eu"} |->
                  IF r = "eu" THEN b ELSE a]
Only(r, a) == [x \in {r} |-> a]

GPUOffer(p, n, c, m, arch, g, model, price) ==
    [Offer(p, n, c, m, arch, price, 0) EXCEPT !.gpus = g, !.model = model]

\* Cheap offers that must not be taken (no size in the feed, another
\* architecture, no GPU price, no capacity) beside dearer ones that fit.
MCOffers ==
    { Offer("aws", "t4g.small", 2, 2, "arm64", Both(168, 190), 50),
      Offer("aws", "m5.large", 2, 8, "x86_64", Both(960, 1150), 350),
      Offer("aws", "m5.4xlarge", 16, 64, "x86_64", Both(7680, 9200), 0),
      Offer("aws", "x0.glitch", 64, 512, "x86_64", Both(1, 1), 0),
      GPUOffer("aws", "g4dn.xlarge", 4, 16, "x86_64", 1, "t4", Both(5260, 6580)),
      GPUOffer("aws", "p4d.24xlarge", 96, 1152, "x86_64", 8, "a100", Only("us-east-1", 327726)),
      Offer("gcp", "e2-standard-2", 2, 8, "x86_64", Both(670, 740), 200),
      [GPUOffer("gcp", "g2-standard-4", 4, 16, "x86_64", 1, "l4", Both(7070, 7800))
          EXCEPT !.gpuPrice = 5600, !.skus = {"cpu", "ram"}],
      [GPUOffer("gcp", "a2-highgpu-1g", 12, 85, "x86_64", 1, "a100", Both(36700, 40000))
          EXCEPT !.gpuPrice = 29300],
      Offer("azure", "Standard_B1pts_v2", 2, 1, "arm64", Both(20, 20), 0),
      Offer("azure", "Standard_D2s_v5", 2, 8, "x86_64", Both(960, 1110), 190),
      Offer("hetzner", "cax11", 2, 4, "arm64", Both(60, 60), 0),
      Offer("hetzner", "cx23", 2, 4, "x86_64", Only("eu", 50), 0),
      Offer("hetzner", "cx32", 4, 8, "x86_64", Both(110, 110), 0),
      Offer("oci", "VM.Standard.E4.Flex", 2, 16, "x86_64", Both(740, 740), 0),
      GPUOffer("lambda", "gpu_1x_gh200", 64, 432, "arm64", 1, "gh200", Both(14900, 14900)),
      GPUOffer("lambda", "gpu_1x_a10", 30, 200, "x86_64", 1, "a10", Only("us-east-1", 7500)) }

MCHostArch == "x86_64"

Code0 == [framework |-> FALSE, ports |-> FALSE, dockerfile |-> FALSE, compose |-> FALSE,
          runtime |-> TRUE, secrets |-> FALSE, outputs |-> FALSE, inputs |-> FALSE]

Flags0 == [maxCost |-> 0, optimize |-> "cost", target |-> "", region |-> "", spot |-> FALSE,
           gpu |-> NoGPU, yes |-> FALSE, allowSSH |-> ""]

File0 == [sort |-> "config", known |-> TRUE, command |-> TRUE, image |-> FALSE, cpu |-> 0,
          mem |-> 0, arch |-> "", maxCost |-> 0, target |-> "", region |-> "", spot |-> FALSE,
          conf |-> NoConf, shard |-> [count |-> 0, discover |-> FALSE],
          aggregate |-> "absent", gpu |-> NoGPU, service |-> FALSE, sandbox |-> FALSE,
          outputs |-> FALSE]

Start(flags, f) ==
    [code |-> Code0, flags |-> flags, file |-> f, offline |-> FALSE, down |-> {},
     spotSeen |-> TRUE, targets |-> <<>>, pins |-> AttestingBackends]

GPUOf(n, model) == [required |-> TRUE, count |-> n, model |-> model]
ConfOf(type, profile, attestation) ==
    [required |-> TRUE, type |-> type, profile |-> profile, attestation |-> attestation]
ShardOf(n, d) == [count |-> n, discover |-> d]

Host == [DefaultCapabilities("myhost", "ssh") EXCEPT
            !.ssh = [host |-> "10.0.0.7", user |-> "", port |-> 0, keyFile |-> ""]]
BadHost == [Host EXCEPT !.id = "bad", !.ssh.user = "-o"]
TrustedHost == [Host EXCEPT !.conf = {"sev"}]
BatchHost == [Host EXCEPT !.services = FALSE, !.ssh = NoSSH]
Cluster == DefaultCapabilities("mycluster", "kubernetes")
Custom == DefaultCapabilities("aws-vm", "cloud-vm")

Bases ==
    { Start(Flags0, NoFile),
      Start([Flags0 EXCEPT !.target = "aws-vm"], [File0 EXCEPT !.maxCost = 3000]),
      Start([Flags0 EXCEPT !.gpu = GPUOf(1, ""), !.yes = TRUE], NoFile),
      Start(Flags0, [File0 EXCEPT !.conf = ConfOf("", "", "")]),
      Start([Flags0 EXCEPT !.target = "gcp-vm"],
            [File0 EXCEPT !.shard = ShardOf(4, FALSE), !.maxCost = 30000]) }

FlagEdits(f) ==
         {[f EXCEPT !.maxCost = x]  : x \in {-1, 2000, 100000}}
    \union {[f EXCEPT !.optimize = x] : x \in {"speed", "size"}}
    \union {[f EXCEPT !.target = x]   : x \in {"", "aws-vm", "azure-vm", "hetzner-vm", "lambda-vm",
                                               "ssh", "myhost", "local-docker", "nosuch"}}
    \union {[f EXCEPT !.region = "eu"], [f EXCEPT !.spot = TRUE], [f EXCEPT !.yes = ~@]}
    \union {[f EXCEPT !.gpu = x]      : x \in {GPUOf(1, "l4"), GPUOf(1, "gh200"), GPUOf(8, "a100"),
                                               GPUOf(-1, "")}}
    \union {[f EXCEPT !.allowSSH = x] : x \in {"cidr", "invalid"}}

FileEdits(f) ==
    IF f = NoFile THEN {File0}
    ELSE {NoFile, [f EXCEPT !.known = FALSE], [f EXCEPT !.command = FALSE, !.image = TRUE],
          [f EXCEPT !.target = "oci-vm"], [f EXCEPT !.region = "eu"], [f EXCEPT !.spot = TRUE],
          [f EXCEPT !.service = TRUE], [f EXCEPT !.sandbox = TRUE], [f EXCEPT !.outputs = TRUE],
          [f EXCEPT !.gpu = GPUOf(0, "t4")], [f EXCEPT !.aggregate = "none"],
          [f EXCEPT !.arch = "arm64"], [f EXCEPT !.mem = 16]}
         \union {[f EXCEPT !.maxCost = x] : x \in {-1, 300, 60000}}
         \union {[f EXCEPT !.cpu = x] : x \in {4, 16, 64}}
         \union {[f EXCEPT !.shard = x] : x \in {ShardOf(4, FALSE), ShardOf(0, TRUE),
                                                 ShardOf(2, TRUE), ShardOf(10001, FALSE)}}
         \union {[f EXCEPT !.conf = x] : x \in {ConfOf("any", "nitro", ""),
                    ConfOf("sev-snp", "azure-snp", "required"), ConfOf("", "", "off")}}

Edits(s) ==
         {[s EXCEPT !.flags = x] : x \in FlagEdits(s.flags)}
    \union {[s EXCEPT !.file = x] : x \in FileEdits(s.file)}
    \union {[s EXCEPT !.code[k] = ~@] : k \in DOMAIN Code0}
    \union {[s EXCEPT !.down = x] : x \in {{"aws"}, {"gcp"}, Clouds}}
    \union {[s EXCEPT !.targets = x] : x \in {<<Host>>, <<BadHost, Host>>, <<TrustedHost, BadHost>>,
                                              <<BatchHost, Cluster>>, <<Cluster, Custom, Host>>}}
    \union {[s EXCEPT !.offline = TRUE], [s EXCEPT !.spotSeen = FALSE], [s EXCEPT !.pins = {}]}

MCScenarios ==
    LET near == Bases \union UNION {Edits(s) : s \in Bases}
    IN  near \union UNION {Edits(s) : s \in near}

MCRewrites(f) ==
    IF f.sort # "config" \/ (f.maxCost <= 0 /\ ~f.conf.required) THEN {}
    ELSE {[f EXCEPT !.maxCost = 2 * @], [f EXCEPT !.shard = ShardOf(8, FALSE)]}

=============================================================================
