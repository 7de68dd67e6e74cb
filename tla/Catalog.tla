------------------------------ MODULE Catalog ------------------------------
(***************************************************************************)
(* The instance catalog: the built-in table of instance types, the live    *)
(* price feeds of the clouds and how they are merged, and the search for   *)
(* the cheapest instance that satisfies a workload's requirements.         *)
(*                                                                         *)
(* Prices are integers in units of $0.0001, the resolution roundCents      *)
(* keeps.  A feed is described by the offers of its cloud (what really     *)
(* can be rented where, and for how much); each fetcher keeps of an offer  *)
(* what its feed carries.                                                  *)
(***************************************************************************)
EXTENDS Integers, FiniteSets, FiniteSetsExt, Functions

CONSTANT Offers     \* what the clouds sell; see Offer below

Clouds == {"hetzner", "aws", "gcp", "azure", "oci", "lambda"}

(***************************************************************************)
(* Rows (InstanceType).  gpus = 0 means no GPU, spot = 0 no spot price,    *)
(* vcpus = 0 or mem = 0 that the feed did not say.                         *)
(***************************************************************************)
Row(p, n, c, m, price, arch) ==
    [provider |-> p, name |-> n, vcpus |-> c, mem |-> m, gpus |-> 0, model |-> "",
     price |-> price, spot |-> 0, arch |-> arch, conf |-> FALSE]

GPURow(p, n, c, m, g, model, price) ==
    [Row(p, n, c, m, price, "x86_64") EXCEPT !.gpus = g, !.model = model]

ConfRow(p, n, price) == [Row(p, n, 2, 8, price, "x86_64") EXCEPT !.conf = TRUE]

hetznerInstances ==
    LET H(n, c, m, price, a) == Row("hetzner", n, c, m, price, a)
    IN  { H("cx22", 2, 4, 60, "x86_64"), H("cx32", 4, 8, 110, "x86_64"),
          H("cx42", 8, 16, 210, "x86_64"), H("cpx21", 3, 4, 80, "x86_64"),
          H("cpx31", 4, 8, 150, "x86_64"), H("cpx41", 8, 16, 290, "x86_64"),
          H("cpx62", 16, 32, 2452, "x86_64"), H("cax11", 2, 4, 60, "arm64"),
          H("cax21", 4, 8, 80, "arm64"), H("cax31", 8, 16, 150, "arm64"),
          H("cax41", 16, 32, 290, "arm64") }

awsInstances ==
    LET A(n, c, m, price) == Row("aws", n, c, m, price, "x86_64")
        G(n, c, m, g, model, price) == GPURow("aws", n, c, m, g, model, price)
    IN  { A("t3.micro", 2, 1, 104), A("t3.small", 2, 2, 208), A("t3.medium", 2, 4, 416),
          A("t3.large", 2, 8, 832), A("m5.large", 2, 8, 960), A("m5.xlarge", 4, 16, 1920),
          A("m5.2xlarge", 8, 32, 3840), A("c5.large", 2, 4, 850),
          A("c5.xlarge", 4, 8, 1700), A("c5.2xlarge", 8, 16, 3400),
          ConfRow("aws", "m6a.large", 864),
          G("g4dn.xlarge", 4, 16, 1, "t4", 5260), G("g4dn.2xlarge", 8, 32, 1, "t4", 7520),
          G("p3.2xlarge", 8, 61, 1, "v100", 30600), G("g5.xlarge", 4, 16, 1, "a10g", 10060),
          G("p4d.24xlarge", 96, 1152, 8, "a100", 327726) }

gcpInstances ==
    LET P(n, c, m, price) == Row("gcp", n, c, m, price, "x86_64")
        G(n, c, m, g, model, price) == GPURow("gcp", n, c, m, g, model, price)
    IN  { P("e2-micro", 2, 1, 80), P("e2-small", 2, 2, 170), P("e2-medium", 2, 4, 340),
          P("e2-standard-4", 4, 16, 1340), P("e2-standard-8", 8, 32, 2680),
          P("n2-standard-2", 2, 8, 970), ConfRow("gcp", "n2d-standard-2", 850),
          P("n2-standard-4", 4, 16, 1940), P("n2-standard-8", 8, 32, 3880),
          P("c2-standard-4", 4, 16, 2100),
          Row("gcp", "t2a-standard-4", 4, 16, 1150, "arm64"),
          G("g2-standard-4", 4, 16, 1, "l4", 7000), G("a2-highgpu-1g", 12, 85, 1, "a100", 36700),
          G("a3-highgpu-1g", 26, 234, 1, "h100", 110600) }

azureInstances ==
    LET Z(n, c, m, price) == Row("azure", n, c, m, price, "x86_64")
    IN  { Z("Standard_B2s", 2, 4, 420), Z("Standard_B4ms", 4, 16, 1660),
          Z("Standard_D2s_v5", 2, 8, 960), Z("Standard_D4s_v5", 4, 16, 1920),
          Z("Standard_D8s_v5", 8, 32, 3840), Z("Standard_F4s_v2", 4, 8, 1700),
          Z("Standard_F8s_v2", 8, 16, 3400), ConfRow("azure", "Standard_DC2ads_v5", 960),
          GPURow("azure", "Standard_NC4as_T4_v3", 4, 28, 1, "t4", 5260),
          GPURow("azure", "Standard_NC24ads_A100_v4", 24, 220, 1, "a100", 36730) }

ociInstances ==
    { Row("oci", "VM.Standard.A1.Flex", 2, 12, 120, "arm64"),
      Row("oci", "VM.Standard.E4.Flex", 2, 16, 740, "x86_64"),
      Row("oci", "VM.Standard.E5.Flex", 4, 32, 1480, "x86_64") }

defaultInstances ==
    hetznerInstances \union awsInstances \union gcpInstances
        \union azureInstances \union ociInstances

(***************************************************************************)
(* Offers.  `kept' says whether the feed lists the offer in the form the   *)
(* fetcher reads: a compute product billed by the hour, not deprecated,    *)
(* not a Windows or low-priority meter, one of the priced OCI shapes.      *)
(* `price' maps the regions with capacity to the hourly price, `gpuPrice'  *)
(* is the part of it that a GCP feed prices as a GPU SKU of its own.       *)
(***************************************************************************)
Offer(p, n, c, m, arch, price, spot) ==
    [provider |-> p, name |-> n, vcpus |-> c, mem |-> m, gpus |-> 0, model |-> "",
     arch |-> arch, price |-> price, spot |-> spot, kept |-> TRUE,
     skus |-> {"cpu", "ram", "gpu"}, gpuPrice |-> 0]

isPlausibleHourlyPrice(p) == 10 <= p /\ p <= 2000000

\* A spot price counts only when it is plausible and below the on-demand price.
SpotOf(o, price) ==
    IF isPlausibleHourlyPrice(o.spot) /\ o.spot < price THEN o.spot ELSE 0

Priced(o, price, spot) ==
    [provider |-> o.provider, name |-> o.name, vcpus |-> o.vcpus, mem |-> o.mem,
     gpus |-> o.gpus, model |-> o.model, price |-> price, spot |-> spot,
     arch |-> o.arch, conf |-> FALSE]

OffersOf(p, region) == {o \in Offers : o.provider = p /\ o.kept /\ region \in DOMAIN o.price}

\* parseAWSPriceListEntry: vCPUs, memory, architecture and GPUs come with the
\* entry; an entry without a plausible hourly price is dropped.
parseAWSPriceListEntry(o, region) ==
    {Priced(o, p, 0) : p \in {q \in {o.price[region]} : isPlausibleHourlyPrice(q)}}

\* The spot overlay is best effort: when its call fails the rows keep no spot price.
AWSFetch(region, spotSeen) ==
    LET r == IF region = "" THEN "us-east-1" ELSE region
    IN  UNION {{[row EXCEPT !.spot = IF spotSeen THEN SpotOf(o, row.price) ELSE 0] :
                  row \in parseAWSPriceListEntry(o, r)} : o \in OffersOf("aws", r)}

\* A family is priced when its core and RAM SKUs are, and an accelerator
\* family only when its GPU SKU is too.
joinGCPSpecsAndPrices(o, region) ==
    LET p == o.price[region]
    IN  IF /\ {"cpu", "ram"} \subseteq o.skus
           /\ o.gpus > 0 => "gpu" \in o.skus
           /\ isPlausibleHourlyPrice(p)
        THEN {Priced(o, p, SpotOf(o, p))}
        ELSE {}

GCPFetch(region) ==
    LET r == IF region = "" THEN "us-central1" ELSE region
    IN  UNION {joinGCPSpecsAndPrices(o, r) : o \in OffersOf("gcp", r)}

\* Azure's retail feed carries a price and a name, no size and no GPU; the
\* architecture is filled in as x86_64 whatever the SKU.
azureItemToInstance(o, p) ==
    [Priced(o, p, SpotOf(o, p)) EXCEPT
        !.vcpus = 0, !.mem = 0, !.gpus = 0, !.model = "", !.arch = "x86_64"]

AzureFetch(region) ==
    LET r == IF region = "" THEN "eastus" ELSE region
    IN  {azureItemToInstance(o, o.price[r]) :
            o \in {x \in OffersOf("azure", r) : isPlausibleHourlyPrice(x.price[r])}}

\* With a location the price there, without one the cheapest location's.
cheapestHetznerPrice(o, location) ==
    IF location = "" THEN Min(Range(o.price)) ELSE o.price[location]

HetznerFetch(location) ==
    LET sold == {o \in Offers : /\ o.provider = "hetzner" /\ o.kept
                                /\ IF location = "" THEN DOMAIN o.price # {}
                                   ELSE location \in DOMAIN o.price}
    IN  {Priced(o, cheapestHetznerPrice(o, location), 0) :
            o \in {x \in sold : isPlausibleHourlyPrice(cheapestHetznerPrice(x, location))}}

\* The price list is global; a shape whose family has no rate is left out.
parseOCIPrices ==
    {Priced(o, Min(Range(o.price)), 0) :
        o \in {x \in Offers : /\ x.provider = "oci" /\ x.kept
                              /\ "cpu" \in x.skus
                              /\ isPlausibleHourlyPrice(Min(Range(x.price)))}}

\* Types without capacity (in the region, or anywhere) are dropped; the feed
\* names no architecture and the parser writes x86_64.
parseLambdaInstanceTypes(region) ==
    {[Priced(o, Min(Range(o.price)), 0) EXCEPT !.arch = "x86_64"] :
        o \in {x \in Offers : /\ x.provider = "lambda" /\ x.kept
                              /\ IF region = "" THEN DOMAIN x.price # {}
                                 ELSE region \in DOMAIN x.price}}

(***************************************************************************)
(* Merging the feeds.                                                      *)
(***************************************************************************)
SpecsOf(r) == {s \in defaultInstances : s.provider = r.provider /\ s.name = r.name}

enrichSpecsFromStatic(rows) ==
    {IF r.vcpus # 0 \/ r.mem # 0 \/ SpecsOf(r) = {}
     THEN r
     ELSE LET s == CHOOSE s \in SpecsOf(r) : TRUE
          IN  [r EXCEPT !.vcpus = s.vcpus, !.mem = s.mem, !.gpus = s.gpus,
                        !.model = s.model, !.conf = s.conf,
                        !.arch = IF r.arch = "" THEN s.arch ELSE r.arch] :
        r \in rows}

\* The static GPU and confidential rows of a provider whose feed answered
\* but carries none of that sort.
seedStaticGPU(rows, fetched) ==
    LET Has(p, Sort(_)) == \E r \in rows : r.provider = p /\ Sort(r)
        GPU(r)  == r.gpus > 0
        Conf(r) == r.conf
    IN  rows \union
        {s \in defaultInstances :
            /\ s.provider \in fetched
            /\ \/ GPU(s)  /\ ~Has(s.provider, GPU)
               \/ Conf(s) /\ ~Has(s.provider, Conf)}

\* answers[p] is what p's fetcher returned, {} when it failed, had no
\* credentials or returned nothing: such a provider is skipped.
NewLiveCatalog(answers) ==
    LET fetched == {p \in DOMAIN answers : answers[p] # {}}
    IN  seedStaticGPU(enrichSpecsFromStatic(UNION Range(answers)), fetched)

(***************************************************************************)
(* The search.  req: vcpus, mem, gpus, model, arch ("" any), conf.         *)
(***************************************************************************)
MutMatches(r, req) ==
    /\ r.vcpus > 0 => r.vcpus >= req.vcpus
    /\ r.mem > 0 => r.mem >= req.mem
    /\ IF req.gpus > 0 THEN r.gpus >= req.gpus ELSE r.gpus = 0
    /\ req.model # "" => r.model = req.model
    /\ req.conf = r.conf
    /\ req.arch # "" => r.arch = req.arch

\* FindCheapest's filters: a row without a size cannot satisfy a request for
\* one, GPU rows and confidential rows are buckets of their own.
Matches(r, req) ==
    /\ req.vcpus > 0 => r.vcpus # 0
    /\ req.mem > 0 => r.mem # 0
    /\ r.vcpus > 0 => r.vcpus >= req.vcpus
    /\ r.mem > 0 => r.mem >= req.mem
    /\ IF req.gpus > 0 THEN r.gpus >= req.gpus ELSE r.gpus = 0
    /\ req.model # "" => r.model = req.model
    /\ req.conf = r.conf
    /\ req.arch # "" => r.arch = req.arch

\* The rows that may come first: the sort by price leaves the order of
\* equally priced rows open.
FindCheapestForProvider(rows, p, req) ==
    LET found == {r \in rows : r.provider = p /\ Matches(r, req)}
    IN  {r \in found : \A q \in found : r.price <= q.price}

=============================================================================
