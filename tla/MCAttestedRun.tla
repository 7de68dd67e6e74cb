---------------------------- MODULE MCAttestedRun ----------------------------
(***************************************************************************)
(* AttestedRun with an agent per back end that upholds everything, agents  *)
(* that differ from it in one claim, and plans that pin it, that pin       *)
(* nothing, or that ask for more than it has.                              *)
(***************************************************************************)
EXTENDS AttestedRun

Top == [c \in Components |-> 1]
Floor == [NoFloor EXCEPT ![2] = 1]

Good(tee) ==
  [tee |-> tee, image |-> "pinned", launch |-> "firmware", chain |-> TRUE,
   debug |-> FALSE, migrate |-> FALSE, vmpl |-> 0, tcb |-> Top,
   crl |-> "good", quoted |-> TRUE]

\* The good agent, one of another image, one not signed, one in debug mode.
Common(g) ==
  {g, [g EXCEPT !.image = "older"], [g EXCEPT !.chain = FALSE],
   [g EXCEPT !.debug = TRUE]}

SnpOnly(g) ==
  {[g EXCEPT !.migrate = TRUE], [g EXCEPT !.vmpl = 1],
   [g EXCEPT !.tcb = [Top EXCEPT ![2] = 0]], [g EXCEPT !.crl = "revoked"],
   [g EXCEPT !.crl = "unreachable"], [g EXCEPT !.launch = "older"],
   [g EXCEPT !.quoted = FALSE], [g EXCEPT !.tee = "tdx"]}

MCAgents ==
  [cs |-> Common(Good("sev")) \cup {Good("unknown"), Good("tdx")},
   azure |-> Common(Good("sev-snp")) \cup SnpOnly(Good("sev-snp")),
   nitro |-> Common(Good("nitro"))]

Plain(b) ==
  [backend |-> b, gpu |-> FALSE, image |-> "pinned", launch |-> "firmware",
   type |-> "any", minTCB |-> NoFloor, allow |-> {}, maxDuration |-> 0,
   ttl |-> 0]

MCPlans ==
  {Plain(b) : b \in Backends} \cup
  {[Plain(b) EXCEPT !.gpu = TRUE] : b \in {"cs", "nitro"}} \cup
  {[Plain(b) EXCEPT !.allow = {"older"}] : b \in {"cs", "azure"}} \cup
  {[Plain(b) EXCEPT !.image = Empty] : b \in {"cs", "nitro"}} \cup
  {[Plain("azure") EXCEPT !.launch = Empty],
   [Plain("azure") EXCEPT !.minTCB = Floor, !.allow = {"older", "pinned"}],
   [Plain("cs") EXCEPT !.minTCB = Floor],
   [Plain("cs") EXCEPT !.type = "tdx"],
   [Plain("cs") EXCEPT !.type = "sev", !.maxDuration = 1],
   [Plain("cs") EXCEPT !.ttl = 2]}
=============================================================================
