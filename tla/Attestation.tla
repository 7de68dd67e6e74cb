----------------------------- MODULE Attestation -----------------------------
(***************************************************************************)
(* What an agent inside a trusted execution environment (TEE) attests, and *)
(* what the verifier of each confidential back end demands of it           *)
(* (internal/attest).                                                      *)
(*                                                                         *)
(* A signature, a certificate chain or a hash is what it proves: chain     *)
(* says that the evidence is signed under the root of the platform tee,    *)
(* bind is the session it commits to.  A TCB is a number per component.    *)
(***************************************************************************)
EXTENDS Integers, Sequences

Backends == {"cs", "azure", "nitro"}

\* A pin, a type or a digest that is not given.
Empty == ""

\* The types a run can ask for, and the platforms a token can name.
TeeTypes == {"sev", "sev-snp", "tdx"}
Platforms == TeeTypes \cup {"nitro", "unknown"}

Svn == 0..1
Components == 1..4
NoFloor == [c \in Components |-> 0]

\* tee, image and launch: platform, measurement of the image that holds the
\* agent, and of the firmware.  crl: what AMD's revocation list says, if it
\* can be had.  quoted: the signed quote covers the image's register.
Claims ==
  [tee : Platforms, image : STRING, launch : STRING, chain : BOOLEAN,
   debug : BOOLEAN, migrate : BOOLEAN, vmpl : 0..1,
   tcb : [Components -> Svn], crl : {"good", "revoked", "unreachable"},
   quoted : BOOLEAN]

\* What the hash of the server's key and the session's exporter stands for.
bindData(certSPKI, exporter) == <<certSPKI, exporter>>

(***************************************************************************)
(* The verifiers: evidence e, the run's pins and requirements p, and the   *)
(* nonce and binding dispatcher expects.                                   *)
(***************************************************************************)
\* Empty for a platform the token names and the verifier does not know.
csTEEType(hwmodel) == IF hwmodel \in TeeTypes THEN hwmodel ELSE Empty

measurementAllowed(measurement, allowlist) == measurement \in allowlist

verifyCSToken(e, p, nonce, bind) ==
  /\ e.claims.chain
  /\ e.nonce = nonce /\ e.bind = bind
  /\ csTEEType(e.claims.tee) # Empty
  /\ ~e.claims.debug
  /\ p.type \in {Empty, "any", csTEEType(e.claims.tee)}
  /\ measurementAllowed(e.claims.image, {p.image})

CSValidator(e, p, nonce, bind) ==
  p.minTCB = NoFloor /\ verifyCSToken(e, p, nonce, bind)

\* The registers of an enclave in debug mode are all zeros.
verifyNitroDoc(e, p, nonce) ==
  /\ e.claims.tee = "nitro" /\ e.claims.chain
  /\ e.nonce = nonce
  /\ p.image # Empty
  /\ ~e.claims.debug /\ e.claims.image = p.image

\* Mutant: the document's key is not compared with the session.
MutNitroValidator(e, p, nonce, bind) ==
  verifyNitroDoc(e, p, nonce)

NitroValidator(e, p, nonce, bind) ==
  verifyNitroDoc(e, p, nonce) /\ e.bind = bind

tcbComponentsGTE(reported, minimum) ==
  \A c \in Components : reported[c] >= minimum[c]

azureSNPCheckRevocation(crl) == crl = "good"

\* Mutant: a list that cannot be fetched revokes nothing.
MutVerifyAzureSNPEvidence(e, p, nonce) ==
  /\ e.claims.tee = "sev-snp" /\ e.claims.chain /\ e.claims.crl # "revoked"
  /\ ~e.claims.debug /\ ~e.claims.migrate /\ e.claims.vmpl = 0
  /\ tcbComponentsGTE(e.claims.tcb, p.minTCB)
  /\ e.nonce = nonce

verifyAzureSNPEvidence(e, p, nonce) ==
  /\ e.claims.tee = "sev-snp" /\ e.claims.chain
  /\ azureSNPCheckRevocation(e.claims.crl)
  /\ ~e.claims.debug /\ ~e.claims.migrate /\ e.claims.vmpl = 0
  /\ tcbComponentsGTE(e.claims.tcb, p.minTCB)
  /\ e.nonce = nonce

verifyAzureSNP(e, p, nonce) ==
  /\ verifyAzureSNPEvidence(e, p, nonce)
  /\ p.launch # Empty /\ e.claims.launch = p.launch
  /\ p.image # Empty /\ e.claims.quoted /\ e.claims.image = p.image

AzureSNPValidator(e, p, nonce, bind) ==
  verifyAzureSNP(e, p, nonce) /\ e.bind = bind

Verified(e, p, nonce, bind) ==
  CASE p.backend = "cs" -> CSValidator(e, p, nonce, bind)
    [] p.backend = "azure" -> AzureSNPValidator(e, p, nonce, bind)
    [] p.backend = "nitro" -> NitroValidator(e, p, nonce, bind)

-----------------------------------------------------------------------------
(***************************************************************************)
(* The enforcement matrix that the documentation renders: what each back   *)
(* end is said to check.  Session binding and freshness are about the      *)
(* exchange, the other controls about the agent.                           *)
(***************************************************************************)
Controls == {"genuine", "measurement", "debugOff", "migrationOff", "minTCB",
             "revocation"}

ConfidentialMatrix ==
  [cs |-> [genuine |-> "enforced", measurement |-> "enforced",
           debugOff |-> "enforced", migrationOff |-> "n/a",
           minTCB |-> "fail-closed", revocation |-> "n/a"],
   azure |-> [c \in Controls |-> "enforced"],
   nitro |-> [genuine |-> "enforced", measurement |-> "enforced",
              debugOff |-> "n/a", migrationOff |-> "n/a",
              minTCB |-> "n/a", revocation |-> "n/a"]]

\* What a control demands of an agent.
Upholds(control, c, p) ==
  CASE control = "genuine" -> c.chain
    [] control = "measurement" -> c.image = p.image /\ p.image # Empty
    [] control = "debugOff" -> ~c.debug
    [] control = "migrationOff" -> ~c.migrate
    [] control = "minTCB" -> \A k \in Components : c.tcb[k] >= p.minTCB[k]
    [] control = "revocation" -> c.crl = "good"

\* The run asks for the control.
Requests(control, p) == control = "minTCB" => p.minTCB # NoFloor
=============================================================================
