---------------------------- MODULE ApprovalGate ----------------------------
(***************************************************************************)
(* The approval gate of one run: approval.Gate and its clients             *)
(* (internal/approval/store.go), as Execute uses it.  Execute opens the    *)
(* gate's socket, waits for the first decision of an in-process approver   *)
(* (a terminal prompt or --yes) or of a `dispatcher approve` or `deny` in  *)
(* another process, and closes the gate only when Execute itself returns.  *)
(*                                                                         *)
(* An actor is a client (one `approve` or `deny` command) or the           *)
(* in-process approver.  A connection that sends no decision (a probe of   *)
(* ListPending) leaves the gate as it is and is not modelled.              *)
(***************************************************************************)
EXTENDS FiniteSets

CONSTANTS
  Clients,  \* the external approve and deny commands
  Approver  \* the in-process approver

ASSUME GateAssumption == Approver \notin Clients

Actors == Clients \cup {Approver}

Decision == {"approved", "denied"}

NoDecision == [decision |-> "none", decider |-> Approver]

VARIABLES
  main,      \* where Execute is
  outcome,   \* what Wait returned
  settled,   \* Gate.settled; resultCh is closed exactly when it is TRUE
  abandoned, \* Gate.abandoned
  result,    \* Gate.result
  said,      \* the decision of each actor
  handled,   \* what became of it at the gate
  reply,     \* what each client was told
  ctxDone    \* the run's context is canceled

gate == <<settled, abandoned, result>>
actors == <<said, handled, reply>>
vars == <<main, outcome, gate, actors, ctxDone>>

-----------------------------------------------------------------------------
(***************************************************************************)
(* settle(d) accepts d: the first decision, or a denial after an approval. *)
(***************************************************************************)
Accepts(d) ==
  /\ ~abandoned
  /\ ~settled \/ (d.decision = "denied" /\ result.decision = "approved")

Settle(d) ==
  IF Accepts(d)
  THEN settled' = TRUE /\ result' = d
  ELSE UNCHANGED <<settled, result>>

\* The decision of actor a as settle gets it.
Says(a) == [decision |-> said[a], decider |-> a]

-----------------------------------------------------------------------------
(***************************************************************************)
(* NewGate listens, and clients can connect from then on.  It may fail.    *)
(***************************************************************************)
NewGate ==
  /\ main = "start"
  /\ main' \in {"open", "failed"}
  /\ UNCHANGED <<outcome, gate, actors, ctxDone>>

\* Wait starts the in-process approver, if there is one, and blocks.
Wait ==
  /\ main = "open"
  /\ main' = "waiting"
  /\ \E st \in {"deciding", "idle"} :
       handled' = [handled EXCEPT ![Approver] = st]
  /\ UNCHANGED <<outcome, gate, said, reply, ctxDone>>

\* The approver returns; an error counts as a denial.
ApproverReturns ==
  /\ handled[Approver] = "deciding" /\ main # "exited"
  /\ handled' = [handled EXCEPT ![Approver] = "sent"]
  /\ \E d \in Decision : said' = [said EXCEPT ![Approver] = d]
  /\ UNCHANGED <<main, outcome, gate, reply, ctxDone>>

Listening == main \in {"open", "waiting", "returned"}

\* Connect to the socket and write the decision.
SendDecision(c) ==
  /\ handled[c] = "idle" /\ Listening
  /\ handled' = [handled EXCEPT ![c] = "sent"]
  /\ \E d \in Decision : said' = [said EXCEPT ![c] = d]
  /\ UNCHANGED <<main, outcome, gate, reply, ctxDone>>

(***************************************************************************)
(* handleConn settles the decision of a client; the approver's goroutine   *)
(* ends in the same call.  A connection accepted before Close is still     *)
(* handled after it.                                                       *)
(***************************************************************************)
Decide(a) ==
  /\ handled[a] = "sent" /\ main # "exited"
  /\ Settle(Says(a))
  /\ handled' = [handled EXCEPT
                   ![a] = IF Accepts(Says(a)) THEN "accepted" ELSE "refused"]
  /\ UNCHANGED <<main, outcome, abandoned, said, reply, ctxDone>>

\* handleConn answers and SendDecision returns.
Reply(c) ==
  /\ handled[c] \in {"accepted", "refused"} /\ reply[c] = "none"
  /\ main # "exited"
  /\ reply' = [reply EXCEPT
                 ![c] = IF handled[c] = "accepted" THEN "ok" ELSE "error"]
  /\ UNCHANGED <<main, outcome, gate, said, handled, ctxDone>>

(***************************************************************************)
(* SendDecision gives up: its deadline passes or the connection breaks.    *)
(* The gate may have the decision, or still get it.                        *)
(***************************************************************************)
ReplyLost(c) ==
  /\ handled[c] # "idle" /\ reply[c] = "none"
  /\ reply' = [reply EXCEPT ![c] = "error"]
  /\ UNCHANGED <<main, outcome, gate, said, handled, ctxDone>>

\* A client that finds no listener fails at once.
NoListener(c) ==
  /\ handled[c] = "idle" /\ reply[c] = "none" /\ ~Listening
  /\ reply' = [reply EXCEPT ![c] = "error"]
  /\ UNCHANGED <<main, outcome, gate, said, handled, ctxDone>>

Cancel ==
  /\ ~ctxDone /\ main # "exited"
  /\ ctxDone' = TRUE
  /\ UNCHANGED <<main, outcome, gate, actors>>

\* Mutant: Wait notices the cancellation only with a decision at hand.
MutWaitCanceled ==
  /\ main = "waiting" /\ ctxDone /\ settled
  /\ main' = "returned"
  /\ outcome' = [decision |-> "canceled", decider |-> Approver]
  /\ UNCHANGED <<gate, actors, ctxDone>>

\* abandon does nothing on a gate that is settled.
WaitCanceled ==
  /\ main = "waiting" /\ ctxDone
  /\ main' = "returned"
  /\ outcome' = [decision |-> "canceled", decider |-> Approver]
  /\ abandoned' = (abandoned \/ ~settled)
  /\ UNCHANGED <<settled, result, actors, ctxDone>>

\* Mutant: the gate stays open after its decision was read.
MutWaitDecided ==
  /\ main = "waiting" /\ settled
  /\ main' = "returned"
  /\ outcome' = result
  /\ UNCHANGED <<settled, abandoned, result, actors, ctxDone>>

\* Read the result and close the gate to decisions, under one lock.
WaitDecided ==
  /\ main = "waiting" /\ settled
  /\ main' = "returned"
  /\ outcome' = result
  /\ abandoned' = TRUE
  /\ UNCHANGED <<settled, result, actors, ctxDone>>

\* The deferred gate.Close, when Execute returns.
Close ==
  /\ main = "returned"
  /\ main' = "closed"
  /\ UNCHANGED <<outcome, gate, actors, ctxDone>>

\* The process exits or is killed.
ProcessExits ==
  /\ main # "exited"
  /\ main' = "exited"
  /\ UNCHANGED <<outcome, gate, actors, ctxDone>>

Exited == main = "exited" /\ UNCHANGED vars

Init ==
  /\ main = "start"
  /\ outcome = NoDecision
  /\ settled = FALSE /\ abandoned = FALSE /\ result = NoDecision
  /\ said = [a \in Actors |-> "none"]
  /\ handled = [a \in Actors |-> "idle"]
  /\ reply = [c \in Clients |-> "none"]
  /\ ctxDone = FALSE

Next ==
  \/ NewGate \/ Wait \/ ApproverReturns
  \/ \E a \in Actors : Decide(a)
  \/ \E c \in Clients :
       SendDecision(c) \/ Reply(c) \/ ReplyLost(c) \/ NoListener(c)
  \/ Cancel \/ WaitCanceled \/ WaitDecided \/ Close
  \/ ProcessExits \/ Exited

Spec == Init /\ [][Next]_vars

(***************************************************************************)
(* A goroutine that can run does, and SendDecision has a deadline.  The    *)
(* approver may leave its prompt unanswered for ever.                      *)
(***************************************************************************)
Fairness ==
  /\ WF_vars(WaitCanceled \/ WaitDecided)
  /\ \A a \in Actors : WF_vars(Decide(a))
  /\ \A c \in Clients : WF_vars(Reply(c) \/ ReplyLost(c))

FairSpec == Spec /\ Fairness

-----------------------------------------------------------------------------
(***************************************************************************)
(* The shape of the state.                                                 *)
(***************************************************************************)
TypeOK ==
  /\ main \in {"start", "open", "failed", "waiting", "returned", "closed",
               "exited"}
  /\ outcome \in [decision : Decision \cup {"none", "canceled"},
                  decider : Actors]
  /\ settled \in BOOLEAN /\ abandoned \in BOOLEAN
  /\ result \in [decision : Decision \cup {"none"}, decider : Actors]
  /\ said \in [Actors -> Decision \cup {"none"}]
  /\ handled \in [Actors -> {"idle", "deciding", "sent", "accepted", "refused"}]
  /\ reply \in [Clients -> {"none", "ok", "error"}]
  /\ ctxDone \in BOOLEAN

(***************************************************************************)
(* A run goes on only if no denial was ever accepted: however approvals    *)
(* and denials race each other and Wait, a denial that the gate accepts is *)
(* what Wait returns, and one that comes too late is refused, not          *)
(* acknowledged and dropped.                                               *)
(***************************************************************************)
AcceptedDenialHolds ==
  outcome.decision = "approved" =>
    \A a \in Actors : handled[a] = "accepted" => said[a] = "approved"

(***************************************************************************)
(* The Record that Wait returns names an actor that made this decision and *)
(* whose decision was accepted, even when a denial replaced an approval.   *)
(***************************************************************************)
RecordNamesDecider ==
  outcome.decision \in Decision =>
    /\ said[outcome.decider] = outcome.decision
    /\ handled[outcome.decider] = "accepted"

(***************************************************************************)
(* Two approvals are never both acknowledged: the gate is single-shot, and *)
(* only a denial can follow an accepted approval.                          *)
(***************************************************************************)
SingleShot ==
  \A a, b \in Actors :
    /\ handled[a] = "accepted" /\ handled[b] = "accepted"
    /\ said[a] = said[b]
    => a = b

(***************************************************************************)
(* Once Wait has returned on a cancellation, the gate, open until Execute  *)
(* returns, accepts no approval any more.  It may still accept a denial,   *)
(* when the cancellation raced an approval that had settled the gate.      *)
(***************************************************************************)
CanceledGateApprovesNothing ==
  [][outcome.decision = "canceled" =>
       \A a \in Actors :
         handled[a] # "accepted" /\ handled'[a] = "accepted" =>
           said[a] = "denied" /\ result.decision = "approved"]_vars

(***************************************************************************)
(* The inductive form of these: resultCh is closed exactly when a      *)
(* decision was recorded, the recorded decision is an accepted one of its  *)
(* decider, an approval is recorded only while every accepted decision is  *)
(* that approval, what Wait returned is final because the gate was         *)
(* abandoned in the same step, and a canceled gate is abandoned or settled.*)
(***************************************************************************)
GateInv ==
  /\ TypeOK
  /\ settled <=> result.decision # "none"
  /\ \A a \in Actors : handled[a] = "accepted" => settled
  /\ settled => /\ said[result.decider] = result.decision
                /\ handled[result.decider] = "accepted"
  /\ \A a \in Actors : handled[a] \in {"sent", "accepted"} => said[a] \in Decision
  /\ \A a \in Actors :
       handled[a] = "accepted" /\ said[a] = result.decision => a = result.decider
  /\ \A a \in Actors :
       handled[a] = "accepted" /\ said[a] = "denied" => result.decision = "denied"
  /\ main \in {"start", "open", "failed", "waiting"} => outcome.decision = "none"
  /\ main \in {"start", "open"} => handled[Approver] = "idle"
  /\ outcome.decision \in Decision => abandoned /\ settled /\ outcome = result
  /\ outcome.decision = "canceled" => abandoned \/ settled
  /\ SingleShot

(***************************************************************************)
(* Wait returns once a decision is accepted or the context is canceled,    *)
(* unless the process dies.                                                *)
(***************************************************************************)
WaitReturns ==
  main = "waiting" /\ (settled \/ ctxDone) ~> main # "waiting"

=============================================================================
