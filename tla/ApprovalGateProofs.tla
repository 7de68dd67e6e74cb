------------------------- MODULE ApprovalGateProofs -------------------------
(***************************************************************************)
(* Proofs about the approval gate, for any set of clients.                 *)
(***************************************************************************)
EXTENDS ApprovalGate, TLAPS

(***************************************************************************)
(* A gate that was just opened satisfies the inductive invariant.          *)
(***************************************************************************)
LEMMA GateInit == Init => GateInv
<1> SUFFICES ASSUME Init PROVE GateInv
  OBVIOUS
<1>1. ~settled /\ ~abandoned /\ ~ctxDone
  BY DEF Init
<1>2. settled \in BOOLEAN /\ abandoned \in BOOLEAN /\ ctxDone \in BOOLEAN
  BY Zenon DEF Init
<1>3. /\ main = "start" /\ outcome = NoDecision /\ result = NoDecision
      /\ said = [a \in Actors |-> "none"]
      /\ handled = [a \in Actors |-> "idle"]
      /\ reply = [c \in Clients |-> "none"]
      /\ Approver \in Actors
  BY DEF Init, Actors
<1> QED
  BY <1>1, <1>2, <1>3 DEF GateInv, TypeOK, SingleShot, NoDecision, Decision

(***************************************************************************)
(* settle, on behalf of one actor, keeps the invariant.                    *)
(***************************************************************************)
LEMMA DecideStep ==
  ASSUME GateInv, NEW x \in Actors, Decide(x)
  PROVE  GateInv'
<1> DEFINE d == Says(x)
<1>0. /\ said[x] \in Decision /\ handled[x] = "sent"
      /\ d = [decision |-> said[x], decider |-> x]
      /\ d.decision = said[x] /\ d.decider = x
  BY DEF GateInv, Decide, Says
<1>1. CASE Accepts(d)
  <2>1. settled' = TRUE /\ result' = d
    BY <1>1 DEF Decide, Settle
  <2>2. handled' = [handled EXCEPT ![x] = "accepted"]
    BY <1>1 DEF Decide
  <2>3. UNCHANGED <<main, outcome, abandoned, said, reply, ctxDone>>
    BY DEF Decide
  <2>4. ~abandoned /\ (~settled \/ (said[x] = "denied" /\ result.decision = "approved"))
    BY <1>0, <1>1 DEF Accepts
  <2>5. TypeOK'
    BY <1>0, <2>1, <2>2, <2>3 DEF GateInv, TypeOK, Decision
  <2>6. \A a \in Actors : handled'[a] = IF a = x THEN "accepted" ELSE handled[a]
    BY <2>2 DEF GateInv, TypeOK
  <2>7. /\ result'.decision = said[x] /\ result'.decider = x
        /\ said' = said
    BY <1>0, <2>1, <2>3
  <2>8. \A a \in Actors \ {x} :
          handled[a] = "accepted" => said[a] # said[x]
    BY <1>0, <2>4 DEF GateInv, Decision
  <2>9. \A a \in Actors \ {x} :
          handled[a] = "accepted" /\ said[a] = "denied" => FALSE
    BY <1>0, <2>4 DEF GateInv, Decision
  <2>10. SingleShot'
    BY <2>6, <2>7, <2>8 DEF GateInv, SingleShot
  <2>11. outcome.decision \notin Decision
    BY <2>4 DEF GateInv
  <2>12. Approver \in Actors /\ main' = main /\ outcome' = outcome
    BY <2>3 DEF Actors
  <2>13. main \notin {"start", "open"} \/ x # Approver
    BY <1>0 DEF GateInv
  <2> QED
    BY <1>0, <2>1, <2>5, <2>6, <2>7, <2>8, <2>9, <2>10, <2>11, <2>12, <2>13
    DEF GateInv, Decision
<1>2. CASE ~Accepts(d)
  <2>1. UNCHANGED <<settled, result>>
    BY <1>2 DEF Decide, Settle
  <2>2. handled' = [handled EXCEPT ![x] = "refused"]
    BY <1>2 DEF Decide
  <2>3. UNCHANGED <<main, outcome, abandoned, said, reply, ctxDone>>
    BY DEF Decide
  <2> QED
    BY <1>0, <2>1, <2>2, <2>3 DEF GateInv, TypeOK, SingleShot, Actors
<1> QED BY <1>1, <1>2

(***************************************************************************)
(* Every step of Wait, of the clients and of the process keeps the         *)
(* invariant.                                                              *)
(***************************************************************************)
LEMMA GateStep == GateInv /\ [Next]_vars => GateInv'
<1> SUFFICES ASSUME GateInv, [Next]_vars PROVE GateInv'
  OBVIOUS
<1>0. Approver \in Actors /\ Clients \subseteq Actors /\ Approver \notin Clients
  BY GateAssumption DEF Actors
<1> USE <1>0
<1>1. CASE NewGate
  BY <1>1 DEF NewGate, gate, actors, GateInv, TypeOK, SingleShot
<1>2. CASE Wait
  BY <1>2 DEF Wait, gate, GateInv, TypeOK, SingleShot
<1>3. CASE ApproverReturns
  BY <1>3 DEF ApproverReturns, gate, GateInv, TypeOK, SingleShot, Decision
<1>4. ASSUME NEW a \in Actors, Decide(a) PROVE GateInv'
  BY <1>4, DecideStep
<1>5. ASSUME NEW c \in Clients, SendDecision(c) PROVE GateInv'
  BY <1>5 DEF SendDecision, gate, GateInv, TypeOK, SingleShot, Decision
<1>6. ASSUME NEW c \in Clients, Reply(c) \/ ReplyLost(c) \/ NoListener(c)
      PROVE  GateInv'
  BY <1>6 DEF Reply, ReplyLost, NoListener, gate, GateInv, TypeOK, SingleShot
<1>7. CASE Cancel
  BY <1>7 DEF Cancel, gate, actors, GateInv, TypeOK, SingleShot
<1>8. CASE WaitCanceled
  <2>1. abandoned' \in BOOLEAN /\ (abandoned' \/ settled)
    BY <1>8, Zenon DEF WaitCanceled
  <2>2. /\ main' = "returned"
        /\ outcome' = [decision |-> "canceled", decider |-> Approver]
        /\ UNCHANGED <<settled, result, said, handled, reply, ctxDone>>
    BY <1>8 DEF WaitCanceled, actors
  <2> QED
    BY <2>1, <2>2 DEF GateInv, TypeOK, SingleShot, Decision
<1>9. CASE WaitDecided
  BY <1>9 DEF WaitDecided, actors, GateInv, TypeOK, SingleShot, Decision
<1>10. CASE Close \/ ProcessExits
  BY <1>10 DEF Close, ProcessExits, gate, actors, GateInv, TypeOK, SingleShot
<1>11. CASE UNCHANGED vars
  BY <1>11 DEF vars, gate, actors, GateInv, TypeOK, SingleShot
<1> QED
  BY <1>1, <1>2, <1>3, <1>4, <1>5, <1>6, <1>7, <1>8, <1>9, <1>10, <1>11
  DEF Next, Exited

(***************************************************************************)
(* The inductive invariant holds in every reachable state of the gate.     *)
(***************************************************************************)
THEOREM GateCorrect == Spec => []GateInv
BY GateInit, GateStep, PTL DEF Spec

(***************************************************************************)
(* A run that Wait lets go on has no accepted denial, for any number of    *)
(* approve and deny commands racing settle and Wait.                       *)
(***************************************************************************)
THEOREM DenialHolds == Spec => []AcceptedDenialHolds
<1>1. GateInv => AcceptedDenialHolds
  BY DEF GateInv, TypeOK, AcceptedDenialHolds, Decision
<1> QED BY <1>1, GateCorrect, PTL

(***************************************************************************)
(* The decider of the Record that Wait returns made that decision, and     *)
(* settle accepted it.                                                     *)
(***************************************************************************)
THEOREM DeciderCorrect == Spec => []RecordNamesDecider
<1>1. GateInv => RecordNamesDecider
  BY DEF GateInv, RecordNamesDecider
<1> QED BY <1>1, GateCorrect, PTL

(***************************************************************************)
(* settle accepts at most one approval and at most one denial.             *)
(***************************************************************************)
THEOREM SingleShotCorrect == Spec => []SingleShot
<1>1. GateInv => SingleShot
  BY DEF GateInv
<1> QED BY <1>1, GateCorrect, PTL

(***************************************************************************)
(* What a gate whose Wait was canceled can still accept is a denial of an  *)
(* approval that had settled it: only settle accepts, and abandon leaves   *)
(* no unsettled gate open.                                                 *)
(***************************************************************************)
THEOREM CanceledCorrect == Spec => CanceledGateApprovesNothing
<1> DEFINE Good ==
      outcome.decision = "canceled" =>
        \A a \in Actors :
          handled[a] # "accepted" /\ handled'[a] = "accepted" =>
            said[a] = "denied" /\ result.decision = "approved"
<1>1. GateInv /\ [Next]_vars => Good
  <2> SUFFICES ASSUME GateInv, [Next]_vars, outcome.decision = "canceled",
                      NEW a \in Actors,
                      handled[a] # "accepted", handled'[a] = "accepted"
               PROVE  said[a] = "denied" /\ result.decision = "approved"
    OBVIOUS
  <2>0. /\ Approver \in Actors /\ Clients \subseteq Actors
        /\ handled \in [Actors -> {"idle", "deciding", "sent", "accepted",
                                   "refused"}]
    BY DEF Actors, GateInv, TypeOK
  <2>1. PICK x \in Actors : Decide(x)
    <3>1. ~(NewGate \/ Wait \/ ApproverReturns \/ Cancel \/ WaitCanceled
            \/ WaitDecided \/ Close \/ ProcessExits \/ UNCHANGED vars)
      BY <2>0 DEF NewGate, Wait, ApproverReturns, Cancel, WaitCanceled,
         WaitDecided, Close, ProcessExits, vars, actors
    <3>2. ASSUME NEW c \in Clients
          PROVE  ~(SendDecision(c) \/ Reply(c) \/ ReplyLost(c) \/ NoListener(c))
      BY <2>0 DEF SendDecision, Reply, ReplyLost, NoListener
    <3> QED BY <3>1, <3>2 DEF Next, Exited
  <2>2. x = a /\ Accepts(Says(a))
    BY <2>0, <2>1 DEF Decide
  <2>3. abandoned \/ settled
    BY DEF GateInv
  <2> QED BY <2>2, <2>3 DEF Accepts, Says
<1> QED BY <1>1, GateCorrect, PTL DEF Spec, CanceledGateApprovesNothing

=============================================================================
