----------------------------- MODULE RunStates -----------------------------
(***************************************************************************)
(* The run state machine of internal/types/run.go and                      *)
(* internal/run/state.go: the states of a run, the table of legal          *)
(* transitions, and the two ways a state is assigned.  Transition consults *)
(* the table; SetError and MarkTerminal bypass it and only refuse to leave *)
(* a terminal state.  A state is named by its RunState string.             *)
(***************************************************************************)

FailureStates ==
  {"plan-invalid", "approval-denied", "package-failed",
   "provisioning-failed", "execution-failed", "budget-exceeded",
   "artifact-failed", "cleanup-failed", "cost-unknown"}

TerminalStates == FailureStates \cup {"completed"}

ActiveStates ==
  {"created", "planning", "validated", "awaiting-approval", "preparing",
   "running", "collecting-artifacts", "reconciling-cost", "cleaning-up",
   "stopping"}

RunState == ActiveStates \cup TerminalStates

IsTerminal(s) == s \in TerminalStates

(***************************************************************************)
(* The keys and targets of the validTransitions map.                       *)
(***************************************************************************)
validTransitions(from) ==
  CASE from = "created"              -> {"planning", "plan-invalid"}
    [] from = "planning"             -> {"validated", "plan-invalid"}
    [] from = "validated"            -> {"awaiting-approval", "preparing"}
    [] from = "awaiting-approval"    -> {"preparing", "approval-denied"}
    [] from = "preparing"            -> {"running", "package-failed"}
    [] from = "running"              -> {"collecting-artifacts",
                                         "execution-failed",
                                         "budget-exceeded", "stopping"}
    [] from = "stopping"             -> {"cleaning-up", "cleanup-failed"}
    [] from = "collecting-artifacts" -> {"reconciling-cost",
                                         "artifact-failed"}
    [] from = "reconciling-cost"     -> {"cleaning-up", "cost-unknown"}
    [] from = "cleaning-up"          -> {"completed", "cleanup-failed"}
    [] OTHER                         -> {}

(***************************************************************************)
(* Transition(to) succeeds from s.                                         *)
(***************************************************************************)
CanTransition(s, to) == ~IsTerminal(s) /\ to \in validTransitions(s)

(***************************************************************************)
(* The state after `_ = r.Transition(to)`: a refused transition is ignored *)
(* by the caller.                                                          *)
(***************************************************************************)
Transition(s, to) == IF CanTransition(s, to) THEN to ELSE s

(***************************************************************************)
(* A mutant of SetError that relabels a finished run.                      *)
(***************************************************************************)
MutSetError(s, to) == to

(***************************************************************************)
(* The state after SetError(to) or MarkTerminal(to).                       *)
(***************************************************************************)
SetError(s, to) == IF IsTerminal(s) THEN s ELSE to

=============================================================================
