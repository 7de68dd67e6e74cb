---------------------------- MODULE RunLifecycle ----------------------------
(***************************************************************************)
(* What internal/run/state.go promises about a run, whoever drives it: the *)
(* run starts Created, moves along the table of valid transitions or fails *)
(* from any state that is not final, and a final state is never left.  In  *)
(* particular a run is Completed only out of CleaningUp, and               *)
(* BudgetExceeded is never relabelled.                                     *)
(***************************************************************************)
EXTENDS RunStates

VARIABLE state

Init == state = "created"

Advance == \E to \in RunState : CanTransition(state, to) /\ state' = to

Fail == ~IsTerminal(state) /\ state' \in FailureStates

Next == Advance \/ Fail

Spec == Init /\ [][Next]_state

=============================================================================
