---------------------------- MODULE FailureClass ----------------------------
(***************************************************************************)
(* Whether a failed run is worth another try.  The adapters report a       *)
(* failure as a record: the exit code, the name of the signal (or ""),     *)
(* whether an OOM kill or a reclaim of the machine is confirmed, and       *)
(* whether there is a message.                                             *)
(***************************************************************************)
EXTENDS Integers

NoDetails == [code |-> 0, signal |-> "", oom |-> FALSE, reclaimed |-> FALSE, message |-> FALSE]

\* 128 + signal, or 256 - signal, for KILL and TERM.
killSignalExit(c) ==
  LET sig == CASE c > 128 /\ c < 192 -> c - 128
               [] c >= 241 /\ c <= 255 -> 256 - c
               [] OTHER -> 0
  IN sig \in {9, 15}

ClassifyFailure(d) ==
  CASE d.reclaimed \/ d.oom -> "transient"
    [] d.signal \in {"killed", "SIGKILL", "SIGTERM", "terminated"} -> "transient"
    [] killSignalExit(d.code) -> "transient"
    [] d.code = 0 /\ d.signal = "" /\ ~d.message -> "unknown"
    [] OTHER -> "permanent"
=============================================================================
