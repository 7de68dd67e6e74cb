----------------------------- MODULE MCWatchdog -----------------------------
(***************************************************************************)
(* Watchdog for TLC: a TTL of nine units, clocks a unit apart.             *)
(***************************************************************************)
EXTENDS Watchdog

MCSkews == {-1, 0, 1}
=============================================================================
