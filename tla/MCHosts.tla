------------------------------ MODULE MCHosts -------------------------------
(***************************************************************************)
(* Hosts for TLC.                                                          *)
(***************************************************************************)
EXTENDS Hosts
=============================================================================
