----------------------------- MODULE MCCloudVM -----------------------------
(***************************************************************************)
(* CloudVM for TLC.                                                        *)
(***************************************************************************)
EXTENDS CloudVM
=============================================================================
