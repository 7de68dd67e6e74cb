------------------------------ MODULE MCStores ------------------------------
(* Two overlapping invocations, three in all, over a history that is empty *)
(* or past the size at which it is compacted.                              *)
EXTENDS Stores
=============================================================================
