---------------------------- MODULE MCCallRecord -----------------------------
(***************************************************************************)
(* Short calls: the bounds are in the configurations.                      *)
(***************************************************************************)
EXTENDS CallRecord
=============================================================================
