---------------------------- MODULE MCHalClient ----------------------------
(* Small instances of HalClient for TLC.                                   *)
EXTENDS HalClient

=============================================================================
