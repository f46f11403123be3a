-------------------------- MODULE MCSessionManager --------------------------
(* Small instances of SessionManager for TLC.                              *)
EXTENDS SessionManager, TLC

(* Contexts are interchangeable addresses.                                 *)
ContextSymmetry == Permutations(Contexts)

=============================================================================
