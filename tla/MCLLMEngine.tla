---------------------------- MODULE MCLLMEngine ----------------------------
(* Small instances of LLMEngine for TLC.                                   *)
EXTENDS LLMEngine, TLC

(* Contexts are interchangeable addresses.                                 *)
ContextSymmetry == Permutations(Contexts)

=============================================================================
