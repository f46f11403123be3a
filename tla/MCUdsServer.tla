---------------------------- MODULE MCUdsServer ----------------------------
(* A small instance of UdsServer for TLC.                                  *)
EXTENDS UdsServer

(* A prompt of two chunks with a line that looks like a command, one that  *)
(* ends early and goes on with commands, so that its connection is a       *)
(* sequence of commands, and one that is longer than a batch.              *)
Lookalike == <<"text", "HELLO">>
EndsEarly == <<"END", "text", "NPU_LOAD", "NPU_INFER">>
TooMuch   == <<"long">>

SomeAsks ==
  [cmd : {"INFER"}, prompt : {Lookalike, TooMuch}]
    \cup [cmd : {"INFER_HUGE"}, prompt : {Lookalike}]
    \cup [cmd : {"NPU_INFER"}, prompt : {Lookalike, EndsEarly, TooMuch}]

=============================================================================
