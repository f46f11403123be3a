------------------------------ MODULE UdsServer ------------------------------
(***************************************************************************)
(* The socket of the daemon (HandleClient in daemon/main.cpp) and its      *)
(* clients (cli/main.cpp).  The daemon serves one connection at a time and *)
(* reads it in chunks of fgets; a chunk here is one of a few words: the    *)
(* commands, END, and text.  NPU commands run the NPU engine; what the     *)
(* session manager and the CPU engine answer is left open, it is the       *)
(* subject of SessionManager and LLMEngine.                                *)
(*                                                                         *)
(* The daemon can end in the middle.  A write to a client that has closed  *)
(* its end raises SIGPIPE, whose default action ends the process, and      *)
(* infer has ends of its own: an exception nobody catches, an assertion of *)
(* llama.cpp, the use of a session that its own activation has evicted.    *)
(* The threads of the HAL are not in this model.                           *)
(***************************************************************************)
EXTENDS NpuLLMEngine

CONSTANTS
  Asks,       \* the streaming commands that clients send, with a prompt
              \* each, as the chunks in which fgets returns it
  Setups,     \* the installations considered (see setup)
  MaxConns,   \* bound: connections in all
  MaxOpen     \* bound: connections at a time

(* SET_LIMIT is SET_HOT_LIMIT and SET_COLD_LIMIT, which differ in a value. *)
Simple     == {"CREATE_SESSION", "KILL_SESSION", "SET_LIMIT", "NPU_LOAD", "HELLO"}

(* INFER_HUGE is an INFER whose maxTokens, taken as a size, is more than a *)
(* vector can have or get memory for: a negative one always is.            *)
Streaming  == {"INFER", "INFER_HUGE", "NPU_INFER"}
Unguarded  == {"KILL_SESSION", "SET_LIMIT"}

(* The chunks: a line of a prompt may look like a command, or like END;    *)
(* `long' is text of more tokens than n_batch.                             *)
Lines == Simple \cup Streaming \cup {"END", "text", "long"}

ASSUME UdsAssumption ==
  /\ Asks \subseteq [cmd : Streaming, prompt : Seq(Lines)]
  /\ Setups \subseteq {"sound", "tight", "wide"}
  /\ MaxConns \in Nat /\ MaxOpen \in Nat

(* What ai_daemon_cli sends for a command.                                 *)
Jobs == [cmd : Simple, prompt : {<<>>}] \cup Asks
Message(j) == IF j.cmd \in Simple THEN <<j.cmd>> ELSE <<j.cmd>> \o j.prompt \o <<"END">>
NoJob == [cmd |-> "HELLO", prompt |-> <<>>]

Clients == 1 .. MaxConns     \* numbered in the order they connect
Nobody  == 0

VARIABLES
  up,         \* the process of the daemon lives
  cpuReady,   \* gEngine.isReady(): not with SKIP_CPU_ENGINE
  setup,      \* the installation: sound, with a tight cold store, in which
              \* an activation can evict its own session (sm_self_eviction
              \* and the theorem AmpleStoreForgetsNothing), or with a wide
              \* vocabulary, which has a piece longer than buf
  backlog,    \* connected clients not accepted yet
  conn,       \* the client being served
  at,         \* where HandleClient is
  cmd, prompt,\* of the INFER or NPU_INFER being read or served
  state,      \* client -> idle, sending, waiting, done or gone
  job,        \* client -> its command
  unsent,     \* client -> chunks it has not written yet
  wire,       \* client -> chunks on the way to the daemon
  reply,      \* client -> lines on the way to the client
  written     \* client -> lines written to it (history)

udsVars == <<up, cpuReady, setup, backlog, conn, at, cmd, prompt, state, job,
             unsent, wire, reply, written>>
allVars == <<udsVars, npuVars>>

serverVars == <<cpuReady, setup, backlog, conn, at, cmd, prompt>>
clientVars == <<state, job, unsent>>

UdsInit ==
  /\ NpuInit
  /\ up = TRUE /\ cpuReady \in BOOLEAN /\ setup \in Setups
  /\ setup = "tight" => cpuReady     \* no CPU engine, no cold store
  /\ backlog = <<>> /\ conn = Nobody /\ at = "accept" /\ cmd = "HELLO" /\ prompt = <<>>
  /\ state = [c \in Clients |-> "idle"]
  /\ job = [c \in Clients |-> NoJob]
  /\ unsent = [c \in Clients |-> <<>>] /\ wire = [c \in Clients |-> <<>>]
  /\ reply = [c \in Clients |-> <<>>] /\ written = [c \in Clients |-> <<>>]

-----------------------------------------------------------------------------
(* The clients.                                                            *)

HasLeft(c) == state[c] \in {"done", "gone"}

Connect(c) ==
  /\ up /\ state[c] = "idle" /\ \A d \in 1 .. c - 1 : state[d] # "idle"
  /\ Len(backlog) + (IF conn = Nobody THEN 0 ELSE 1) < MaxOpen
  /\ \E j \in Jobs :
       /\ job' = [job EXCEPT ![c] = j]
       /\ unsent' = [unsent EXCEPT ![c] = Message(j)]
  /\ state' = [state EXCEPT ![c] = "sending"]
  /\ backlog' = Append(backlog, c)
  /\ UNCHANGED <<up, cpuReady, setup, conn, at, cmd, prompt, wire, reply, written, npuVars>>

(* write or dprintf; a long prompt goes in several pieces.                 *)
Send(c) ==
  /\ up /\ state[c] = "sending"
  /\ wire' = [wire EXCEPT ![c] = Append(@, Head(unsent[c]))]
  /\ unsent' = [unsent EXCEPT ![c] = Tail(@)]
  /\ state' = [state EXCEPT ![c] = IF Len(unsent[c]) = 1 THEN "waiting" ELSE @]
  /\ UNCHANGED <<up, serverVars, job, reply, written, npuVars>>

(* A simple command takes the first thing it reads for its answer.         *)
ReceiveAnswer(c) ==
  /\ up /\ state[c] = "waiting" /\ job[c].cmd \in Simple /\ reply[c] # <<>>
  /\ reply' = [reply EXCEPT ![c] = Tail(@)]
  /\ state' = [state EXCEPT ![c] = "done"]
  /\ UNCHANGED <<up, serverVars, wire, job, unsent, written, npuVars>>

(* A streaming one reads up to the line that ends its stream.              *)
ReceiveStream(c) ==
  /\ up /\ state[c] = "waiting" /\ job[c].cmd \in Streaming /\ reply[c] # <<>>
  /\ reply' = [reply EXCEPT ![c] = Tail(@)]
  /\ state' = [state EXCEPT ![c] = IF Head(reply[c]) \in {"DONE", "ERROR"} THEN "done" ELSE @]
  /\ UNCHANGED <<up, serverVars, wire, job, unsent, written, npuVars>>

(* The daemon is gone: every client reads what is left, and then the end.  *)
ReceiveEof ==
  /\ ~up /\ \E c \in Clients : ~HasLeft(c)
  /\ state' = [c \in Clients |-> IF state[c] = "gone" THEN "gone" ELSE "done"]
  /\ UNCHANGED <<up, serverVars, wire, job, unsent, reply, written, npuVars>>

(* The client is killed; what it has sent can still be read.               *)
Leave(c) ==
  /\ up /\ state[c] \in {"sending", "waiting"}
  /\ state' = [state EXCEPT ![c] = "gone"]
  /\ UNCHANGED <<up, serverVars, wire, job, unsent, reply, written, npuVars>>

ClientStep(c) == Send(c) \/ ReceiveAnswer(c) \/ ReceiveStream(c)

-----------------------------------------------------------------------------
(* The daemon.                                                             *)

(* fprintf and fflush of the replies ls, and where HandleClient goes on.   *)
Write(ls, next) ==
  /\ at' = next
  /\ IF HasLeft(conn)
     THEN up' = FALSE /\ UNCHANGED <<reply, written>>
     ELSE /\ reply' = [reply EXCEPT ![conn] = @ \o ls]
          /\ written' = [written EXCEPT ![conn] = @ \o ls]
          /\ UNCHANGED up

(* The connection is closed on both ends and forgotten.                    *)
Forget(c) ==
  /\ state' = [state EXCEPT ![c] = "done"] /\ job' = [job EXCEPT ![c] = NoJob]
  /\ unsent' = [unsent EXCEPT ![c] = <<>>] /\ wire' = [wire EXCEPT ![c] = <<>>]
  /\ reply' = [reply EXCEPT ![c] = <<>>] /\ written' = [written EXCEPT ![c] = <<>>]

(* accept; when fdopen or dup fails, HandleClient closes at once, and the  *)
(* client reads the end or cannot write.                                   *)
Accept ==
  /\ up /\ at = "accept" /\ backlog # <<>>
  /\ backlog' = Tail(backlog)
  /\ \/ /\ conn' = Head(backlog) /\ at' = "command"
        /\ UNCHANGED <<clientVars, wire, reply, written>>
     \/ Forget(Head(backlog)) /\ UNCHANGED <<conn, at>>
  /\ UNCHANGED <<up, cpuReady, setup, cmd, prompt, npuVars>>

Reads(line) ==
  /\ wire[conn] # <<>> /\ line = Head(wire[conn])
  /\ wire' = [wire EXCEPT ![conn] = Tail(@)]

AtEof == wire[conn] = <<>> /\ HasLeft(conn)

(* CREATE_SESSION asks whether there is an engine; KILL_SESSION and the    *)
(* limits use its session manager without asking.                          *)
SessionCommand(line) ==
  /\ up /\ at = "command" /\ line \in Unguarded \cup {"CREATE_SESSION"} /\ Reads(line)
  /\ IF line \in Unguarded /\ ~cpuReady
     THEN up' = FALSE /\ UNCHANGED <<at, reply, written>>
     ELSE \E answer \in {"OK", "ERROR"} :
            /\ (answer = "ERROR" => line # "SET_LIMIT") /\ (answer = "OK" => cpuReady)
            /\ Write(<<answer>>, "command")
  /\ UNCHANGED <<cpuReady, setup, backlog, conn, cmd, prompt, clientVars, npuVars>>

NpuLoad(line) ==
  /\ up /\ at = "command" /\ line = "NPU_LOAD" /\ Reads(line)
  /\ \/ LoadSucceeds /\ Write(<<"OK">>, "command")
     \/ (LoadNoModel \/ LoadNoContext) /\ Write(<<"ERROR">>, "command")
  /\ UNCHANGED <<cpuReady, setup, backlog, conn, cmd, prompt, clientVars>>

Hello(line) ==
  /\ up /\ at = "command" /\ line = "HELLO" /\ Reads(line)
  /\ Write(<<"HELLO">>, "command")
  /\ UNCHANGED <<cpuReady, setup, backlog, conn, cmd, prompt, clientVars, npuVars>>

(* Anything else is read and not answered.                                 *)
NoCommand(line) ==
  /\ up /\ at = "command" /\ line \in {"text", "long", "END"} /\ Reads(line)
  /\ UNCHANGED <<up, cpuReady, setup, backlog, conn, at, cmd, prompt, clientVars, reply, written, npuVars>>

StreamCommand(line) ==
  /\ up /\ at = "command" /\ line \in Streaming /\ Reads(line)
  /\ at' = "prompt" /\ cmd' = line /\ prompt' = <<>>
  /\ UNCHANGED <<up, cpuReady, setup, backlog, conn, clientVars, reply, written, npuVars>>

(* Mutant of PromptEnds: the end of the connection does not end the prompt. *)
PromptEndsAtEnd(line) == line = "END" /\ Reads(line)

PromptEnds(line) == \/ line = "END" /\ Reads(line)
                    \/ line = "END" /\ AtEof /\ UNCHANGED wire

(* Mutant of Collected: prompt = promptLine.                               *)
CollectedLast(line) == <<line>>

Collected(line) == Append(prompt, line)

EngineFor(command) == IF command = "NPU_INFER" THEN "NPU_INFER" ELSE "INFER"

(* The loop that reads the prompt.                                         *)
ReadPrompt(line) ==
  /\ up /\ at = "prompt"
  /\ \/ line # "END" /\ Reads(line) /\ prompt' = Collected(line) /\ UNCHANGED at
     \/ PromptEnds(line) /\ at' = EngineFor(cmd) /\ UNCHANGED prompt
  /\ UNCHANGED <<up, cpuReady, setup, backlog, conn, cmd, clientVars, reply, written, npuVars>>

(* Mutant of NotReady: the continue after the error is missing.            *)
NotReadyGoesOn ==
  /\ up
  /\ \/ at = "INFER" /\ ~cpuReady /\ Write(<<"ERROR">>, "CPU_LOOP")
     \/ at = "NPU_INFER" /\ ~isReady /\ Write(<<"ERROR">>, "command")
  /\ UNCHANGED <<cpuReady, setup, backlog, conn, cmd, prompt, clientVars, wire, npuVars>>

NotReady ==
  /\ up
  /\ (at = "INFER" /\ ~cpuReady) \/ (at = "NPU_INFER" /\ ~isReady)
  /\ Write(<<"ERROR">>, "command")
  /\ UNCHANGED <<cpuReady, setup, backlog, conn, cmd, prompt, clientVars, wire, npuVars>>

TooLong(ls) == \E i \in DOMAIN ls : ls[i] = "long"

(* The process ends inside infer.                                          *)
Dies == up' = FALSE /\ UNCHANGED <<at, reply, written>>

(* Mutant of InferDies: llama_token_to_piece is given no room at all.      *)
InferDiesOften ==
  \/ at = "INFER" /\ cpuReady /\ (TooLong(prompt) \/ cmd = "INFER_HUGE" \/ setup = "tight")
  \/ at = "CPU_LOOP"

(* Where gEngine.infer ends the process: activateForInfer uses an evicted  *)
(* session (session_manager.cpp:100); llama_decode asserts that the batch  *)
(* is within n_batch; reserve throws, after the prefill; the string of a   *)
(* token throws on the negative length of a piece that did not fit.        *)
InferDies ==
  \/ at = "INFER" /\ cpuReady /\ (TooLong(prompt) \/ cmd = "INFER_HUGE" \/ setup = "tight")
  \/ at = "CPU_LOOP" /\ setup = "wide"

(* gEngine.infer: refused, or a stream of tokens, then the final line.     *)
Infer ==
  /\ up
  /\ \/ at = "INFER" /\ cpuReady /\ Write(<<"ERROR">>, "command")
     \/ /\ at = "INFER" /\ cpuReady /\ ~TooLong(prompt) /\ cmd # "INFER_HUGE"
        /\ at' = "CPU_LOOP" /\ UNCHANGED <<up, reply, written>>
     \/ /\ at = "CPU_LOOP" /\ Len(written[conn]) < MaxNew
        /\ Write(<<"TOKEN">>, "CPU_LOOP")
     \/ at = "CPU_LOOP" /\ Write(<<"DONE">>, "command")
     \/ InferDies /\ Dies
  /\ UNCHANGED <<cpuReady, setup, backlog, conn, cmd, prompt, clientVars, wire, npuVars>>

(* The NPU engine reserves nothing and has no sessions.                    *)
NpuInferDies ==
  \/ at = "NPU_INFER" /\ isReady /\ mCtx # 0 /\ TooLong(prompt)
  \/ at = "NPU_LOOP" /\ left > 0 /\ setup = "wide"

NpuInfer ==
  /\ up
  /\ \/ /\ at = "NPU_INFER" /\ isReady /\ (mCtx = 0 \/ ~TooLong(prompt))
        /\ NpuInferFails /\ Write(<<"ERROR">>, "command")
     \/ /\ at = "NPU_INFER" /\ isReady /\ ~TooLong(prompt) /\ NpuPrefill
        /\ at' = "NPU_LOOP" /\ UNCHANGED <<up, reply, written>>
     \/ at = "NPU_LOOP" /\ (NpuGenerates \/ NpuDecodeFails) /\ Write(<<"TOKEN">>, "NPU_LOOP")
     \/ at = "NPU_LOOP" /\ NpuLoopEnds /\ Write(<<"DONE">>, "command")
     \/ NpuInferDies /\ Dies /\ UNCHANGED npuVars
  /\ UNCHANGED <<cpuReady, setup, backlog, conn, cmd, prompt, clientVars, wire>>

(* fgets returns nullptr: both streams are closed.                         *)
Close ==
  /\ up /\ at = "command" /\ AtEof
  /\ conn' = Nobody /\ at' = "accept" /\ cmd' = "HELLO" /\ prompt' = <<>>
  /\ Forget(conn)
  /\ UNCHANGED <<up, cpuReady, setup, backlog, npuVars>>

ServerStep ==
  \/ Accept
  \/ \E line \in Lines : \/ SessionCommand(line) \/ NpuLoad(line) \/ Hello(line)
                         \/ NoCommand(line) \/ StreamCommand(line) \/ ReadPrompt(line)
  \/ NotReady \/ Infer \/ NpuInfer
  \/ Close

Quiet ==
  /\ \A c \in Clients : HasLeft(c)
  /\ ~up \/ (at = "accept" /\ backlog = <<>>)
  /\ UNCHANGED allVars

UdsNext ==
  \/ \E c \in Clients : Connect(c) \/ ClientStep(c) \/ Leave(c)
  \/ ServerStep
  \/ ReceiveEof
  \/ Quiet

(* The daemon runs on, and so do clients: ai_daemon_cli sends all it has   *)
(* and then reads.                                                         *)
UdsSpec ==
  /\ UdsInit /\ [][UdsNext]_allVars
  /\ WF_allVars(ServerStep) /\ WF_allVars(ReceiveEof)
  /\ \A c \in Clients : WF_allVars(ClientStep(c))

-----------------------------------------------------------------------------
(* Properties.                                                             *)

HasEnd(c) == \E i \in DOMAIN job[c].prompt : job[c].prompt[i] = "END"

(* The engine is asked exactly what the client asked: every chunk of the   *)
(* prompt, in order, and none of another connection.  Two cases are left   *)
(* out, and the code has no defence in them: a chunk that begins with END  *)
(* (main.cpp:102), and a client that dies half way through its prompt,     *)
(* whose beginning is then taken for the whole (main.cpp:101).             *)
PromptIsWhole ==
  at \in {"INFER", "CPU_LOOP", "NPU_INFER", "NPU_LOOP"} /\ up
    => HasEnd(conn) \/ unsent[conn] # <<>>
         \/ (prompt = job[conn].prompt /\ cmd = job[conn].cmd)

(* Every command is answered by tokens, if it streams, and then one final  *)
(* line, with nothing after it: no path through HandleClient answers twice *)
(* or streams after an error, so replies and commands stay in step.        *)
OneAnswer ==
  \A c \in Clients : ~HasEnd(c) =>
    \A i \in DOMAIN written[c] :
      /\ i < Len(written[c]) => written[c][i] = "TOKEN"
      /\ written[c][i] = "TOKEN" => job[c].cmd \in Streaming

(* What a command can do to the daemon by itself: use a session manager    *)
(* that is not there (main.cpp:77), send a batch over n_batch or reserve a *)
(* size that cannot be (llm_engine.cpp:84, 94), or, in an installation     *)
(* that is not sound, evict the session it activates or meet a piece that  *)
(* does not fit (session_manager.cpp:100, llm_engine.cpp:111).             *)
Perilous(j) ==
  \/ ~cpuReady /\ j.cmd \in Unguarded
  \/ j.cmd \in Streaming /\ TooLong(j.prompt)
  \/ cpuReady /\ j.cmd = "INFER_HUGE"
  \/ cpuReady /\ setup = "tight" /\ j.cmd = "INFER"
  \/ setup = "wide" /\ j.cmd \in {"INFER", "NPU_INFER"}

(* While it serves its clients the daemon dies only of one that left       *)
(* before it was answered (main.cpp:116), of what follows an END in a      *)
(* prompt (main.cpp:102), or of a perilous command: no order of commands,  *)
(* failed loads and refused questions turns another one into the end.      *)
DownHasReason ==
  ~up => state[conn] = "gone" \/ HasEnd(conn) \/ Perilous(job[conn])

(* Whatever loads fail and in whatever order, a question runs with model,  *)
(* context and sampler of one load (npu_llm_engine.cpp:62-92, 117).        *)
OneLoad == at = "NPU_LOOP" => mModel = mCtx /\ mCtx = mSampler /\ mModel # 0

(* The context holds this question and its answer and nothing else, so     *)
(* nPast is the position of the next token: nothing of an earlier question *)
(* or of the warm-up is seen (npu_llm_engine.cpp:98-102, 121, 189).        *)
OnlyThisQuestion == at = "NPU_LOOP" => cache = {Cell(p, asked) : p \in 0 .. nPast - 1}

(* A client that has sent its command gets its answer, or at least the end *)
(* of the connection, also behind clients that die at any point.           *)
ClientIsServed == \A c \in Clients : state[c] = "waiting" ~> state[c] # "waiting"

=============================================================================
