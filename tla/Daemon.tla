------------------------------- MODULE Daemon --------------------------------
(***************************************************************************)
(* The life of the process (main in daemon/main.cpp): start, the loop that *)
(* accepts clients, the signal that stops it, and the destruction of the   *)
(* static engines.  While main is in HandleClient it waits for its client: *)
(* a command comes, or the client hangs up, or neither.  What a command    *)
(* does is the subject of UdsServer; here it changes what the engines own. *)
(***************************************************************************)
EXTENDS Integers, Sequences

CONSTANT kBacklog    \* connections that wait for accept

ASSUME DaemonAssumption == kBacklog \in Nat \ {0}

VARIABLES
  pc,        \* where main is
  running,   \* g_running
  handler,   \* SignalHandler is installed
  hal,       \* the HAL: none, ok, failed
  waiting,   \* clients in the backlog
  live,      \* the llama objects that the engines own
  destroyed, \* objects the destructors have been through
  code,      \* the status of exit, -1 before
  after      \* clients accepted after the signal, up to 2 (history)

daemonVars == <<pc, running, handler, hal, waiting, live, destroyed, code, after>>

(* ~NpuLLMEngine frees in the order of use.                                *)
NpuDestruction == <<"npu_sampler", "npu_ctx", "npu_model">>

(* ~LLMEngine: the body frees the sampler and the model; the member        *)
(* mSessionManager, which frees the contexts, is destroyed after the body. *)
CpuDestruction == <<"cpu_sampler", "cpu_model", "cpu_ctx">>

(* Static objects are destroyed last made first.                           *)
Destruction == NpuDestruction \o CpuDestruction

DaemonInit ==
  /\ pc = "load" /\ running = TRUE /\ handler = FALSE /\ hal = "none"
  /\ waiting = 0 /\ live = {} /\ destroyed = 0 /\ code = -1 /\ after = 0

Exit(status) == pc' = "exit" /\ code' = status

(* SKIP_CPU_ENGINE, a model that loads, or one that does not.              *)
Load ==
  /\ pc = "load"
  /\ \/ pc' = "register" /\ UNCHANGED <<live, code>>
     \/ pc' = "register" /\ live' = {"cpu_model", "cpu_sampler"} /\ UNCHANGED code
     \/ Exit(1) /\ UNCHANGED live
  /\ UNCHANGED <<running, handler, hal, waiting, destroyed, after>>

Register ==
  /\ pc = "register" /\ pc' = "signals"
  /\ hal' \in {"ok", "failed"}
  /\ UNCHANGED <<running, handler, waiting, live, destroyed, code, after>>

InstallHandlers ==
  /\ pc = "signals" /\ pc' = "listen" /\ handler' = TRUE
  /\ UNCHANGED <<running, hal, waiting, live, destroyed, code, after>>

(* android_get_control_socket and listen.                                  *)
Listen ==
  /\ pc = "listen"
  /\ \/ pc' = "test" /\ UNCHANGED code
     \/ Exit(1)
  /\ UNCHANGED <<running, handler, hal, waiting, live, destroyed, after>>

(* Mutant of LoopTest: while (true).                                       *)
LoopForever ==
  /\ pc = "test" /\ pc' = "accept"
  /\ UNCHANGED <<running, handler, hal, waiting, live, destroyed, code, after>>

LoopTest ==
  /\ pc = "test"
  /\ IF running THEN pc' = "accept" /\ UNCHANGED code ELSE Exit(0)
  /\ UNCHANGED <<running, handler, hal, waiting, live, destroyed, after>>

Accept ==
  /\ pc = "accept" /\ waiting > 0
  /\ pc' = "serve" /\ waiting' = waiting - 1
  /\ after' = IF ~running /\ after < 2 THEN after + 1 ELSE after
  /\ UNCHANGED <<running, handler, hal, live, destroyed, code>>

(* EINTR, if the handler was installed without SA_RESTART, or another      *)
(* error: back to the test of g_running.                                   *)
AcceptFails ==
  /\ pc = "accept" /\ pc' = "test"
  /\ UNCHANGED <<running, handler, hal, waiting, live, destroyed, code, after>>

(* Sessions get and lose contexts if there is a model.                     *)
Sessions == IF "cpu_model" \in live THEN {live \cup {"cpu_ctx"}, live \ {"cpu_ctx"}} ELSE {live}

(* NPU_LOAD, the first or another one, assigns the members of the engine   *)
(* one after the other; what they pointed to before is lost, not freed.    *)
(* Without a model the context stays that of the last load; without a      *)
(* context the sampler does.                                               *)
NpuLoads ==
  {live \ {"npu_model"},
   (live \ {"npu_ctx"}) \cup {"npu_model"},
   live \cup {"npu_model", "npu_ctx", "npu_sampler"}}

(* HandleClient gets a line of its client and carries it out: a command    *)
(* that changes what the engines own, or another one.  g_running is not    *)
(* looked at; then it waits for the next line.                             *)
Command ==
  /\ pc = "serve"
  /\ live' \in Sessions \cup NpuLoads \cup {live}
  /\ UNCHANGED <<pc, running, handler, hal, waiting, destroyed, code, after>>

(* HandleClient returns: the client has hung up, or its streams could not  *)
(* be opened.  The client decides when.                                    *)
HangUp ==
  /\ pc = "serve" /\ pc' = "test"
  /\ UNCHANGED <<running, handler, hal, waiting, live, destroyed, code, after>>

(* A client takes the daemon down (the reasons are those of UdsServer).    *)
Dies ==
  /\ pc = "serve" /\ pc' = "killed"
  /\ UNCHANGED <<running, handler, hal, waiting, live, destroyed, code, after>>

ClientStep == Command \/ HangUp \/ Dies

(* One object of the static engines is freed, if it exists.                *)
Destroy ==
  /\ pc = "exit"
  /\ IF destroyed < Len(Destruction)
     THEN /\ live' = live \ {Destruction[destroyed + 1]}
          /\ destroyed' = destroyed + 1 /\ UNCHANGED pc
     ELSE pc' = "ended" /\ UNCHANGED <<live, destroyed>>
  /\ UNCHANGED <<running, handler, hal, waiting, code, after>>

(* What main does by itself, without waiting for anybody but in accept.    *)
MainStep ==
  Load \/ Register \/ InstallHandlers \/ Listen \/ LoopTest \/ Accept \/ Destroy

-----------------------------------------------------------------------------
(* Around main.                                                            *)

Over == pc \in {"ended", "killed"}

(* SIGTERM or SIGINT: the default action before the handler is installed.  *)
SignalHandler ==
  /\ ~Over
  /\ IF handler THEN running' = FALSE /\ UNCHANGED pc ELSE pc' = "killed" /\ UNCHANGED running
  /\ UNCHANGED <<handler, hal, waiting, live, destroyed, code, after>>

Arrive ==
  /\ pc \in {"test", "accept", "serve"} /\ waiting < kBacklog
  /\ waiting' = waiting + 1
  /\ UNCHANGED <<pc, running, handler, hal, live, destroyed, code, after>>

(* Binder threads serve the HAL from its registration on: the threads of   *)
(* inferStream give contexts to sessions, they and destroySession take     *)
(* them away.                                                              *)
HalRequest ==
  /\ hal = "ok" /\ pc \in {"signals", "listen", "test", "accept", "serve"}
  /\ live' \in Sessions
  /\ UNCHANGED <<pc, running, handler, hal, waiting, destroyed, code, after>>

Stopped == Over /\ UNCHANGED daemonVars

DaemonNext ==
  MainStep \/ AcceptFails \/ ClientStep \/ SignalHandler \/ Arrive \/ HalRequest \/ Stopped

(* main goes on where it waits for nobody.  No client has to send a line   *)
(* or to hang up, and no signal or request has to come.                    *)
DaemonSpec == DaemonInit /\ [][DaemonNext]_daemonVars /\ WF_daemonVars(MainStep)

-----------------------------------------------------------------------------
(* Properties.                                                             *)

(* A signal between the test of g_running and accept is not lost: at most  *)
(* one more client is accepted before the loop ends (main.cpp:233-243).    *)
AtMostOneMore == after <= 1

(* A stop takes effect at last if clients keep coming and none stays for   *)
(* ever.  Both are needed: without a client accept is restarted after the  *)
(* handler and main may sit in it for ever (main.cpp:234), and a client    *)
(* that neither sends nor hangs up keeps main in fgets (main.cpp:59),      *)
(* where nobody tests g_running.                                           *)
StopTakesEffect ==
  []<>(waiting > 0) /\ []<>(pc # "serve") => (~running ~> Over)

(* llm_engine.cpp:11-12 says that the session manager goes first and frees *)
(* the contexts of the HOT sessions before the model is freed.             *)
CpuFreedInOrder == "cpu_ctx" \in live => "cpu_model" \in live

=============================================================================
