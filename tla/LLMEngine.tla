----------------------------- MODULE LLMEngine -----------------------------
(***************************************************************************)
(* LLMEngine::infer (daemon/src/llm_engine.cpp) running on top of the      *)
(* session manager, one task per thread: the thread of the UDS server, and *)
(* the threads that MiniVAiHalService detaches for each inferStream.       *)
(*                                                                         *)
(* infer activates the session, keeps the llama_context pointer it got     *)
(* through the prefill and the decode loop, and records the tokens at two  *)
(* points.  Nothing but the session id and that pointer ties the task to   *)
(* the session in between.                                                 *)
(*                                                                         *)
(* There is no lock.  Where two threads can be inside the manager, in the  *)
(* sampler or in one context at the same time, that is a data race: the    *)
(* model lets it end in the undefined state, or lets one thread go first,  *)
(* as it would be under the mutex that session_manager.h:21-22 proposes.   *)
(***************************************************************************)
EXTENDS SessionManager

CONSTANTS
  Threads,      \* the threads that call into the engine
  UdsThreads,   \* those that serve UDS clients; the others are the HAL's
  NoThread,     \* no thread is inside a looping method of the manager
  PromptLens,   \* lengths of tokenized prompts
  MaxNews       \* values of maxTokens

ASSUME EngineAssumption ==
  /\ NoThread \notin Threads
  /\ UdsThreads \subseteq Threads
  /\ PromptLens \subseteq Nat \ {0}
  /\ MaxNews \subseteq Nat

VARIABLES
  task,         \* thread -> its inference
  holder        \* the thread that executes `call'

engineVars == <<vars, task, holder>>

Task ==
  [pc    : {"idle", "enter", "activate", "limit", "prefill", "recordPrompt",
            "loop", "recordGenerated"},
   id    : SessionIds \cup {-1},
   ctx   : Contexts \cup {NoCtx},
   n     : Nat,              \* tokens of the prompt, then tokens generated
   added : Nat,              \* cells added to ctx since the last recordTokens
   left  : Nat,              \* iterations left in the decode loop
   ret   : {"none", "true", "false"}]

IdleTask == [pc |-> "idle", id |-> -1, ctx |-> NoCtx, n |-> 0, added |-> 0,
             left |-> 0, ret |-> "none"]

(* infer returns: the thread keeps only the result and whom it is about.   *)
Returned(t, value) == [IdleTask EXCEPT !.id = task[t].id, !.ret = value]

EngineInit ==
  /\ Init
  /\ task = [t \in Threads |-> IdleTask]
  /\ holder = NoThread

-----------------------------------------------------------------------------
(* Requests that are a single call of the manager: to create and to kill a *)
(* session, from the HAL and from UDS clients, and to set a limit, from    *)
(* UDS clients only.                                                       *)

ManageSession(t) ==
  /\ \E id \in SessionIds : CreateSession(id) \/ KillSession(id)
  /\ UNCHANGED <<task, holder>>

SetLimit(t) ==
  /\ t \in UdsThreads
  /\ \/ \E count \in HotLimits : SetHotLimit(count)
     \/ \E bytes \in ColdLimits : SetColdLimit(bytes)
  /\ task' = [task EXCEPT ![t] = [IdleTask EXCEPT !.pc = "limit"]]
  /\ holder' = t

Manage(t) == task[t].pc = "idle" /\ (ManageSession(t) \/ SetLimit(t))

-----------------------------------------------------------------------------
(* infer.                                                                  *)

(* The call, up to the entry of activateForInfer.  Bound: MaxTokens.       *)
Infer(t, id, p, maxTokens) ==
  /\ proc = "up" /\ task[t].pc = "idle"
  /\ mSessions[id].tokens + p + maxTokens <= MaxTokens
  /\ task' = [task EXCEPT ![t] = [IdleTask EXCEPT !.pc = "enter", !.id = id,
                                                  !.n = p, !.left = maxTokens]]
  /\ UNCHANGED <<vars, holder>>

(* activateForInfer of an unknown session, of a HOT one, of a COLD one.    *)
Activate(t) ==
  /\ task[t].pc = "enter"
  /\ LET id == task[t].id
     IN  \/ /\ Ready /\ mSessions[id].state = "NONE"
            /\ task' = [task EXCEPT ![t] = Returned(t, "false")]
            /\ UNCHANGED <<vars, holder>>
         \/ /\ ActivateHot(id)
            /\ task' = [task EXCEPT ![t].pc = "prefill",
                                    ![t].ctx = mSessions[id].ctx]
            /\ UNCHANGED holder
         \/ /\ ActivateCold(id)
            /\ task' = [task EXCEPT ![t].pc = "activate"]
            /\ holder' = t

(* What t does with the result of the method that returns: activateForInfer*)
(* hands out meta.ctx, or nullptr, and then infer returns false.           *)
HandedOut(t, ctx) ==
  CASE task[t].pc = "limit" -> IdleTask
    [] task[t].pc = "activate" /\ ctx = NoCtx -> Returned(t, "false")
    [] OTHER -> [task[t] EXCEPT !.pc = "prefill", !.ctx = ctx]

(* One step of the looping method that t is in.                            *)
InManager(t) ==
  /\ holder = t
  /\ CallStep
  /\ IF proc' # "up" \/ call'.pc # "idle"
     THEN UNCHANGED <<task, holder>>
     ELSE /\ holder' = NoThread
          /\ task' = [task EXCEPT ![t] =
               HandedOut(t, IF task[t].pc = "limit" THEN NoCtx
                            ELSE mSessions'[task[t].id].ctx)]

(* A pointer to a freed context is used: nothing is defined from here on.  *)
(* (An address that was freed and allocated again is the other context.)   *)
UsesFreed(t) ==
  /\ proc = "up" /\ task[t].pc \in {"prefill", "loop"}
  /\ task[t].ctx \notin live
  /\ proc' = "undefined"
  /\ UNCHANGED <<smVars, task, holder>>

(* Whether llama_decode may fail for n tokens; if it does, nothing changes.*)
DecodeMayFail(c, n) == "decode" \in Faults \/ cells[c] + n > nCtx

(* Mutant of Prefill: a decode that fails is tried again.                  *)
PrefillRetries(t) ==
  /\ proc = "up" /\ task[t].pc = "prefill" /\ task[t].ctx \in live
  /\ llama_decode(task[t].ctx, task[t].n)
  /\ task' = [task EXCEPT ![t].pc = "recordPrompt", ![t].added = task[t].n]
  /\ UNCHANGED <<mSessions, mHotLru, mColdLru, mHotLimit, mColdLimitBytes,
                 mColdUsedBytes, live, files, call, proc, holder>>

Prefill(t) ==
  /\ proc = "up" /\ task[t].pc = "prefill" /\ task[t].ctx \in live
  /\ \/ /\ llama_decode(task[t].ctx, task[t].n)
        /\ task' = [task EXCEPT ![t].pc = "recordPrompt", ![t].added = task[t].n]
     \/ /\ DecodeMayFail(task[t].ctx, task[t].n)
        /\ task' = [task EXCEPT ![t] = Returned(t, "false")]
        /\ UNCHANGED cells
  /\ UNCHANGED <<mSessions, mHotLru, mColdLru, mHotLimit, mColdLimitBytes,
                 mColdUsedBytes, live, files, call, proc, holder>>

(* recordTokens; for a session that is gone by now it does nothing.        *)
Record(id, n) ==
  \/ RecordTokens(id, n) /\ UNCHANGED cells
  \/ Ready /\ mSessions[id].state = "NONE" /\ UNCHANGED vars

(* Mutant of RecordPrompt: the prompt is not recorded.                     *)
RecordPromptForgets(t) ==
  /\ task[t].pc = "recordPrompt"
  /\ task' = [task EXCEPT ![t].pc = "loop", ![t].n = 0, ![t].added = 0]
  /\ UNCHANGED <<vars, holder>>

RecordPrompt(t) ==
  /\ task[t].pc = "recordPrompt"
  /\ Record(task[t].id, task[t].n)
  /\ task' = [task EXCEPT ![t].pc = "loop", ![t].n = 0, ![t].added = 0]
  /\ UNCHANGED holder

(* Mutant of LoopEnds: infer returns from inside the loop.                 *)
LoopReturns(t) ==
  /\ proc = "up" /\ task[t].pc = "loop"
  /\ task[t].left = 0 \/ task[t].ctx \in live
  /\ task' = [task EXCEPT ![t] = Returned(t, "true")]
  /\ UNCHANGED <<vars, holder>>

(* The loop ends: maxTokens iterations, an end-of-generation token, or a   *)
(* cancellation.                                                           *)
LoopEnds(t) ==
  /\ proc = "up" /\ task[t].pc = "loop"
  /\ task[t].left = 0 \/ task[t].ctx \in live
  /\ task' = [task EXCEPT ![t].pc = "recordGenerated"]
  /\ UNCHANGED <<vars, holder>>

(* A token is sampled, handed to onToken, pushed to `generated' and only   *)
(* then decoded; if that fails the loop ends and the token stays there.    *)
LoopGenerates(t) ==
  /\ proc = "up" /\ task[t].pc = "loop"
  /\ task[t].left > 0 /\ task[t].ctx \in live
  /\ \/ /\ llama_decode(task[t].ctx, 1)
        /\ task' = [task EXCEPT ![t].n = @ + 1, ![t].added = @ + 1, ![t].left = @ - 1]
     \/ /\ DecodeMayFail(task[t].ctx, 1)
        /\ task' = [task EXCEPT ![t].n = @ + 1, ![t].pc = "recordGenerated"]
        /\ UNCHANGED cells
  /\ UNCHANGED <<mSessions, mHotLru, mColdLru, mHotLimit, mColdLimitBytes,
                 mColdUsedBytes, live, files, call, proc, holder>>

RecordGenerated(t) ==
  /\ task[t].pc = "recordGenerated"
  /\ Record(task[t].id, task[t].n)
  /\ task' = [task EXCEPT ![t] = Returned(t, "true")]
  /\ UNCHANGED holder

(* Two threads at once in the manager, in mSampler, in one context, or one *)
(* in a context that the other is swapping out: nothing is defined from    *)
(* here on.                                                                *)
AtMethod(t) == task[t].pc \in {"enter", "recordPrompt", "recordGenerated"}
Using(t, c) == task[t].pc \in {"prefill", "loop"} /\ task[t].ctx = c

Conflict(t, u) ==
  \/ /\ AtMethod(t) \/ task[t].pc = "idle"
     /\ holder = u \/ AtMethod(u) \/ task[u].pc = "idle"
  \/ task[t].pc = "loop" /\ task[u].pc = "loop"
  \/ \E c \in Contexts : Using(t, c) /\ Using(u, c)
  \/ holder = u /\ call.pc = "swapOut" /\ Using(t, Victim.ctx)

Race(t) ==
  /\ proc = "up"
  /\ \E u \in Threads \ {t} : Conflict(t, u)
  /\ proc' = "undefined"
  /\ UNCHANGED <<smVars, task, holder>>

(* The end of the process, and its next start.                             *)
Process ==
  /\ Crash \/ Restart
  /\ task' = [t \in Threads |-> IdleTask]
  /\ holder' = NoThread

-----------------------------------------------------------------------------
InferStep(t) ==
  \/ Activate(t) \/ InManager(t) \/ UsesFreed(t) \/ Prefill(t)
  \/ RecordPrompt(t) \/ LoopEnds(t) \/ LoopGenerates(t) \/ RecordGenerated(t)

EngineNext ==
  \/ \E t \in Threads :
       \/ Manage(t) \/ InferStep(t) \/ Race(t)
       \/ \E id \in SessionIds, p \in PromptLens, m \in MaxNews : Infer(t, id, p, m)
  \/ Process

(* A thread that is inside infer keeps running.                            *)
EngineSpec ==
  /\ EngineInit /\ [][EngineNext]_engineVars
  /\ \A t \in Threads : WF_engineVars(InferStep(t))

-----------------------------------------------------------------------------
(* Properties.                                                             *)

(* Every variable has its type.                                            *)
EngineTypeOK ==
  /\ TypeOK
  /\ task \in [Threads -> Task]
  /\ holder \in Threads \cup {NoThread}

Decoding(t) == task[t].pc \in {"prefill", "recordPrompt", "loop", "recordGenerated"}

(* The context an inference works with is, from activateForInfer to the    *)
(* last recordTokens, the context of its session, and no other inference   *)
(* works with it (llm_engine.cpp:66, 85, 102, 115).                        *)
ContextHeld ==
  proc = "up" =>
    \A t \in Threads : Decoding(t) =>
      /\ mSessions[task[t].id].state = "HOT"
      /\ mSessions[task[t].id].ctx = task[t].ctx
      /\ \A u \in Threads : Decoding(u) /\ task[u].ctx = task[t].ctx => u = t

(* The tokens a HOT session has recorded, together with those a running    *)
(* inference is about to record, account for every cell of its KV cache.   *)
(* Pruning removes as many cells as tokens from the front, so a cell       *)
(* without a token would survive into the swap file unaccounted.           *)
RecordCoversCells ==
  \A id \in SessionIds : IsHot(id) =>
    LET pending == {t \in Threads : Decoding(t) /\ task[t].ctx = mSessions[id].ctx}
    IN  \/ cells[mSessions[id].ctx] <= mSessions[id].tokens
        \/ \E t \in pending :
             cells[mSessions[id].ctx] <= mSessions[id].tokens + task[t].added

(* infer returns: no thread stays in it for ever.                          *)
InferReturns ==
  \A t \in Threads : task[t].pc # "idle" ~> task[t].pc = "idle" \/ proc # "up"

(* When infer returns false: for a session that is gone, for a prompt that *)
(* does not fit the context, or for a conversation whose swap file is      *)
(* fuller than a context (llm_engine.cpp:69, 87; session_manager.cpp:107), *)
(* and for nothing else if llama itself works.  Both callers report all of *)
(* it as SESSION_NOT_FOUND (main.cpp:120, hal_service.cpp:91), which       *)
(* IMiniVAiStreamCallback.aidl:10-12 keeps for the first of these.         *)
RefusalHasReason ==
  [][\A t \in Threads :
       (task[t].pc # "idle" /\ task'[t].ret = "false" /\ proc' = "up") =>
         LET id == task[t].id
         IN  \/ mSessions'[id].state = "NONE"
             \/ task[t].pc = "prefill" /\ cells[task[t].ctx] + task[t].n > nCtx
             \/ task[t].pc = "activate" /\ files'[id].tokens > nCtx]_engineVars

(* Seen from the manager, infer is the atomic DecodeAndRecord of its       *)
(* environment: the cells that are not recorded yet are not there yet.     *)
RecordedCells ==
  [c \in Contexts |->
     cells[c] - (IF \E t \in Threads : Decoding(t) /\ task[t].ctx = c
                 THEN task[CHOOSE t \in Threads : Decoding(t) /\ task[t].ctx = c].added
                 ELSE 0)]

Manager == INSTANCE SessionManager WITH cells <- RecordedCells

(* The engine with its tasks implements the specification of the manager   *)
(* with its abstract environment, fairness included.                       *)
ImplementsManager == Manager!Spec

=============================================================================
