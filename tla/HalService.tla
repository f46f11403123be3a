----------------------------- MODULE HalService -----------------------------
(***************************************************************************)
(* MiniVAiHalService (daemon/src/hal_service.cpp): streaming inference and *)
(* its cancellation.  inferStream runs on a binder thread: it makes a      *)
(* cancel flag, enters it in gCancelFlags under the session id, and        *)
(* detaches a thread that runs LLMEngine::infer, erases the entry of that  *)
(* id and sends the last callback.  cancel runs on any other binder        *)
(* thread and finds the flag through the map.                              *)
(*                                                                         *)
(* A flag is named by the request that made it.  LLMEngine::infer appears  *)
(* with what its caller sees: whether it fails before the first token,     *)
(* and the iterations of its decode loop.  What it does to the sessions is *)
(* in module LLMEngine.  Callbacks are one-way binder calls to one object  *)
(* per request, which arrive in the order in which they are sent.          *)
(***************************************************************************)
EXTENDS Integers

CONSTANTS
  Requests,     \* calls of inferStream
  SessionIds,
  NoFlag,       \* the session has no entry in gCancelFlags
  MaxNew,       \* bound: maxTokens of a request, at most
  MaxNews,      \* values of maxTokens
  OverlapIds    \* the sessions for which the framework sends a request
                \* before the last one was answered

ASSUME HalAssumption ==
  /\ NoFlag \notin Requests
  /\ MaxNew \in Nat
  /\ MaxNews \subseteq 0 .. MaxNew
  /\ OverlapIds \subseteq SessionIds

VARIABLES
  ready,        \* mEngine->isReady(): settled before the HAL is registered
  gCancelFlags, \* session id -> the flag entered for it
  flag,         \* request -> its cancel flag
  req,          \* request -> where its threads are
  ret,          \* request -> what inferStream returned
  sent,         \* request -> tokens sent, and the last callback
  late          \* request -> tokens sent after its flag was set (history)

halVars == <<ready, gCancelFlags, flag, req, ret, sent, late>>

Request ==
  [pc   : {"none", "registered", "started", "loop", "sampled", "ended",
           "erased", "done"},
   id   : SessionIds,
   left : 0 .. MaxNew,         \* iterations of the decode loop left
   ok   : BOOLEAN]             \* result of infer

HalInit ==
  /\ ready \in BOOLEAN
  /\ gCancelFlags = [id \in SessionIds |-> NoFlag]
  /\ flag = [r \in Requests |-> FALSE]
  /\ req \in [Requests -> {q \in Request : q.pc = "none" /\ ~q.ok /\ q.left \in MaxNews}]
  /\ ret = [r \in Requests |-> "none"]
  /\ sent = [r \in Requests |-> [tokens |-> 0, last |-> "none"]]
  /\ late = [r \in Requests |-> 0]

InFlight(r) == req[r].pc \in {"registered", "started", "loop", "sampled", "ended"}

-----------------------------------------------------------------------------
(* inferStream, on a binder thread.                                        *)

Refuse(r) ==
  /\ req[r].pc = "none" /\ ret[r] = "none"
  /\ ~ready
  /\ ret' = [ret EXCEPT ![r] = "ENGINE_NOT_READY"]
  /\ UNCHANGED <<ready, gCancelFlags, flag, req, sent, late>>

(* gCancelFlags[sessionId] = cancelFlag replaces an entry that is there.   *)
Register(r) ==
  /\ req[r].pc = "none" /\ ret[r] = "none"
  /\ ready
  /\ \/ req[r].id \in OverlapIds
     \/ \A q \in Requests :
          req[q].id = req[r].id => req[q].pc \in {"none", "done"}
  /\ gCancelFlags' = [gCancelFlags EXCEPT ![req[r].id] = r]
  /\ req' = [req EXCEPT ![r].pc = "registered"]
  /\ UNCHANGED <<ready, flag, ret, sent, late>>

Detach(r) ==
  /\ req[r].pc = "registered"
  /\ req' = [req EXCEPT ![r].pc = "started"]
  /\ UNCHANGED <<ready, gCancelFlags, flag, ret, sent, late>>

(* The call returns while the detached thread may be anywhere.             *)
Accept(r) ==
  /\ req[r].pc \notin {"none", "registered"} /\ ret[r] = "none"
  /\ ret' = [ret EXCEPT ![r] = "0"]
  /\ UNCHANGED <<ready, gCancelFlags, flag, req, sent, late>>

-----------------------------------------------------------------------------
(* cancel, under gCancelMapMutex.                                          *)

Cancel(id) ==
  /\ gCancelFlags[id] # NoFlag
  /\ flag' = [flag EXCEPT ![gCancelFlags[id]] = TRUE]
  /\ UNCHANGED <<ready, gCancelFlags, req, ret, sent, late>>

-----------------------------------------------------------------------------
(* The detached thread.                                                    *)

(* infer returns without having entered its loop, or enters it.            *)
InferFails(r) ==
  /\ req[r].pc = "started"
  /\ req' = [req EXCEPT ![r].pc = "ended"]
  /\ UNCHANGED <<ready, gCancelFlags, flag, ret, sent, late>>

(* Mutant of InferStarts: the entry is erased before infer is called.      *)
InferStartsErased(r) ==
  /\ req[r].pc = "started"
  /\ gCancelFlags' = [gCancelFlags EXCEPT ![req[r].id] = NoFlag]
  /\ req' = [req EXCEPT ![r].pc = "loop"]
  /\ UNCHANGED <<ready, flag, ret, sent, late>>

InferStarts(r) ==
  /\ req[r].pc = "started"
  /\ req' = [req EXCEPT ![r].pc = "loop"]
  /\ UNCHANGED <<ready, gCancelFlags, flag, ret, sent, late>>

LoopIgnoresFlag(r) ==
  /\ req[r].pc = "loop"
  /\ req' = IF req[r].left = 0
            THEN [req EXCEPT ![r].pc = "ended", ![r].ok = TRUE]
            ELSE [req EXCEPT ![r].pc = "sampled"]
  /\ UNCHANGED <<ready, gCancelFlags, flag, ret, sent, late>>

(* The head of the loop: the count, and cancelFlag->load().                *)
LoopChecks(r) ==
  /\ req[r].pc = "loop"
  /\ req' = IF req[r].left = 0 \/ flag[r]
            THEN [req EXCEPT ![r].pc = "ended", ![r].ok = TRUE]
            ELSE [req EXCEPT ![r].pc = "sampled"]
  /\ UNCHANGED <<ready, gCancelFlags, flag, ret, sent, late>>

(* The token that was sampled ends the generation.                         *)
EndOfGeneration(r) ==
  /\ req[r].pc = "sampled"
  /\ req' = [req EXCEPT ![r].pc = "ended", ![r].ok = TRUE]
  /\ UNCHANGED <<ready, gCancelFlags, flag, ret, sent, late>>

(* Mutant of SendToken: a decode that fails makes infer return false.      *)
SendTokenOrFail(r) ==
  /\ req[r].pc = "sampled"
  /\ sent' = [sent EXCEPT ![r].tokens = @ + 1]
  /\ late' = [late EXCEPT ![r] = IF flag[r] THEN @ + 1 ELSE @]
  /\ \/ req' = [req EXCEPT ![r].pc = "loop", ![r].left = @ - 1]
     \/ req' = [req EXCEPT ![r].pc = "ended"]
  /\ UNCHANGED <<ready, gCancelFlags, flag, ret>>

(* Otherwise onToken is called; then the token is decoded, and the loop    *)
(* goes on or, when that fails, ends.                                      *)
SendToken(r) ==
  /\ req[r].pc = "sampled"
  /\ sent' = [sent EXCEPT ![r].tokens = @ + 1]
  /\ late' = [late EXCEPT ![r] = IF flag[r] THEN @ + 1 ELSE @]
  /\ \/ req' = [req EXCEPT ![r].pc = "loop", ![r].left = @ - 1]
     \/ req' = [req EXCEPT ![r].pc = "ended", ![r].ok = TRUE]
  /\ UNCHANGED <<ready, gCancelFlags, flag, ret>>

(* Mutant of EraseFlag: no erase.                                          *)
EraseNothing(r) ==
  /\ req[r].pc = "ended"
  /\ req' = [req EXCEPT ![r].pc = "erased"]
  /\ UNCHANGED <<ready, gCancelFlags, flag, ret, sent, late>>

(* gCancelFlags.erase(sessionId): whoever's flag is entered there.         *)
EraseFlag(r) ==
  /\ req[r].pc = "ended"
  /\ gCancelFlags' = [gCancelFlags EXCEPT ![req[r].id] = NoFlag]
  /\ req' = [req EXCEPT ![r].pc = "erased"]
  /\ UNCHANGED <<ready, flag, ret, sent, late>>

Answer(r) ==
  /\ req[r].pc = "erased"
  /\ sent' = [sent EXCEPT ![r].last = IF req[r].ok THEN "complete" ELSE "error"]
  /\ req' = [req EXCEPT ![r].pc = "done"]
  /\ UNCHANGED <<ready, gCancelFlags, flag, ret, late>>

-----------------------------------------------------------------------------
BinderStep(r) == Detach(r) \/ Accept(r)

ThreadStep(r) ==
  \/ InferFails(r) \/ InferStarts(r) \/ LoopChecks(r) \/ EndOfGeneration(r)
  \/ SendToken(r) \/ EraseFlag(r) \/ Answer(r)

(* All requests are answered.                                              *)
Finished ==
  /\ \A r \in Requests : ret[r] # "none" /\ req[r].pc \in {"none", "done"}
  /\ UNCHANGED halVars

HalNext ==
  \/ \E r \in Requests : Refuse(r) \/ Register(r) \/ BinderStep(r) \/ ThreadStep(r)
  \/ \E id \in SessionIds : Cancel(id)
  \/ Finished

(* The binder thread inside inferStream and the detached thread run on.    *)
(* Nobody has to send a request or to cancel one.                          *)
HalSpec ==
  /\ HalInit /\ [][HalNext]_halVars
  /\ \A r \in Requests : WF_halVars(BinderStep(r)) /\ WF_halVars(ThreadStep(r))

-----------------------------------------------------------------------------
(* Properties.                                                             *)

(* Every variable has its type.                                            *)
HalTypeOK ==
  /\ ready \in BOOLEAN
  /\ gCancelFlags \in [SessionIds -> Requests \cup {NoFlag}]
  /\ flag \in [Requests -> BOOLEAN]
  /\ req \in [Requests -> Request]
  /\ ret \in [Requests -> {"none", "0", "ENGINE_NOT_READY"}]
  /\ sent \in [Requests -> [tokens : Nat, last : {"none", "complete", "error"}]]
  /\ late \in [Requests -> Nat]

(* gCancelFlags keeps no flag of a request whose thread is past its erase, *)
(* and none of another session: a cancel never hits a request it does not  *)
(* name, and the map does not grow (hal_service.cpp:68, 83, 104).          *)
FlagMapIsCurrent ==
  \A id \in SessionIds : gCancelFlags[id] # NoFlag =>
    InFlight(gCancelFlags[id]) /\ req[gCancelFlags[id]].id = id

(* After its flag is set a request sends at most one more token: the one   *)
(* that was past the check of the flag (llm_engine.cpp:97-111).            *)
CancelIsPrompt == \A r \in Requests : late[r] <= 1

(* onError is the first callback of a request or there is none: after a    *)
(* token the stream ends with onComplete, also when llama_decode failed    *)
(* (llm_engine.cpp:115-122, hal_service.cpp:87-94).  No stream is longer   *)
(* than maxTokens.                                                         *)
ErrorComesAlone ==
  \A r \in Requests :
    /\ sent[r].last = "error" => sent[r].tokens = 0
    /\ sent[r].tokens <= MaxNew

(* cancel(sessionId) finds the flag of every request of the session, from  *)
(* its registration until infer has returned, provided the framework waits *)
(* for each answer of that session before its next request; requests of    *)
(* other sessions may overlap as they like (hal_service.cpp:68, 83).       *)
InFlightIsCancellable ==
  \A r \in Requests : InFlight(r) /\ req[r].id \notin OverlapIds
    => gCancelFlags[req[r].id] = r

=============================================================================
