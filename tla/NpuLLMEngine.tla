---------------------------- MODULE NpuLLMEngine ----------------------------
(***************************************************************************)
(* The NPU engine (daemon/src/npu_llm_engine.cpp): one model, one context  *)
(* and one sampler, which a load replaces one after the other, and         *)
(* questions without a session on the one context.  An object is the       *)
(* number of the load that made it, 0 is nullptr.  Only the UDS thread     *)
(* calls the engine, so load is one step; infer is one step per token,     *)
(* because each is written to the client.                                  *)
(***************************************************************************)
EXTENDS Llama

CONSTANTS n_ctx,       \* nCtx of NPU_LOAD
          MaxPrompt,   \* bound: tokens of a question
          MaxNew       \* bound: maxTokens of a question

ASSUME NpuAssumption == n_ctx \in Nat \ {0} /\ MaxPrompt \in Nat \ {0} /\ MaxNew \in Nat

VARIABLES
  mModel, mCtx, mSampler,
  loads,               \* calls of load
  cache,               \* the KV cache of mCtx
  asked,               \* calls of infer; a question's tokens carry its number
  nPast, left          \* of the running infer; left is maxTokens - i

npuVars == <<mModel, mCtx, mSampler, loads, cache, asked, nPast, left>>

NpuInit ==
  /\ mModel = 0 /\ mCtx = 0 /\ mSampler = 0 /\ loads = 0
  /\ cache = {} /\ asked = 0 /\ nPast = 0 /\ left = 0

isReady == mModel # 0

-----------------------------------------------------------------------------
(* load                                                                    *)

LoadNoModel ==
  /\ loads' = loads + 1
  /\ mModel' = 0
  /\ UNCHANGED <<mCtx, mSampler, cache, asked, nPast, left>>

(* Mutant of LoadNoContext: a failed context creation keeps the old one.   *)
LoadKeepsContext ==
  /\ loads' = loads + 1
  /\ mModel' = loads'
  /\ UNCHANGED <<mCtx, mSampler, cache, asked, nPast, left>>

LoadNoContext ==
  /\ loads' = loads + 1
  /\ mModel' = loads' /\ mCtx' = 0 /\ cache' = {}
  /\ UNCHANGED <<mSampler, asked, nPast, left>>

(* The warm-up token (number 0) is decoded, or not, and cleared away.      *)
LoadSucceeds ==
  /\ loads' = loads + 1
  /\ mModel' = loads' /\ mCtx' = loads' /\ mSampler' = loads'
  /\ \E warm \in {{}, Decoded({}, <<0>>)} : cache' = kv_cache_clear(warm)
  /\ UNCHANGED <<asked, nPast, left>>

-----------------------------------------------------------------------------
(* infer                                                                   *)

(* n tokens of the question, or of its answer.                             *)
TokensOf(question, n) == [i \in 1 .. n |-> question]

(* Mutant of Cleared: the cells of the last question stay.                 *)
NotCleared == cache

Cleared == kv_cache_clear(cache)

NpuPrefill ==
  /\ mCtx # 0
  /\ asked' = asked + 1
  /\ \E n \in 1 .. MaxPrompt, max \in 0 .. MaxNew :
       /\ HasSlot(Cleared, TokensOf(asked', n), n_ctx)
       /\ cache' = Decoded(Cleared, TokensOf(asked', n))
       /\ nPast' = n /\ left' = max
  /\ UNCHANGED <<mModel, mCtx, mSampler, loads>>

(* No context, or the question cannot be decoded.                          *)
NpuInferFails ==
  /\ asked' = asked + 1
  /\ cache' = IF mCtx = 0 THEN cache ELSE Cleared
  /\ UNCHANGED <<mModel, mCtx, mSampler, loads, nPast, left>>

(* One token, which the caller passes on, and its decode.                  *)
NpuGenerates ==
  /\ left > 0 /\ left' = left - 1
  /\ HasSlot(cache, TokensOf(asked, 1), n_ctx)
  /\ cache' = Decoded(cache, TokensOf(asked, 1))
  /\ nPast' = nPast + 1
  /\ UNCHANGED <<mModel, mCtx, mSampler, loads, asked>>

(* The decode fails after the token was passed on; the loop ends.          *)
NpuDecodeFails ==
  /\ left > 0 /\ left' = 0
  /\ UNCHANGED <<mModel, mCtx, mSampler, loads, cache, asked, nPast>>

(* End of generation or of maxTokens.                                      *)
NpuLoopEnds ==
  /\ left' = 0
  /\ UNCHANGED <<mModel, mCtx, mSampler, loads, cache, asked, nPast>>

=============================================================================
