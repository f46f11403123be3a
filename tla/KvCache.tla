------------------------------ MODULE KvCache -------------------------------
(***************************************************************************)
(* One session looked at closely: the cells of its KV cache, with their    *)
(* positions and tokens, against the record of tokens in SessionMeta.      *)
(* SessionManager and LLMEngine count both; here it is shown what the      *)
(* counts stand for.  Tokens are told apart by the order in which they     *)
(* were decoded: token t is the t-th one of the session.                   *)
(*                                                                         *)
(* Pruning cuts the record by index and the cache by position, two halves  *)
(* that agree only while positions start at 0 and have no holes.           *)
(***************************************************************************)
EXTENDS Llama

CONSTANTS
  n_ctx,           \* mCtxParams.n_ctx
  kMinKeepTokens,  \* session_manager.h
  MaxDecoded       \* bound: tokens decoded in the life of the session

ASSUME KvAssumption ==
  /\ n_ctx \in Nat \ {0} /\ MaxDecoded \in Nat /\ kMinKeepTokens \in Nat

VARIABLES
  mode,            \* where the session is in its life
  cache,           \* the KV cache of meta.ctx
  tokens,          \* meta.tokens
  generated,       \* the vector of a running infer
  file,            \* the swap file
  swapFileBytes,   \* the size it was charged with, in cells
  failed           \* history: a decode of the loop has failed

kvVars == <<mode, cache, tokens, generated, file, swapFileBytes, failed>>

NoFile == SavedState({}, <<>>)

(* The next n tokens the session is to see.                                *)
Seen == IF tokens \o generated = <<>> THEN 0 ELSE (tokens \o generated)[Len(tokens \o generated)]
NextTokens(n) == [i \in 1 .. n |-> Seen + i]

KvInit ==
  /\ mode = "new" /\ cache = {} /\ tokens = <<>> /\ generated = <<>>
  /\ file = NoFile /\ swapFileBytes = 0 /\ failed = FALSE

-----------------------------------------------------------------------------
(* LLMEngine::infer on an activated session.                               *)

(* The prompt is decoded in one batch and then recorded.                   *)
Prefill(n) ==
  /\ mode = "hot" /\ Seen + n <= MaxDecoded
  /\ HasSlot(cache, NextTokens(n), n_ctx)
  /\ cache' = Decoded(cache, NextTokens(n))
  /\ tokens' = tokens \o NextTokens(n)
  /\ mode' = "loop"
  /\ UNCHANGED <<generated, file, swapFileBytes, failed>>

(* One round of the loop: the token is put in generated before it is       *)
(* decoded, and stays there when that fails and ends the loop.             *)
Generate ==
  /\ mode = "loop" /\ Seen < MaxDecoded
  /\ generated' = generated \o NextTokens(1)
  /\ \/ /\ HasSlot(cache, NextTokens(1), n_ctx)
        /\ cache' = Decoded(cache, NextTokens(1))
        /\ UNCHANGED <<mode, failed>>
     \/ mode' = "record" /\ failed' = TRUE /\ UNCHANGED cache
  /\ UNCHANGED <<tokens, file, swapFileBytes>>

(* End of generation, maxTokens or cancel.                                 *)
LoopEnds ==
  /\ mode = "loop" /\ mode' = "record"
  /\ UNCHANGED <<cache, tokens, generated, file, swapFileBytes, failed>>

RecordGenerated ==
  /\ mode = "record" /\ mode' = "hot"
  /\ tokens' = tokens \o generated /\ generated' = <<>>
  /\ UNCHANGED <<cache, file, swapFileBytes, failed>>

-----------------------------------------------------------------------------
(* SessionManager::swapOut and the swap-in of activateForInfer.            *)

SwapOut ==
  /\ mode = "hot" /\ mode' = "saving"
  /\ UNCHANGED <<cache, tokens, generated, file, swapFileBytes, failed>>

Save ==
  /\ mode = "saving" /\ mode' = "saved"
  /\ file' = SavedState(cache, tokens)
  /\ UNCHANGED <<cache, tokens, generated, swapFileBytes, failed>>

SaveFails ==
  /\ mode = "saving" /\ mode' = "hot"
  /\ UNCHANGED <<cache, tokens, generated, file, swapFileBytes, failed>>

(* Mutant of ToRemove: without the std::min.                               *)
ToRemoveUnclamped(n) == IF n \div 4 = 0 THEN 1 ELSE n \div 4

(* A quarter of the tokens, at least one, and not below the minimum.       *)
ToRemove(n) ==
  LET quarter == IF n \div 4 = 0 THEN 1 ELSE n \div 4
  IN  IF quarter < n - kMinKeepTokens THEN quarter ELSE n - kMinKeepTokens

(* Mutant of PrunedCache: positions are not moved down.                    *)
PrunedCacheUnshifted(r) == seq_rm(cache, 0, r)

(* Mutant of PrunedCache: the last of the r tokens stays.                  *)
PrunedCacheShort(r) == seq_add(seq_rm(cache, 0, r - 1), r, -1, -r)

PrunedCache(r) == seq_add(seq_rm(cache, 0, r), r, -1, -r)

PrunedTokens(r) == SubSeq(tokens, r + 1, Len(tokens))

(* Mutant of Prune: the loop is left with the file of before the pruning.  *)
PruneLast ==
  /\ mode = "saved" /\ Len(tokens) > kMinKeepTokens
  /\ \/ mode' = "saving"
     \/ mode' = "saved"
  /\ cache' = PrunedCache(ToRemove(Len(tokens)))
  /\ tokens' = PrunedTokens(ToRemove(Len(tokens)))
  /\ UNCHANGED <<generated, file, swapFileBytes, failed>>

(* The file does not fit the cold store; pruneOldestTokens does nothing    *)
(* when asked for no token or for all of them.                             *)
Prune ==
  /\ mode = "saved" /\ Len(tokens) > kMinKeepTokens
  /\ mode' = "saving"
  /\ LET r == ToRemove(Len(tokens))
     IN  IF r = 0 \/ r >= Len(tokens) THEN UNCHANGED <<cache, tokens>>
         ELSE cache' = PrunedCache(r) /\ tokens' = PrunedTokens(r)
  /\ UNCHANGED <<generated, file, swapFileBytes, failed>>

(* llama_free; meta.tokens is left as it is.                               *)
GoesCold ==
  /\ mode = "saved" /\ mode' = "cold"
  /\ swapFileBytes' = Cardinality(cache)
  /\ cache' = {}
  /\ UNCHANGED <<tokens, generated, file, failed>>

Activate ==
  /\ mode = "new" /\ mode' = "hot"
  /\ UNCHANGED <<cache, tokens, generated, file, swapFileBytes, failed>>

SwapIn ==
  /\ mode = "cold" /\ Accepts(file, n_ctx)
  /\ mode' = "hot"
  /\ cache' = file.cells /\ tokens' = file.tokens
  /\ file' = NoFile /\ swapFileBytes' = 0
  /\ UNCHANGED <<generated, failed>>

(* The load fails after meta.tokens was given the size of its buffer.      *)
SwapInFails ==
  /\ mode = "cold"
  /\ tokens' = [i \in 1 .. n_ctx |-> IF i <= Len(tokens) THEN tokens[i] ELSE 0]
  /\ UNCHANGED <<mode, cache, generated, file, swapFileBytes, failed>>

KvNext ==
  \/ \E n \in 1 .. n_ctx : Prefill(n)
  \/ Generate \/ LoopEnds \/ RecordGenerated
  \/ SwapOut \/ Save \/ SaveFails \/ Prune \/ GoesCold
  \/ Activate \/ SwapIn \/ SwapInFails

KvSpec == KvInit /\ [][KvNext]_kvVars

-----------------------------------------------------------------------------
(* Properties.                                                             *)

HasContext == mode \notin {"new", "cold"}

(* Positions start at 0 and have no holes, and no two cells share one, so  *)
(* "the oldest r tokens" are the positions 0..r-1: what pruneOldestTokens  *)
(* counts on, also after earlier prunings and a swap-out and swap-in.      *)
NoHoles(c) == {x.pos : x \in c} = 0 .. Cardinality(c) - 1

(* The cache holds the conversation as recorded: cell by cell if every     *)
(* decode went well; after a failed one some tokens of the record have no  *)
(* cell, but the cells are still in the order of the record and nothing    *)
(* else is in the cache (llm_engine.cpp:113-117, session_manager.cpp:174). *)
Follows(c, rec) ==
  /\ NoHoles(c)
  /\ Cardinality(c) <= Len(rec)
  /\ failed \/ \A i \in 1 .. Len(rec) : Cell(i - 1, rec[i]) \in c
  /\ \A x \in c : \E i \in DOMAIN rec : i > x.pos /\ rec[i] = x.tok
  /\ \A x, y \in c : x.pos < y.pos => x.tok < y.tok
CacheFollowsRecord == HasContext => Follows(cache, tokens \o generated)

(* What a swap-in will bring back is a cache that follows its record, and  *)
(* the size charged to the cold store is that of this very file: the last  *)
(* save came after the last pruning (session_manager.cpp:185-201).         *)
FileIsCurrent ==
  mode = "cold" => /\ Follows(file.cells, file.tokens)
                   /\ Cardinality(file.cells) = swapFileBytes

(* Pruning r tokens frees r cells, or all where fewer are left: this makes *)
(* the count of cells in SessionManager exact.                             *)
PruningFreesCells ==
  [][Len(tokens') < Len(tokens) /\ HasContext =>
       LET r == Len(tokens) - Len(tokens')
       IN  Cardinality(cache') =
             IF r < Cardinality(cache) THEN Cardinality(cache) - r ELSE 0]_kvVars

(* Pruning stops at kMinKeepTokens, however many rounds it takes and       *)
(* wherever the quarter of a round would have led (the std::min of         *)
(* session_manager.cpp:199).                                               *)
PruningKeepsMinimum ==
  [][Len(tokens') < Len(tokens) /\ HasContext => Len(tokens') >= kMinKeepTokens]_kvVars

=============================================================================
