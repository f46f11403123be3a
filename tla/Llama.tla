------------------------------- MODULE Llama --------------------------------
(***************************************************************************)
(* What the daemon relies on of llama.cpp, read from                       *)
(* prebuilts/npu/include/llama.h: the KV cache of sequence 0, the only one *)
(* the daemon uses, as a set of cells, each with its position and token.   *)
(* The CPU engine is built against a newer llama.cpp, which has the same   *)
(* operations under the names llama_memory_seq_rm and _add.                *)
(***************************************************************************)
EXTENDS Integers, Sequences, FiniteSets

Cell(p, t) == [pos |-> p, tok |-> t]

(* A range of positions; a negative end means "to infinity".               *)
InRange(p, p0, p1) == p >= p0 /\ (p1 < 0 \/ p < p1)

(* A partial sequence can be removed: the refusal that llama.h:613 allows, *)
(* and whose result the daemon does not look at (session_manager.cpp:174), *)
(* is that of models whose state is not a cache of positions.              *)
seq_rm(cache, p0, p1) == {c \in cache : ~InRange(c.pos, p0, p1)}

seq_add(cache, p0, p1, delta) ==
  {IF InRange(c.pos, p0, p1) THEN Cell(c.pos + delta, c.tok) ELSE c : c \in cache}

kv_cache_clear(cache) == {}

seq_pos_max(cache) ==
  IF cache = {} THEN -1
  ELSE CHOOSE p \in {c.pos : c \in cache} : \A c \in cache : c.pos <= p

(* llama_decode of a batch from llama_batch_get_one: it carries no         *)
(* positions, so they continue after the largest one in the cache.  It     *)
(* finds no slot when the cells do not suffice, and a call that fails      *)
(* leaves the cache as it was.                                             *)
HasSlot(cache, toks, n_ctx) == Len(toks) > 0 /\ Cardinality(cache) + Len(toks) <= n_ctx

Decoded(cache, toks) ==
  cache \cup {Cell(seq_pos_max(cache) + i, toks[i]) : i \in 1 .. Len(toks)}

(* A saved sequence: the cells, and beside them the tokens it was given.   *)
SavedState(cache, toks) == [cells |-> cache, tokens |-> toks]

(* A file with more tokens than the buffer of the caller is refused.       *)
Accepts(file, capacity) == Len(file.tokens) <= capacity

=============================================================================
