--------------------------- MODULE SessionManager ---------------------------
(***************************************************************************)
(* The session manager of ai_daemon (daemon/src/session_manager.cpp): a    *)
(* two-level LRU cache of conversations.  A HOT session owns a             *)
(* llama_context; a COLD one that has been used before lives in a swap     *)
(* file; a COLD one that has never been used has neither.                  *)
(*                                                                         *)
(* One thread calls the public methods, one at a time: the assumption that *)
(* session_manager.h:21-23 writes down.  createSession, killSession and    *)
(* recordTokens are one step each.  setHotLimit, setColdLimit and          *)
(* activateForInfer run the eviction loops, so a call is a sequence of     *)
(* steps, one per loop iteration, and `call' is its stack frame: while it  *)
(* is not Idle no other method starts.                                     *)
(*                                                                         *)
(* Abstractions.  A token sequence is its length, and the KV cache of a    *)
(* context is the number of cells of sequence 0.  lastUsedMs is written    *)
(* and never read, and is left out.  lruIt, an iterator into one of the    *)
(* two LRU lists, is the position of the id in that list.                  *)
(***************************************************************************)
EXTENDS Integers, Sequences, FiniteSets

CONSTANTS
  SessionIds,             \* the session ids the framework may choose
  Contexts,               \* the addresses a llama_context may get
  NoCtx,                  \* nullptr
  nCtx,                   \* mCtxParams.n_ctx
  kMinKeepTokens,         \* pruning stops at this many tokens (64)
  kDefaultHotLimit,       \* 3
  kDefaultColdLimitBytes, \* 512 MiB
  HotLimits,              \* arguments setHotLimit is called with
  ColdLimits,             \* arguments setColdLimit is called with
  HeaderBytes, CellBytes, \* size of a saved sequence: a header and its cells
  MaxTokens,              \* bound: a session never records more tokens
  Faults                  \* the llama calls that may fail: "save", "load",
                          \* "init", "decode"

ASSUME ConstantsAssumption ==
  /\ SessionIds \subseteq Int
  /\ NoCtx \notin Contexts
  /\ nCtx \in Nat \ {0}
  /\ kMinKeepTokens \in Nat \ {0}
  /\ kDefaultHotLimit \in Nat \ {0}
  /\ kDefaultColdLimitBytes \in Nat
  /\ HotLimits \subseteq Nat
  /\ ColdLimits \subseteq Nat
  /\ HeaderBytes \in Nat
  /\ CellBytes \in Nat
  /\ MaxTokens \in Nat
  /\ Faults \subseteq {"save", "load", "init", "decode"}

VARIABLES
  mSessions,       \* id -> SessionMeta; state "NONE" is: not in the map
  mHotLru,         \* ids of HOT sessions, least recently used first
  mColdLru,        \* ids of swapped-out sessions, oldest swap first
  mHotLimit,
  mColdLimitBytes,
  mColdUsedBytes,
  live,            \* the contexts that are allocated
  cells,           \* context -> KV cells of sequence 0
  files,           \* id -> the swap file "<id>.state"
  call,            \* frame of the method in progress
  proc             \* "up", "undefined" (a dead object was used) or "down"

smVars == <<mSessions, mHotLru, mColdLru, mHotLimit, mColdLimitBytes,
            mColdUsedBytes, live, cells, files, call>>

vars == <<smVars, proc>>

-----------------------------------------------------------------------------
(* Types and small helpers.                                                *)

SessionMeta ==
  [state         : {"NONE", "HOT", "COLD"},
   ctx           : Contexts \cup {NoCtx},
   tokens        : Nat,
   swapFilePath  : BOOLEAN,            \* non-empty
   swapFileBytes : Nat]

NewMeta(state) ==
  [state |-> state, ctx |-> NoCtx, tokens |-> 0,
   swapFilePath |-> FALSE, swapFileBytes |-> 0]

(* A swap file: absent, written by the session that now has its id, or     *)
(* left over (by a killed session of that id, by an earlier process, or by *)
(* a save that failed half way).                                           *)
File == [kind : {"none", "valid", "stale"}, tokens : Nat, cells : Nat]

NoFile == [kind |-> "none", tokens |-> 0, cells |-> 0]

LeftOver(file) ==
  IF file.kind = "none" THEN NoFile ELSE [NoFile EXCEPT !.kind = "stale"]

Frame ==
  [op     : {"none", "setHotLimit", "setColdLimit", "activateForInfer"},
   pc     : {"idle", "evictHot", "swapOut", "evictCold", "swapIn"},
   id     : SessionIds \cup {-1},
   victim : SessionIds \cup {-1}]

Idle == [op |-> "none", pc |-> "idle", id |-> -1, victim |-> -1]

IsHot(id)     == mSessions[id].state = "HOT"
IsSwapped(id) == mSessions[id].state = "COLD" /\ mSessions[id].swapFilePath

(* std::list::erase through the iterator of an element: the list without   *)
(* that element, the order of the others kept.                             *)
Position(list, id) == CHOOSE i \in DOMAIN list : list[i] = id

EraseFront(list, id) == Tail(list)             \* mutant: not through lruIt

Erase(list, id) ==
  [i \in 1 .. Len(list) - 1 |->
     IF i < Position(list, id) THEN list[i] ELSE list[i + 1]]

(* llama_state_seq_get_size, affine in the cells of the sequence: what a   *)
(* session is charged with.  The bytes that llama_state_seq_save_file puts *)
(* on disk are more (they hold the tokens too); the code only asks whether *)
(* there are any, and so does the model.                                   *)
StateSize(n) == HeaderBytes + CellBytes * n

(* llama_free: the context and its cells are gone.                         *)
llama_free(c) ==
  /\ live' = live \ {c}
  /\ cells' = [cells EXCEPT ![c] = 0]

Larger(a, b)  == IF a >= b THEN a ELSE b
Smaller(a, b) == IF a <= b THEN a ELSE b

-----------------------------------------------------------------------------
(* Construction: LLMEngine::load builds the manager and sets the default   *)
(* limits; with no session the two eviction loops do nothing.              *)

Init ==
  /\ mSessions = [id \in SessionIds |-> NewMeta("NONE")]
  /\ mHotLru = <<>>
  /\ mColdLru = <<>>
  /\ mHotLimit = kDefaultHotLimit
  /\ mColdLimitBytes = kDefaultColdLimitBytes
  /\ mColdUsedBytes = 0
  /\ live = {}
  /\ cells = [c \in Contexts |-> 0]
  /\ files = [id \in SessionIds |-> NoFile]
  /\ call = Idle
  /\ proc = "up"

Ready == proc = "up" /\ call = Idle

-----------------------------------------------------------------------------
(* createSession, killSession, recordTokens.                               *)

(* An id in use is refused and nothing changes.  A file left over under    *)
(* this id is not touched, but is no file of the new session.              *)
CreateSession(id) ==
  /\ Ready
  /\ mSessions[id].state = "NONE"
  /\ mSessions' = [mSessions EXCEPT ![id] = NewMeta("COLD")]
  /\ files' = [files EXCEPT ![id] = LeftOver(@)]
  /\ UNCHANGED <<mHotLru, mColdLru, mHotLimit, mColdLimitBytes,
                 mColdUsedBytes, live, cells, call, proc>>

(* Mutants of LeavesCold: the bytes stay charged; the file stays on disk.  *)
LeavesColdCharged(id) ==
  /\ mColdLru' = Erase(mColdLru, id)
  /\ files' = [files EXCEPT ![id] = NoFile]
  /\ UNCHANGED mColdUsedBytes

LeavesColdWithFile(id) ==
  /\ mColdLru' = Erase(mColdLru, id)
  /\ mColdUsedBytes' = mColdUsedBytes - mSessions[id].swapFileBytes
  /\ UNCHANGED files

(* A swapped-out session stops being one, killed or swapped in: its bytes  *)
(* are given back and its file is removed.                                 *)
LeavesCold(id) ==
  /\ mColdLru' = Erase(mColdLru, id)
  /\ mColdUsedBytes' = mColdUsedBytes - mSessions[id].swapFileBytes
  /\ files' = [files EXCEPT ![id] = NoFile]

(* killSession's effect, also for the victims of evictColdIfNeeded.        *)
Kill(id) ==
  /\ mSessions' = [mSessions EXCEPT ![id] = NewMeta("NONE")]
  /\ IF IsHot(id)
     THEN /\ mHotLru' = Erase(mHotLru, id)
          /\ llama_free(mSessions[id].ctx)
     ELSE UNCHANGED <<mHotLru, live, cells>>
  /\ IF IsSwapped(id)
     THEN LeavesCold(id)
     ELSE UNCHANGED <<mColdLru, mColdUsedBytes, files>>
  /\ UNCHANGED <<mHotLimit, mColdLimitBytes, proc>>

KillSession(id) ==
  /\ Ready
  /\ mSessions[id].state # "NONE"
  /\ Kill(id)
  /\ UNCHANGED call

(* touchHot: the session becomes the most recently used.                   *)
Touched(id) == Append(Erase(mHotLru, id), id)

(* recordTokens(id, n): n tokens are appended, and a HOT session becomes   *)
(* the most recently used.                                                 *)
RecordTokens(id, n) ==
  /\ Ready
  /\ mSessions[id].state # "NONE"
  /\ mSessions[id].tokens + n <= MaxTokens
  /\ mSessions' = [mSessions EXCEPT ![id].tokens = @ + n]
  /\ mHotLru' = IF IsHot(id) THEN Touched(id) ELSE mHotLru
  /\ UNCHANGED <<mColdLru, mHotLimit, mColdLimitBytes, mColdUsedBytes,
                 live, files, call, proc>>

-----------------------------------------------------------------------------
(* The limits: store the new one, then run the eviction loop.              *)

LimitAsGiven(count) == count                   \* mutant
LimitFor(count)     == Larger(1, count)

SetHotLimit(count) ==
  /\ Ready
  /\ mHotLimit' = LimitFor(count)
  /\ call' = [Idle EXCEPT !.op = "setHotLimit", !.pc = "evictHot"]
  /\ UNCHANGED <<mSessions, mHotLru, mColdLru, mColdLimitBytes,
                 mColdUsedBytes, live, cells, files, proc>>

SetColdLimit(bytes) ==
  /\ Ready
  /\ mColdLimitBytes' = bytes
  /\ call' = [Idle EXCEPT !.op = "setColdLimit", !.pc = "evictCold"]
  /\ UNCHANGED <<mSessions, mHotLru, mColdLru, mHotLimit, mColdUsedBytes,
                 live, cells, files, proc>>

-----------------------------------------------------------------------------
(* activateForInfer up to its call of evictHotIfNeeded.  For an id that is *)
(* not in the map it returns nullptr and changes nothing.  Its result is   *)
(* meta.ctx when it returns, which is nullptr unless the session is HOT.   *)

ActivateHot(id) ==
  /\ Ready
  /\ IsHot(id)
  /\ mHotLru' = Touched(id)
  /\ UNCHANGED <<mSessions, mColdLru, mHotLimit, mColdLimitBytes,
                 mColdUsedBytes, live, cells, files, call, proc>>

ActivateCold(id) ==
  /\ Ready
  /\ mSessions[id].state = "COLD"
  /\ call' = [op |-> "activateForInfer", pc |-> "evictHot", id |-> id,
              victim |-> -1]
  /\ UNCHANGED <<mSessions, mHotLru, mColdLru, mHotLimit, mColdLimitBytes,
                 mColdUsedBytes, live, cells, files, proc>>

-----------------------------------------------------------------------------
(* evictHotIfNeeded(excludeId).                                            *)

HotExclude == IF call.op = "activateForInfer" THEN call.id ELSE -1

(* The first id in LRU order that is not excluded; -1 stands for none.     *)
HotVictim ==
  LET candidates == {i \in DOMAIN mHotLru : mHotLru[i] # HotExclude}
  IN  IF candidates = {} THEN -1
      ELSE mHotLru[CHOOSE i \in candidates : \A j \in candidates : i <= j]

HotIsOver == Len(mHotLru) > mHotLimit          \* mutant: > for >=

HotIsFull == Len(mHotLru) >= mHotLimit /\ mHotLru # <<>>

(* Where control goes when evictHotIfNeeded returns.                       *)
AfterEvictHot ==
  IF call.op = "activateForInfer"
  THEN [call EXCEPT !.pc = "swapIn", !.victim = -1]
  ELSE Idle

EvictHotPicks ==
  /\ proc = "up" /\ call.pc = "evictHot"
  /\ HotIsFull /\ HotVictim # -1
  /\ call' = [call EXCEPT !.pc = "swapOut", !.victim = HotVictim]
  /\ UNCHANGED <<mSessions, mHotLru, mColdLru, mHotLimit, mColdLimitBytes,
                 mColdUsedBytes, live, cells, files, proc>>

EvictHotReturns ==
  /\ proc = "up" /\ call.pc = "evictHot"
  /\ ~HotIsFull \/ HotVictim = -1
  /\ call' = AfterEvictHot
  /\ UNCHANGED <<mSessions, mHotLru, mColdLru, mHotLimit, mColdLimitBytes,
                 mColdUsedBytes, live, cells, files, proc>>

-----------------------------------------------------------------------------
(* swapOut(meta): one step per iteration of its save loop.                 *)

Victim        == mSessions[call.victim]
VictimCells   == cells[Victim.ctx]
Fits          == StateSize(VictimCells) + mColdUsedBytes <= mColdLimitBytes
Saved(tokens, n) == [kind |-> "valid", tokens |-> tokens, cells |-> n]

(* The file that an iteration writes.                                      *)
Written == Saved(Victim.tokens, VictimCells)

(* What follows the save loop: the session is COLD, with this file.        *)
GoesCold(file) ==
  /\ files' = [files EXCEPT ![call.victim] = file]
  /\ mHotLru' = Erase(mHotLru, call.victim)
  /\ llama_free(Victim.ctx)
  /\ mSessions' = [mSessions EXCEPT
       ![call.victim] = [@ EXCEPT !.state = "COLD", !.ctx = NoCtx,
                                  !.swapFilePath = TRUE,
                                  !.swapFileBytes = StateSize(VictimCells)]]
  /\ mColdLru' = Append(mColdLru, call.victim)
  /\ mColdUsedBytes' = mColdUsedBytes + StateSize(VictimCells)
  /\ call' = [call EXCEPT !.pc = "evictCold"]
  /\ UNCHANGED <<mHotLimit, mColdLimitBytes, proc>>

CutOff == LeftOver(Saved(0, 0))

(* Mutant of SwapOutFails: the result of the save is not looked at.        *)
SwapOutIgnoresFailure ==
  proc = "up" /\ call.pc = "swapOut" /\ "save" \in Faults /\ GoesCold(CutOff)

(* Mutant of SwapOutFails: the loop goes on to the next victim.            *)
SwapOutContinues ==
  /\ proc = "up" /\ call.pc = "swapOut"
  /\ "save" \in Faults
  /\ call' = [call EXCEPT !.pc = "evictHot", !.victim = -1]
  /\ UNCHANGED <<mSessions, mHotLru, mColdLru, mHotLimit, mColdLimitBytes,
                 mColdUsedBytes, live, cells, files, proc>>

(* The save returns 0: swapOut returns false and evictHotIfNeeded gives up *)
(* its loop.  The file is as it was, or cut off.                           *)
SwapOutFails ==
  /\ proc = "up" /\ call.pc = "swapOut"
  /\ "save" \in Faults
  /\ \/ UNCHANGED files
     \/ files' = [files EXCEPT ![call.victim] = CutOff]
  /\ call' = AfterEvictHot
  /\ UNCHANGED <<mSessions, mHotLru, mColdLru, mHotLimit, mColdLimitBytes,
                 mColdUsedBytes, live, cells, proc>>

(* How many of the oldest tokens one iteration removes.                    *)
ToRemove(n) == Smaller(Larger(1, n \div 4), n - kMinKeepTokens)

(* pruneOldestTokens does nothing when asked for no token or for all.      *)
Pruned(n, r) == IF r = 0 \/ r >= n THEN 0 ELSE r

(* pruneOldestTokens: the tokens and the cells at positions 0..r-1 go, the *)
(* others move down.                                                       *)
SwapOutPrunes ==
  /\ proc = "up" /\ call.pc = "swapOut"
  /\ ~Fits /\ Victim.tokens > kMinKeepTokens
  /\ files' = [files EXCEPT ![call.victim] = Written]
  /\ LET r == Pruned(Victim.tokens, ToRemove(Victim.tokens))
     IN  /\ mSessions' = [mSessions EXCEPT ![call.victim].tokens = @ - r]
         /\ cells' = [cells EXCEPT ![Victim.ctx] = @ - Smaller(r, @)]
  /\ UNCHANGED <<mHotLru, mColdLru, mHotLimit, mColdLimitBytes,
                 mColdUsedBytes, live, call, proc>>

SwapOutCompletes ==
  /\ proc = "up" /\ call.pc = "swapOut"
  /\ Fits \/ Victim.tokens <= kMinKeepTokens
  /\ GoesCold(Written)

-----------------------------------------------------------------------------
(* evictColdIfNeeded(excludeId): one step per session it kills.            *)

NoColdExclude == -1                            \* mutant: exclusion forgotten

ColdExclude == IF call.op = "setColdLimit" THEN -1 ELSE call.victim

(* Mutant of ColdIsOver: the header of a file is not counted.              *)
ColdIsOverSlack ==
  /\ mColdUsedBytes > mColdLimitBytes + HeaderBytes
  /\ ~(Head(mColdLru) = ColdExclude /\ Len(mColdLru) = 1)

ColdIsOver ==
  /\ mColdUsedBytes > mColdLimitBytes
  /\ mColdLru # <<>>
  /\ ~(Head(mColdLru) = ColdExclude /\ Len(mColdLru) = 1)

ColdVictim ==
  IF Head(mColdLru) = ColdExclude THEN mColdLru[2] ELSE Head(mColdLru)

EvictColdKills ==
  /\ proc = "up" /\ call.pc = "evictCold"
  /\ ColdIsOver
  /\ Kill(ColdVictim)
  /\ UNCHANGED call

(* Back to the loop of evictHotIfNeeded, or to the caller of setColdLimit. *)
EvictColdReturns ==
  /\ proc = "up" /\ call.pc = "evictCold"
  /\ ~ColdIsOver
  /\ call' = IF call.op = "setColdLimit" THEN Idle
             ELSE [call EXCEPT !.pc = "evictHot", !.victim = -1]
  /\ UNCHANGED <<mSessions, mHotLru, mColdLru, mHotLimit, mColdLimitBytes,
                 mColdUsedBytes, live, cells, files, proc>>

-----------------------------------------------------------------------------
(* activateForInfer after evictHotIfNeeded: `meta' is a reference taken    *)
(* before the eviction.                                                    *)

SwapInStep == proc = "up" /\ call.pc = "swapIn"

(* The session was among the victims of its own activation: `meta' refers  *)
(* to an erased map node.  Nothing is defined from here on.                *)
SwapInDangles ==
  /\ SwapInStep
  /\ mSessions[call.id].state = "NONE"
  /\ proc' = "undefined"
  /\ UNCHANGED smVars

(* llama_init_from_model fails: nullptr, before `meta' is looked at again. *)
SwapInNoContext ==
  /\ SwapInStep
  /\ "init" \in Faults
  /\ call' = Idle
  /\ UNCHANGED <<mSessions, mHotLru, mColdLru, mHotLimit, mColdLimitBytes,
                 mColdUsedBytes, live, cells, files, proc>>

(* What both successful endings of activateForInfer do.                    *)
BecomesHot(id, c, tokens, n) ==
  /\ c \notin live
  /\ live' = live \cup {c}
  /\ cells' = [cells EXCEPT ![c] = n]
  /\ mSessions' = [mSessions EXCEPT
       ![id] = [@ EXCEPT !.state = "HOT", !.ctx = c, !.tokens = tokens,
                         !.swapFileBytes = 0]]
  /\ mHotLru' = Append(mHotLru, id)
  /\ call' = Idle
  /\ UNCHANGED <<mHotLimit, mColdLimitBytes, proc>>

(* Never swapped out: an empty context.                                    *)
SwapInNew(c) ==
  /\ SwapInStep
  /\ mSessions[call.id].state = "COLD" /\ ~mSessions[call.id].swapFilePath
  /\ BecomesHot(call.id, c, mSessions[call.id].tokens, 0)
  /\ UNCHANGED <<mColdLru, mColdUsedBytes, files>>

LoadableBelow(id) == files[id].kind # "none" /\ files[id].tokens < nCtx  \* mutant

(* llama_state_seq_load_file refuses a file with more tokens than the      *)
(* buffer it is given, which holds n_ctx.                                  *)
Loadable(id) == files[id].kind # "none" /\ files[id].tokens <= nCtx

(* Mutant of SwapInLoads: the vector is not resized to what was read.      *)
SwapInKeepsCapacity(c) ==
  /\ SwapInStep
  /\ IsSwapped(call.id) /\ Loadable(call.id)
  /\ BecomesHot(call.id, c, nCtx, files[call.id].cells)
  /\ LeavesCold(call.id)

(* The swap file goes, swapFilePath stays set.                             *)
SwapInLoads(c) ==
  /\ SwapInStep
  /\ IsSwapped(call.id) /\ Loadable(call.id)
  /\ BecomesHot(call.id, c, files[call.id].tokens, files[call.id].cells)
  /\ LeavesCold(call.id)

(* Mutant of SwapInLoadFails: the new context is not freed.                *)
SwapInLeaks ==
  /\ SwapInStep
  /\ IsSwapped(call.id)
  /\ "load" \in Faults \/ ~Loadable(call.id)
  /\ mSessions' = [mSessions EXCEPT ![call.id].tokens = nCtx]
  /\ \E c \in Contexts \ live : live' = live \cup {c}
  /\ call' = Idle
  /\ UNCHANGED <<mHotLru, mColdLru, mHotLimit, mColdLimitBytes,
                 mColdUsedBytes, cells, files, proc>>

(* The new context is freed, the token vector stays resized to n_ctx.      *)
SwapInLoadFails ==
  /\ SwapInStep
  /\ IsSwapped(call.id)
  /\ "load" \in Faults \/ ~Loadable(call.id)
  /\ mSessions' = [mSessions EXCEPT ![call.id].tokens = nCtx]
  /\ call' = Idle
  /\ UNCHANGED <<mHotLru, mColdLru, mHotLimit, mColdLimitBytes,
                 mColdUsedBytes, live, cells, files, proc>>

-----------------------------------------------------------------------------
(* The surroundings.                                                       *)

(* llama_decode (external) adds n cells to a context while there is room;  *)
(* one that fails leaves the cells as they were (llama.h:817-820).         *)
llama_decode(c, n) ==
  /\ cells[c] + n <= nCtx
  /\ cells' = [cells EXCEPT ![c] = @ + n]

(* What LLMEngine::infer does between two calls of the manager, and the    *)
(* recordTokens call that ends it: n tokens are recorded after d cells     *)
(* were added.  The generated token whose llama_decode fails is recorded   *)
(* all the same; without a fault that happens when the KV cache is full.   *)
(* A prefill that fails ends the inference before anything is recorded.    *)
DecodeAndRecord(id, n, d) ==
  /\ IsHot(id)
  /\ \/ d = n
     \/ d = n - 1 /\ ("decode" \in Faults \/ cells[mSessions[id].ctx] + d = nCtx)
  /\ llama_decode(mSessions[id].ctx, d)
  /\ RecordTokens(id, n)

(* The end of a process: its memory goes, the swap directory stays as it   *)
(* is.  No later process reads the directory at its start, so every file   *)
(* in it is from now on a left-over.                                       *)
ProcessEnds ==
  /\ proc' = "down"
  /\ mSessions' = [id \in SessionIds |-> NewMeta("NONE")]
  /\ mHotLru' = <<>>
  /\ mColdLru' = <<>>
  /\ mHotLimit' = kDefaultHotLimit
  /\ mColdLimitBytes' = kDefaultColdLimitBytes
  /\ mColdUsedBytes' = 0
  /\ cells' = [c \in Contexts |-> 0]
  /\ files' = [id \in SessionIds |-> LeftOver(files[id])]
  /\ call' = Idle

(* ~SessionManager frees the contexts of the HOT sessions, nothing else.   *)
Destructor ==
  /\ Ready
  /\ live' = live \ {mSessions[id].ctx : id \in {s \in SessionIds : IsHot(s)}}
  /\ ProcessEnds

(* The process is killed at any point; the kernel takes its memory back.   *)
Crash ==
  /\ proc \in {"up", "undefined"}
  /\ live' = {}
  /\ ProcessEnds

(* init starts the service again; load() constructs the manager.           *)
Restart ==
  /\ proc = "down"
  /\ proc' = "up"
  /\ UNCHANGED smVars

-----------------------------------------------------------------------------
(* The steps of a method in progress, and the whole specification.         *)

CallStep ==
  \/ EvictHotPicks \/ EvictHotReturns
  \/ SwapOutFails \/ SwapOutPrunes \/ SwapOutCompletes
  \/ EvictColdKills \/ EvictColdReturns
  \/ SwapInDangles \/ SwapInNoContext \/ SwapInLoadFails
  \/ \E c \in Contexts : SwapInNew(c) \/ SwapInLoads(c)

Request ==
  \/ \E id \in SessionIds :
       \/ CreateSession(id) \/ KillSession(id)
       \/ ActivateHot(id) \/ ActivateCold(id)
       \/ \E n \in 0 .. MaxTokens, d \in 0 .. nCtx : DecodeAndRecord(id, n, d)
  \/ \E count \in HotLimits : SetHotLimit(count)
  \/ \E bytes \in ColdLimits : SetColdLimit(bytes)

Lifecycle == Destructor \/ Crash \/ Restart

Next == CallStep \/ Request \/ Lifecycle

(* The thread inside a method keeps running.                               *)
Spec == Init /\ [][Next]_vars /\ WF_vars(CallStep)

-----------------------------------------------------------------------------
(* Properties.                                                             *)

Elems(list)    == {list[i] : i \in DOMAIN list}
NoRepeat(list) == \A i, j \in DOMAIN list : list[i] = list[j] => i = j

(* Every variable has its type: the one type invariant of the module.      *)
TypeOK ==
  /\ mSessions \in [SessionIds -> SessionMeta]
  /\ mHotLru \in Seq(SessionIds)
  /\ mColdLru \in Seq(SessionIds)
  /\ mHotLimit \in Nat \ {0}
  /\ mColdLimitBytes \in Nat
  /\ mColdUsedBytes \in Int
  /\ live \in SUBSET Contexts
  /\ cells \in [Contexts -> Nat]
  /\ files \in [SessionIds -> File]
  /\ call \in Frame
  /\ proc \in {"up", "undefined", "down"}

(* The LRU lists mirror the session map: mHotLru holds every HOT session   *)
(* once, mColdLru every swapped-out one once, and nothing else.  Every     *)
(* erase(meta.lruIt) in the code (session_manager.cpp:66, 69, 115, 141,    *)
(* 203) and mSessions.at(victim) at :160 depend on it: the iterator must   *)
(* point into the list that is erased from.                                *)
LruMirrorsSessions ==
  /\ NoRepeat(mHotLru) /\ NoRepeat(mColdLru)
  /\ Elems(mHotLru) = {id \in SessionIds : IsHot(id)}
  /\ Elems(mColdLru) = {id \in SessionIds : IsSwapped(id)}

(* No llama_context leaks, is freed twice or is shared: while the process  *)
(* is up the allocated contexts are those of the HOT sessions, one each,   *)
(* on every success and failure path; the destructor leaves none.          *)
ContextsOwned ==
  /\ \A id \in SessionIds : IsHot(id) <=> mSessions[id].ctx # NoCtx
  /\ \A a, b \in SessionIds :
       IsHot(a) /\ mSessions[a].ctx = mSessions[b].ctx => a = b
  /\ proc # "down" =>
       live = {mSessions[id].ctx : id \in {s \in SessionIds : IsHot(s)}}
  /\ proc = "down" => live = {}

(* A swapped-out session can trust its file: it is on disk, whole, written *)
(* by this session and not by an earlier one of the same id or an earlier  *)
(* process, and the session is charged for the cells that are in it.       *)
SwapFilesIntact ==
  \A id \in SessionIds : IsSwapped(id) =>
    /\ files[id].kind = "valid"
    /\ mSessions[id].swapFileBytes = StateSize(files[id].cells)

(* The sizes charged to the sessions of a list, and their sum.             *)
Charges(list, sessions) == [i \in DOMAIN list |-> sessions[list[i]].swapFileBytes]

Total(bytes) ==
  LET sum[i \in 0 .. Len(bytes)] == IF i = 0 THEN 0 ELSE sum[i - 1] + bytes[i]
  IN  sum[Len(bytes)]

SwappedBytes == Total(Charges(mColdLru, mSessions))

(* mColdUsedBytes is the sum of the sizes charged to the swapped-out       *)
(* sessions, so the unsigned subtractions at session_manager.cpp:70 and    *)
(* :116 never wrap.                                                        *)
ColdAccounting == mColdUsedBytes = SwappedBytes

(* Outside evictColdIfNeeded the cold limit holds, except that one session *)
(* may exceed it alone (the best effort of session_manager.cpp:195).       *)
ColdLimitHolds ==
  call.pc # "evictCold" =>
    mColdUsedBytes <= mColdLimitBytes \/ Len(mColdLru) <= 1

(* Between two calls at most mHotLimit sessions are HOT.  It needs a disk  *)
(* that accepts every save, and no session with the id -1.                 *)
HotLimitHolds == call.pc = "idle" => Len(mHotLru) <= mHotLimit

(* With a disk that accepts every save, each file written by this process  *)
(* belongs to a swapped-out session or to the one being swapped out: no    *)
(* file is left behind where mColdUsedBytes does not count it.             *)
NoForgottenFile ==
  \A id \in SessionIds : files[id].kind = "valid" =>
    IsSwapped(id) \/ (call.pc = "swapOut" /\ call.victim = id)

(* Pruning stops at kMinKeepTokens, however many rounds it takes and       *)
(* wherever the quarter of a round would have led (the std::min of         *)
(* session_manager.cpp:199).                                               *)
PruningKeepsMinimum ==
  [][\A id \in SessionIds :
       IsHot(id) /\ IsHot(id)' /\ mSessions'[id].tokens < mSessions[id].tokens
         => mSessions'[id].tokens >= kMinKeepTokens]_vars

(* Only `spared' was swapped out before id, of those that still are.       *)
OldestBut(id, spared) ==
  \A i, j \in DOMAIN mColdLru : mColdLru[i] = id /\ j < i => mColdLru[j] = spared

(* A session that disappears without a killSession request was swapped     *)
(* out, while the cold store was over its limit, is not the session that   *)
(* is being swapped out, and was the oldest of the others: no session but  *)
(* that one stands before it in mColdLru (session_manager.cpp:218-230).    *)
EvictionSparesNewest ==
  [][\A id \in SessionIds :
       (/\ proc' # "down" /\ call.pc # "idle"
        /\ mSessions[id].state # "NONE" /\ mSessions'[id].state = "NONE")
          => /\ IsSwapped(id) /\ mColdUsedBytes > mColdLimitBytes
             /\ id # call.victim /\ OldestBut(id, call.victim)]_vars

(* activateForInfer on a swapped-out session fails, when the llama calls   *)
(* all work, only for a file that holds more tokens than n_ctx.            *)
SwapInFailsOnlyOverfull ==
  [][SwapInStep /\ proc' = "up" /\ mSessions'[call.id].state # "HOT"
       => files[call.id].tokens > nCtx]_vars

(* The conversations, wherever they are kept: what a swapped-out session   *)
(* has is in its file, whose name it goes by until it is HOT again.        *)
Conversations ==
  [id \in SessionIds |->
     CASE mSessions[id].state = "NONE" -> -1
       [] IsSwapped(id)                -> files[id].tokens
       [] OTHER                        -> mSessions[id].tokens]

Store == INSTANCE SessionStore WITH
  conv <- Conversations, busy <- call.pc # "idle"

(* Swapping is invisible: through every eviction, save, load and failure   *)
(* of one the manager is a store of conversations: a call may prune or     *)
(* drop one, but a swap-in gives back all that the swap-out has saved and  *)
(* no more (session_manager.cpp:100-127, 181-216).                         *)
ImplementsStore == Store!StoreSpec

(* Every call returns: none of the three loops runs for ever.              *)
CallReturns == call.pc # "idle" ~> call.pc = "idle" \/ proc # "up"

(* activateForInfer never uses a session that its own evictions killed: an *)
(* evicted session is to be reported as ERROR_SESSION_NOT_FOUND            *)
(* (IMiniVAiStreamCallback.aidl:10).                                       *)
ActivationSurvivesEviction == proc # "undefined"

=============================================================================
