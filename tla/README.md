# Verification of ai_daemon (android_vendor_mini-v_ai)

TLA+ models of the daemon that runs language models on the vendor side of an
Android device, TLC configurations that check them on small instances, and
TLAPS proofs, for all instances, of nearly every safety property the runs check. Every
definition is translated from the source; `PROJECT.json` names the lines.

## 1. The system

| Component | Where | State it keeps | Operations |
|---|---|---|---|
| Session manager | `daemon/src/session_manager.cpp` | the map of sessions, two LRU lists, the HOT limit, the cold limit and the bytes used, one `llama_context` per HOT session, one swap file per swapped-out session | create, kill, set limits, activate for an inference, record tokens |
| CPU engine | `daemon/src/llm_engine.cpp` | the model, one sampler chain, the session manager | load, infer |
| HAL service | `daemon/src/hal_service.cpp` | `gCancelFlags`: session id -> cancel flag | isReady, createSession, destroySession, inferStream, cancel, getModelInfo |
| UDS server | `daemon/main.cpp`, `HandleClient` | the open connection | CREATE_SESSION, KILL_SESSION, SET_HOT_LIMIT, SET_COLD_LIMIT, INFER, NPU_LOAD, NPU_INFER, HELLO |
| Lifecycle | `daemon/main.cpp`, `main` | `g_running`, the static engines | start, accept loop, SIGTERM, destruction |
| NPU engine | `daemon/src/npu_llm_engine.cpp` | one model, one context, one sampler | load, infer |
| Base64 | `daemon/include/base64_util.h` | none | encode, decode |
| Clients | `cli/main.cpp`, `tools/hal_test_cli/main.cpp` | whether the last callback has come | one command each |

How they interact. The UDS server runs one connection at a time on the main
thread and calls the engine and the manager directly. The HAL is served by up
to four binder threads; `inferStream` detaches one more thread per request,
which calls `LLMEngine::infer` and sends one-way callbacks. The engine calls
the manager at three points of an inference (activate, record the prompt,
record what was generated) and works on the context it was handed in between.
The manager writes and removes swap files and frees contexts. There is one
mutex, around `gCancelFlags`; the manager, the engine and the sampler have
none.

What is hard here:

* nested loops that change the structure they run over: making room for one
  session swaps out another, which may prune it, which may kill further ones;
* references, pointers and list iterators kept over such calls;
* failures half way (save, load, context allocation, decode), and a process
  that ends with files on disk;
* threads nobody serialises, and cancellation racing the end of a request;
* two ends of a connection that each may go away at any chunk, and one-way
  callbacks nobody acknowledges;
* boundaries: limits, a full KV cache, the id -1, a 32-bit accumulator.

The list of hazards in `PROJECT.json` gives each of them its line and the
properties that are about it.

## 2. Modules

| Module | Models | Uses |
|---|---|---|
| `SessionManager` | the session manager, with decode, crash and restart as its surroundings | instantiates `SessionStore` |
| `SessionStore` | what the manager promises its callers: a conversation per id | |
| `SessionManagerProofs` | the manager: bookkeeping, limits, files | extends `SessionManager` |
| `SessionStoreProofs` | the manager implements the store; its bytes add up; a store with room for all | extends `SessionManagerProofs` |
| `LLMEngine` | `infer`, one task per thread, on the manager | extends `SessionManager`, and instantiates it as its abstract specification |
| `LLMEngineProofs` | the engine: the manager's promises under it, its refinement | extends `LLMEngine` and `SessionStoreProofs` |
| `Llama` | the contract of `llama.h` for the KV cache and saved sequences, as operators | |
| `KvCache` | one session by cells, positions and tokens | extends `Llama` |
| `KvCacheProofs` | proofs about it | extends `KvCache` |
| `HalService` | `inferStream`, its detached thread, `cancel` | |
| `HalClient` | the HAL service with the test client and one-way callbacks in between | extends `HalService` |
| `HalProofs` | proofs about the service, and about the two together | extends `HalClient` |
| `NpuLLMEngine` | load and infer of the NPU engine | extends `Llama` |
| `UdsServer` | `HandleClient` with the command line clients and the NPU engine | extends `NpuLLMEngine` |
| `UdsServerProofs` | proofs about the connection and the NPU engine | extends `UdsServer` |
| `Daemon` | `main`: start, accept loop, signals, destruction | |
| `DaemonProofs` | proofs about it | extends `Daemon` |
| `Base64` | `base64_util.h` | |
| `Base64Proofs` | both directions, for tokens of any length | extends `Base64` |
| `MC...` | the instances for TLC | |

### SessionManager

`mSessions`, `mHotLru`, `mColdLru`, `mHotLimit`, `mColdLimitBytes` and
`mColdUsedBytes` are the fields of the class. `live` and `cells` are the
allocated contexts and the KV cells of each, `files` is the swap directory,
`proc` says whether the process is up. Short methods are one action.
`setHotLimit`, `setColdLimit` and `activateForInfer` run loops; `call` is their
stack frame, and each loop iteration is one action:

| Code | Actions |
|---|---|
| `evictHotIfNeeded` 147-163 | `EvictHotPicks`, `EvictHotReturns` |
| `swapOut`, `pruneOldestTokens` 165-216 | `SwapOutPrunes`, `SwapOutCompletes`, `SwapOutFails` |
| `evictColdIfNeeded` 218-230 | `EvictColdKills`, `EvictColdReturns` |
| `activateForInfer` 77-127 | `ActivateHot`, `ActivateCold`, then `SwapInNew`, `SwapInLoads`, `SwapInLoadFails`, `SwapInNoContext`, `SwapInDangles` |

A sequence of tokens is its length, and a KV cache is its number of cells: the
properties tell no two tokens apart. What a saved sequence is charged with
(`llama_state_seq_get_size`) is affine in its cells; the file on disk is a
little longer, which the code does not count and no property is about. A swap file is absent, valid (written by the session that now has
the id) or stale (from an earlier session or process, or cut off).
`lastUsedMs` is never read and is left out. Using an erased session sets
`proc` to "undefined", after which only the end of the process follows.
llama.cpp is external: a failed `llama_decode` leaves the cache as it was
(`llama.h:817-820`), and `llama_state_seq_load_file` refuses a file with more
tokens than its buffer holds.

The constant `Faults` says which llama calls may fail besides failing for
want of room.

`ImplementsStore` is a refinement: with everything hidden but the number of
tokens of each session and whether a looping method runs, every step is one
of `SessionStore`: a conversation is created and grows only between such
calls, and in one it may be shortened, down to `kMinKeepTokens` at the least,
or dropped. A swap-in in particular neither changes nor loses it.

### KvCache

The counts above are justified here. A token is the number of its turn in the
session, a cell is a position and a token. The record `meta.tokens` is cut by
index, the cache by position (`llama_memory_seq_rm`, `llama_memory_seq_add`),
and a failed decode leaves a token of the record without a cell, so the two
may differ; `CacheFollowsRecord` says how far. The removal is taken to
succeed: `llama.h:613` lets it refuse a part of a sequence, and the code would
not notice, but that is for models whose state is not a cache of positions. Whether a saved file fits the
cold store depends on the other sessions and is left open.

### LLMEngine

Each thread has a task with a program counter: `Infer`, `Activate`,
`InManager` (the looping part of the activation), `Prefill`, `RecordPrompt`,
`LoopGenerates`, `LoopEnds`, `RecordGenerated`. `Manage` is every other
request. The code has no lock. Where two threads can be in the manager, in the
sampler or in one context at once, `Race` leads to the undefined state; the
orders in which one of them goes first are behaviours as well. `UsesFreed` is
the use of a context that was freed.

`ImplementsManager` is a refinement: with the cells that are not recorded yet
hidden (`RecordedCells`), a run of the engine on one thread is a run of
`SessionManager` with its atomic `DecodeAndRecord`, including the fairness. So
what is checked and proved about the manager is true of it under the engine.

### HalService

A flag is named by the request that made it. `req` holds where the two threads
of a request are: `Register` and `Detach` on the binder thread, `Accept` when
the call returns, then on the detached thread the decode loop with the check
of the flag (`LoopChecks`) apart from the callback (`SendToken`), `EraseFlag`
and `Answer`. `late` is a history variable: tokens sent after the flag was set.
The constant `OverlapIds` is an assumption on the framework: the sessions for
which it sends a second request before the first is answered. Nothing in the
HAL prevents it; `InFlightIsCancellable` is about the other sessions, because
the map holds one flag per session: of two overlapping requests, the first is
out of reach of `cancel` once the second is registered, and the second once
the first has ended.

### HalClient

Adds the process of `hal_test_cli infer` for the requests in `Tools`: the main
thread calls and waits, a binder thread takes the callbacks. Each callback goes
into a channel of `BinderBuffer` places or, when that is full or the client is
dead, into `lost`. The fault model is the one the code is exposed to: it
never looks at the status of a callback.

### NpuLLMEngine and UdsServer

An object of the NPU engine is the number of the load that made it. `load` is
one step with three outcomes (no model, no context, success), `infer` one step
per token. `UdsServer` is the socket: a client writes its message chunk by
chunk (`Send`), the daemon reads a chunk with each `fgets`, and every handler
of `HandleClient` is an action: `SessionCommand`, `NpuLoad`, `Hello`,
`StreamCommand` and `ReadPrompt`, then `NotReady`, `Infer` or `NpuInfer`. A
client may die between any two chunks. Numbers, paths and ids are left out of
the commands, and the answers of the session manager are left open.

The daemon ends (`up`) by a write to a closed socket, by a use of the missing
session manager, and inside `infer` (`InferDies`, `NpuInferDies`): a prompt
over `n_batch` (the chunk `long`) is an assertion in `llama_decode`, a
`maxTokens` that is negative or too large (the command `INFER_HUGE`) throws in
`reserve`, an activation that evicts its own session uses it afterwards, and a
piece longer than its buffer throws. The last two depend on the installation,
`setup`: a cold store that is too small (there is none without the CPU
engine), a vocabulary with such a piece. What
the HAL's threads can do to the process is not in this model.

### Daemon

`pc` is where `main` is. A signal kills the process before the handlers are
installed and clears `g_running` afterwards. `accept` may or may not return
after it: that depends on SA_RESTART, which bionic's `signal` sets. In
`HandleClient` (`pc` = "serve") main is in the hands of its client: a
`Command`, a `HangUp`, the end of the daemon, or nothing. `NpuLoads` are the
ways a first or repeated NPU_LOAD changes what the NPU engine owns.
`Destruction` is the order in which exit frees the objects of both engines:
static objects last made first, the body of a destructor before the members.

### Base64

Both loops as recursive functions over the bytes and characters read so far. The accumulator is kept as
two 16-bit halves, since TLC's integers end at 2^31.

## 3. Runs

| Run | Instance | Question |
|---|---|---|
| `sm_reliable` | 3 sessions, 3 contexts, default HOT limit 2, no faults | do the bookkeeping and both limits hold through evictions, pruning, kills and restarts |
| `sm_faults` | 2 sessions, every llama call may fail | what holds on every error path |
| `engine_single` | 1 thread, 2 sessions, saves may fail | cells recorded, every call and every infer returns, refinement |
| `engine_threads` | UDS thread and HAL thread | does the manager's bookkeeping survive two callers that do not overlap inside it |
| `hal` | 2 requests, 2 sessions, one test client that may die, a buffer of 1 | cancellation, streams, does the client stop waiting |
| `kv` | 1 session, 8 cells, 14 tokens in all, 7 kept | does the cache follow the record through prunings, failures and swaps, does pruning stop at the minimum |
| `base64` | every token of up to 6 bytes out of 5 values | is it base64, does decoding undo it |
| `uds` | 2 connections, 3 installations, every command, 6 questions on 3 prompts | prompts, answers, NPU loads and questions, what takes the daemon down, are clients served |
| `daemon` | a backlog of 2 | how a stop takes effect |

Runs that are expected to find a violation, each the witness of a finding:

| Run | What it shows |
|---|---|
| `sm_self_eviction` | activating a swapped-out session swaps another one out, whose file pushes the first out of the cold store; `meta` at `session_manager.cpp:100` dangles |
| `engine_held_context` | with the manager's methods made mutually exclusive, a kill on another thread still frees the context of a running inference |
| `daemon_destruction` | at exit the model is freed before the contexts made from it, contrary to the comment in `~LLMEngine` |

What else was found while modelling is kept as a condition of a property: a
session with the id -1 switches HOT eviction off (`HotLimitHolds`);
`PromptIsWhole` and `DownHasReason` name the cases in which a prompt is cut and
in which a client takes the daemon down; a stop waits for the next client, and
for the one being served to hang up (`StopTakesEffect`). Both callers of
`infer` report every refusal as SESSION_NOT_FOUND (`main.cpp:120`,
`hal_service.cpp:91`), also for a session that exists and whose prompt or file
does not fit, while `IMiniVAiStreamCallback.aidl:10-12` keeps that code for
sessions that are gone; the theorem `RefusalsHaveReasons` lists the reasons. The HOT
limit can be exceeded after a failed save (`session_manager.cpp:160`), and a
session that filled its KV cache has one token more than `n_ctx` and is refused
at every later swap-in (`SwapInFailsOnlyOverfull` says nothing else is).

**Bounds.** In the runs of the manager and the engine `nCtx` 2 or 3, `kMinKeepTokens` 1 or 2, and sizes of 1 byte per
cell plus a header are the least values with room for: a full cache, a file
above and below the limit, pruning that makes a file fit and pruning that
stops at the minimum, and a store where one, two or no files fit. Three
sessions with a HOT limit of 2 give an LRU order that matters. `MaxTokens`
stops recording; it is one or more above `nCtx`, so overfull sessions occur.
Addresses of contexts are symmetric; runs with a liveness property use no
symmetry. In `hal` a buffer of one place and two tokens lose tokens and last
callbacks alike. In `kv` a round of pruning removes a quarter but no more than
is above the minimum (`session_manager.cpp:198-199`); the second bound binds
only from eight tokens on, hence eight cells with seven to keep, and fourteen
tokens fill them, are pruned and fill them again. In `uds` one prompt contains
a line that looks like a command, one is longer than a batch, and one has a
line END with NPU_LOAD and NPU_INFER after it, which makes one connection a
sequence of commands: two connections are then enough for a load, one that
fails, and two questions. Six bytes shift 48 bits through the accumulator of
`base64`.

**Fairness.** A thread inside a method or inside `infer`, and both threads of a
request, keep running (weak fairness on the steps of each). Nothing is assumed
of HAL clients: no request, cancel or restart has to happen. In `uds` a client
that has connected goes on sending and reading or dies, as `ai_daemon_cli`
does; one that stays connected and silent would block all others. In `daemon`
only the steps main takes by itself are fair: nothing makes a client send a
line or hang up, since `fgets` (`main.cpp:59`) has no timeout. That clients
keep coming and that none stays for ever is the premise of `StopTakesEffect`. No loop in the code
waits for another thread except for the short sections under
`gCancelMapMutex`, so weak fairness of an ordinary scheduler is enough.

**Deadlock** is checked everywhere; where the system may come to rest there is
an explicit step (`AllQuiet`, `Quiet`, `Stopped`).

## 4. Proofs

Each theorem is about the specification a run checks, for every value of the
constants; its hypotheses are the named assumption of the module and the
conditions given here.

**SessionManagerProofs.** From `ConstantsAssumption`, with every combination
of faults unless it says otherwise:

* `TypeCorrect`, `LruListsMirrorSessions`, `ContextsAreOwned` come from one
  inductive invariant, `IInv`: types, the lists mirror the map, the contexts
  are owned, and `FrameOK`, which says of the frame of a method in progress
  that a victim being swapped out is HOT and that the session being activated
  is not. It is needed because a swap-out changes a victim that was chosen
  in an earlier step. The lists carry the argument: erasing a member of a list
  without repetition removes just that member (`EraseRemoves`).
* `ColdLimitIsKept`, `SwapFilesAreIntact` are inductive relative to `IInv`;
  `EvictionIsSparing` and `PruningIsBounded` are action properties that follow
  from it step by step.
* `HotLimitIsKept` assumes that -1 is no session id and that no save fails,
  the two conditions that the code at :156 and :160 makes necessary; its
  invariant says that the list has shrunk below the limit when the eviction
  returns to an activation.

**SessionStoreProofs.** On top of `IInv`:

* `ManagerImplementsStore`: the refinement `ImplementsStore`, whatever fails.
  One lemma per kind of step says what it does to the conversations: a create,
  a record, a prune and a kill are the store's steps of that name, a swap-out,
  a swap-in and all failures leave every conversation as it was, and the end of
  the process forgets them.
* `NoFileIsForgotten` assumes that no save fails: one that fails after a pruning
  leaves the file of the save before it, with the session still HOT.
* `OnlyOverfullIsRefused` assumes that llama's context creation and load do
  not fail by themselves.
* `ColdBytesAddUp`: the bytes used are the sum over the cold list. The sum is a
  recursion over the list; it is tied to a function of partial sums
  (`IsSum`), which is unique because two such functions would differ first at
  some place (a least element, so no induction scheme is needed). What the
  manager does to the list is then one sum with an element more
  (`TotalOfMore`) or less (`TotalOfLess`).
* `AmpleStoreForgetsNothing` assumes `Ample`: finitely many sessions, and cold
  limits that hold all of them with a full context each. Then no session is
  evicted and the state is never undefined, so the flaw of `sm_self_eviction`
  needs a store that can overflow. A sum is at most its length times its
  largest summand (`TotalIsBounded`), a list without repetition is no longer
  than the set it is of, and no file has more than `nCtx` cells (`CellsFit`).

**LLMEngineProofs.** From the manager's assumption and `EngineAssumption`:

* With any number of threads: `EngineTypeCorrect`, `EngineKeepsLists`,
  `EngineOwnsContexts`, `ColdStoreUnderEngine`, `ColdBytesUnderEngine`,
  `EvictionSparesUnderEngine`, `PruningIsBoundedUnderEngine` and, on the
  conditions they have for the manager, `NoFileIsForgottenByEngine` and
  `HotLimitUnderEngine`. The invariant `EInv` is that of the manager with two
  more parts: `HolderOK`, which thread the frame in `call` belongs to, and
  `TaskOK`, what a task at each program counter has. Every engine step is a
  step of the manager, one that only decodes, or one that only records
  (`EngineStepKinds`), so the manager's lemmas are reused.
* `EngineImplementsStore`, the refinement `ImplementsStore` with any number of
  threads: what a late `recordTokens` adds to a session that another thread has
  swapped out is not in its file, and the swap-in replaces the tokens by those
  of the file, so the conversation stays as it was saved (`RecordIsExtend`).
* `SwapInFailsOnlyOverfull` does not carry over to several threads, as a step of
  another thread may come while a swap-in is under way. `RefusalsHaveReasons`
  says what is left of it: if context creation, load and decode fail only for
  want of room, infer refuses only a session that is gone, a prompt that does
  not fit, or a file that is too long. It bounds what is reported as
  SESSION_NOT_FOUND against the AIDL; it does not say that the report is right.
* With one thread (`OneThread`): `CellsAreRecorded` and
  `EngineImplementsManager`, the refinement without its fairness: the cells not
  recorded yet are hidden, so decoding is a stutter until the record is
  written, which is the manager's `DecodeAndRecord`. Its invariant `RefInv`
  says that no cache exceeds `nCtx` and what is pending at each program
  counter. The hypothesis is needed: `engine_held_context` shows
  `ContextHeld` violated with a second thread.

**KvCacheProofs.** From `KvAssumption`: `CacheAlwaysFollowsRecord`,
`FileIsAlwaysCurrent`, `PruningAlwaysFreesCells`,
`PruningAlwaysKeepsMinimum`. The invariant `KvInv` says
that the cells are the positions 0 to n-1 with a function to tokens of the
record in its order (`Mirrors`). The property alone is not inductive: pruning
cuts the record by index and the cache by position and then shifts, and only
with positions free of holes do the two cuts stay together.

**HalProofs.** For every number of requests and sessions, from
`HalAssumption`:

* `HalTypeCorrect`, `FlagMapStaysCurrent`, `CancelTakesEffect` and
  `ErrorsComeAlone` come from `HalInv`, which ties tokens sent, iterations left
  and late tokens to the position of the thread: a thread past its check of the
  flag has sent no late token, so the one it is about to send is the only one.
* `SequentialRequestsAreCancellable` is about every session outside
  `OverlapIds`: such a session has at most one request that is not answered.
* From `ClientAssumption` as well: `ServiceIsItself` (every step of the system
  with clients is one of the service or leaves it alone), so
  `PromisesHoldWithClients`; and `StreamsArrive`, whose invariant `StreamOK`
  adds up what was printed, what is under way and what was lost to what was
  sent.

**UdsServerProofs.** From `NpuAssumption` and `UdsAssumption`:

* `OneLoadAtATime` and `OnlyThisQuestionIsSeen`: `NpuOK` says that
  whenever there are a model and a context, they and the sampler are of one
  load, and that a running answer has both; `QuestionOK` that the cells are a run of positions with this question's
  tokens.
* `PromptsAreWhole`, `AnswersAreSingle` and `DownOnlyForAReason` come from
  `UdsInv`. Its part `Phase` ties where `HandleClient` is to what is left of
  the client's message, sent or not (`Left`), and to what was written to it;
  the properties only see the end of that, and are not inductive. Of a death
  inside `infer` it remembers that the engine runs what the client asked, and
  which engine that is, so the reason is in the client's own command.

**DaemonProofs.** From `DaemonAssumption`: `StopIsSeen`, whose invariant says
where main can be once a client was accepted after the signal.

**Base64Proofs.** `EncoderIsBase64` and `DecoderUndoesEncoder`, for every
sequence of bytes, and from them `TokensAreBase64` and `TokensArriveWhole`. The
run checks tokens of up to six bytes, with which the wrapping of the
accumulator has just begun. After every byte the state of the encoder is `Encoded`: the
output is that of the reference, the count of pending bits follows from the
position, and the pending bits are the low bits of the last byte. What else is
in the accumulator, wrapped or not, is shifted out before it is read. `Decoded`
says the same of the decoder. In place of induction, a set of positions that
holds 0 and, with each, the next holds all (`AllSteps`, by a least
counterexample).

Only model-checked: the liveness properties (`CallReturns`, `InferReturns`,
`ClientFinishes`, `ClientIsServed`, `StopTakesEffect`) and the fairness in
`ImplementsManager`, which need reasoning about fairness and ENABLED that the
prover does not do.

## 5. Not modelled

* Contents of prompts and tokens, sampling, logging and request ids;
  `MiniVEvalCallback`, which only logs a tensor.
* SELinux and the service definition.
* llama.cpp and ggml. Some 4800 of the 6350 lines of C and C++ in the
  repository are their headers; most of it is an interface the daemon never
  calls. `Llama` states the part that its correctness rests on. Of the
  repository's own C and C++ (some 1500 lines), about 1140 lines are modelled;
  of all lines with the headers that is about a fifth, and it cannot be much
  more without describing an interface nobody uses.
* The end of the process by an inference of the HAL, which has the same causes
  as one of the socket (`UdsServer`).
* A `llama_memory_seq_rm` that refuses (see KvCache).
* `isReady` and `getModelInfo` of the HAL, and the commands of the test client
  that are one call without state.
* Threads that still run when `main` has returned: nothing in the code bounds
  what they do.

## 6. Plan

1. `SessionManager`, its runs and proofs: done.
2. `LLMEngine` on the manager, with refinement: done.
3. `HalService`, its runs and proofs: done.
4. `SessionStore` and the refinement: done.
5. UDS protocol and command line client: done.
6. `NpuLLMEngine`: done.
7. Lifecycle: done.
8. Base64: done.
9. One session by cells (`KvCache`), callbacks with bounded delivery
   (`HalClient`): done.
10. Proofs of the safety properties of every module, of both refinements, and
    of the manager's promises under the engine with any number of threads: done.
