-------------------------- MODULE LLMEngineProofs --------------------------
(***************************************************************************)
(* Proofs about LLMEngine: what the session manager guarantees under its   *)
(* inferences, for any number of threads, and what an inference may rely   *)
(* on when there is one thread.                                            *)
(***************************************************************************)
EXTENDS LLMEngine, SessionStoreProofs

-----------------------------------------------------------------------------
(* The inductive invariant, for any number of threads.                     *)

(* The frame of the method in progress is that of the thread in `holder':  *)
(* it activates the session its task is about, or sets a limit.  A process *)
(* that is down has none.                                                  *)
HolderOK ==
  /\ call.pc = "idle" <=> call.op = "none"
  /\ call.op = "none" => call = Idle
  /\ holder = NoThread <=> call.pc = "idle"
  /\ proc = "down" => call.pc = "idle"
  /\ \A t \in Threads : holder = t =>
       IF call.op = "activateForInfer"
       THEN task[t].pc = "activate" /\ task[t].id = call.id
       ELSE task[t].pc = "limit"

(* A task that runs has a session id and no result yet, and has pushed at  *)
(* least as many tokens as it has added cells.                             *)
TaskOK(k) ==
  /\ k.pc \notin {"idle", "limit"} => k.id \in SessionIds
  /\ k.pc # "idle" => k.ret = "none"
  /\ k.pc \in {"enter", "activate", "prefill"} => k.added = 0
  /\ k.added <= k.n
  /\ k.pc \in {"prefill", "recordPrompt", "loop", "recordGenerated"} => k.ctx \in Contexts

EInv ==
  /\ IInv /\ SwapFilesIntact
  /\ task \in [Threads -> Task]
  /\ holder \in Threads \cup {NoThread}
  /\ HolderOK
  /\ \A t \in Threads : TaskOK(task[t])

LEMMA EngineInitEstablishes == EngineInit => EInv
<1> SUFFICES ASSUME EngineInit PROVE EInv
  OBVIOUS
<1>1. IInv /\ SwapFilesIntact
  BY InitEstablishes DEF EngineInit, Init, SwapFilesIntact, IsSwapped, NewMeta
<1>2. IdleTask \in Task /\ TaskOK(IdleTask)
  BY DEF IdleTask, Task, TaskOK
<1>3. HolderOK
  BY EngineAssumption DEF EngineInit, Init, HolderOK, Idle
<1> QED BY <1>1, <1>2, <1>3 DEF EngineInit, EInv

-----------------------------------------------------------------------------
(* What a step of the engine is to the manager.                            *)

(* Decoding adds cells; a race or the use of a freed context ends in the   *)
(* undefined state; nothing else of the manager changes.                   *)
Computes ==
  /\ UNCHANGED <<mSessions, mHotLru, mColdLru, mHotLimit, mColdLimitBytes,
                 mColdUsedBytes, live, files, call>>
  /\ cells' \in [Contexts -> Nat]
  /\ proc = "up" /\ proc' \in {"up", "undefined"}

Records == \E id \in SessionIds, n \in Nat : RecordTokens(id, n) /\ UNCHANGED cells

LEMMA EngineStepKinds ==
  ASSUME EInv, [EngineNext]_engineVars
  PROVE  [Next]_vars \/ Computes \/ Records
<1>0. /\ cells \in [Contexts -> Nat]
      /\ task \in [Threads -> Task]
  BY DEF EInv, IInv, TypeOK
<1>1. ASSUME NEW t \in Threads, Manage(t)
      PROVE  [Next]_vars
  BY <1>1 DEF Manage, ManageSession, SetLimit, Next, Request
<1>2. ASSUME NEW t \in Threads, Activate(t)
      PROVE  [Next]_vars
  <2>1. task[t].id \in SessionIds
    BY <1>2 DEF Activate, EInv, TaskOK
  <2>2. \/ UNCHANGED vars
        \/ ActivateHot(task[t].id) \/ ActivateCold(task[t].id)
    BY <1>2 DEF Activate
  <2> QED BY <2>1, <2>2 DEF Next, Request
<1>3. ASSUME NEW t \in Threads, InManager(t)
      PROVE  [Next]_vars
  BY <1>3 DEF InManager, Next
<1>4. ASSUME NEW t \in Threads, UsesFreed(t) \/ Race(t)
      PROVE  Computes
  BY <1>0, <1>4 DEF UsesFreed, Race, smVars, Computes
<1>5. ASSUME NEW t \in Threads, Prefill(t)
      PROVE  Computes
  <2>1. task[t].n \in Nat
    BY <1>0 DEF Task
  <2>2. cells' \in [Contexts -> Nat]
    BY <1>0, <1>5, <2>1 DEF Prefill, llama_decode
  <2> QED BY <1>5, <2>2 DEF Prefill, Computes
<1>6. ASSUME NEW t \in Threads, LoopGenerates(t)
      PROVE  Computes
  <2>2. cells' \in [Contexts -> Nat]
    BY <1>0, <1>6 DEF LoopGenerates, llama_decode
  <2> QED BY <1>6, <2>2 DEF LoopGenerates, Computes
<1>7. ASSUME NEW t \in Threads, RecordPrompt(t) \/ RecordGenerated(t)
      PROVE  [Next]_vars \/ Records
  <2>1. task[t].id \in SessionIds /\ task[t].n \in Nat
    BY <1>0, <1>7 DEF RecordPrompt, RecordGenerated, EInv, TaskOK, Task
  <2>2. \/ RecordTokens(task[t].id, task[t].n) /\ UNCHANGED cells
        \/ UNCHANGED vars
    BY <1>7 DEF RecordPrompt, RecordGenerated, Record
  <2> QED BY <2>1, <2>2 DEF Records
<1>8. ASSUME NEW t \in Threads, LoopEnds(t) \/
               \E id \in SessionIds, p \in PromptLens, m \in MaxNews : Infer(t, id, p, m)
      PROVE  UNCHANGED vars
  BY <1>8 DEF LoopEnds, Infer
<1>9. CASE Process
  BY <1>9 DEF Process, Next, Lifecycle
<1>10. CASE UNCHANGED engineVars
  BY <1>10 DEF engineVars
<1> QED
  BY <1>1, <1>2, <1>3, <1>4, <1>5, <1>6, <1>7, <1>8, <1>9, <1>10
  DEF EngineNext, InferStep

(* The invariants of the manager survive all of these.                     *)
LEMMA ManagerInvariantKept ==
  ASSUME EInv, [EngineNext]_engineVars
  PROVE  IInv' /\ SwapFilesIntact'
<1>1. IInv /\ SwapFilesIntact
  BY DEF EInv
<1>2. CASE [Next]_vars
  BY <1>1, <1>2, NextPreserves, SwapFilesStep
<1>3. CASE Computes
  <2>1. /\ UNCHANGED <<mSessions, mHotLru, mColdLru, mHotLimit, mColdLimitBytes,
                       mColdUsedBytes, live, files, call>>
        /\ cells' \in [Contexts -> Nat]
        /\ proc = "up" /\ proc' \in {"up", "undefined"}
    BY <1>3 DEF Computes
  <2>2. TypeOK'
    BY <1>1, <2>1 DEF IInv, TypeOK
  <2>3. LruMirrorsSessions' /\ ContextsOwned' /\ FrameOK'
    BY <1>1, <2>1 DEF IInv, LruMirrorsSessions, ContextsOwned, FrameOK, IsHot,
                      IsSwapped, NoRepeat, Elems
  <2>4. SwapFilesIntact'
    BY <1>1, <2>1 DEF SwapFilesIntact, IsSwapped
  <2> QED BY <2>2, <2>3, <2>4 DEF IInv
<1>4. CASE Records
  <2>1. PICK id \in SessionIds, n \in Nat : RecordTokens(id, n) /\ UNCHANGED cells
    BY <1>4 DEF Records
  <2>2. mSessions \in [SessionIds -> SessionMeta]
    BY <1>1 DEF IInv, TypeOK
  <2> DEFINE m == mSessions[id].tokens + n
  <2>3. mSessions' = [mSessions EXCEPT ![id].tokens = m]
    BY <2>1, <2>2 DEF RecordTokens
  <2>4. m \in Nat
    BY <2>2 DEF SessionMeta
  <2> HIDE DEF m
  <2>5. TokensOnly(mSessions, mSessions', id, m)
    BY <2>2, <2>3, <2>4, TokensChange, Zenon
  <2>6. UNCHANGED <<mColdLru, mHotLimit, mColdLimitBytes, mColdUsedBytes, live,
                    cells, files, call, proc>>
    BY <2>1 DEF RecordTokens
  <2>7. /\ mHotLru' \in Seq(SessionIds) /\ NoRepeat(mHotLru')
        /\ Elems(mHotLru') = Elems(mHotLru)
    BY <1>1, <2>1, TouchedPermutes DEF RecordTokens, IInv, TypeOK, LruMirrorsSessions
  <2>8. TypeOK'
    BY <1>1, <2>5, <2>6, <2>7 DEF IInv, TypeOK, TokensOnly
  <2>9. \A s \in SessionIds :
          /\ mSessions'[s].state = mSessions[s].state
          /\ mSessions'[s].ctx = mSessions[s].ctx
          /\ mSessions'[s].swapFilePath = mSessions[s].swapFilePath
          /\ mSessions'[s].swapFileBytes = mSessions[s].swapFileBytes
    BY <2>5 DEF TokensOnly
  <2>10. IInv'
    BY <1>1, <2>6, <2>7, <2>8, <2>9, UsePreserves
  <2>11. SwapFilesIntact'
    BY <1>1, <2>6, <2>9, FilesKept DEF IsSwapped
  <2> QED BY <2>10, <2>11
<1> QED BY <1>2, <1>3, <1>4, EngineStepKinds

-----------------------------------------------------------------------------
(* The tasks and the holder.                                               *)

(* A step inside a looping method leaves its frame to the same session and *)
(* purpose, or ends the call.                                              *)
LEMMA CallStepFrames ==
  ASSUME call \in Frame, CallStep
  PROVE  /\ call.pc # "idle" /\ proc = "up"
         /\ \/ call' = Idle
            \/ call'.pc # "idle" /\ call'.op = call.op /\ call'.id = call.id
<1> USE DEF Frame
<1>1. CASE EvictHotPicks
  BY <1>1 DEF EvictHotPicks
<1>2. CASE EvictHotReturns
  BY <1>2 DEF EvictHotReturns, AfterEvictHot
<1>3. CASE SwapOutFails
  BY <1>3 DEF SwapOutFails, AfterEvictHot
<1>4. CASE SwapOutPrunes
  BY <1>4 DEF SwapOutPrunes
<1>5. CASE SwapOutCompletes
  BY <1>5 DEF SwapOutCompletes, GoesCold
<1>6. CASE EvictColdKills
  BY <1>6 DEF EvictColdKills
<1>7. CASE EvictColdReturns
  BY <1>7 DEF EvictColdReturns
<1>8. CASE SwapInDangles
  BY <1>8 DEF SwapInDangles, SwapInStep, smVars
<1>9. CASE SwapInNoContext \/ SwapInLoadFails
  BY <1>9 DEF SwapInNoContext, SwapInLoadFails, SwapInStep
<1>10. ASSUME NEW c \in Contexts, SwapInNew(c) \/ SwapInLoads(c)
       PROVE  call.pc # "idle" /\ proc = "up" /\ call' = Idle
  BY <1>10 DEF SwapInNew, SwapInLoads, SwapInStep, BecomesHot
<1> QED BY <1>1, <1>2, <1>3, <1>4, <1>5, <1>6, <1>7, <1>8, <1>9, <1>10 DEF CallStep

(* The tasks that a step leaves behind are well-formed ones.               *)
LEMMA NewTasks ==
  ASSUME NEW id \in SessionIds \cup {-1}, NEW v \in {"none", "true", "false"}
  PROVE  /\ [IdleTask EXCEPT !.id = id, !.ret = v] \in Task
         /\ TaskOK([IdleTask EXCEPT !.id = id, !.ret = v])
         /\ [IdleTask EXCEPT !.id = id, !.ret = v].pc = "idle"
         /\ IdleTask \in Task /\ TaskOK(IdleTask) /\ IdleTask.pc = "idle"
         /\ [IdleTask EXCEPT !.pc = "limit"] \in Task
         /\ TaskOK([IdleTask EXCEPT !.pc = "limit"])
         /\ [IdleTask EXCEPT !.pc = "limit"].pc = "limit"
<1>1. /\ IdleTask \in Task /\ IdleTask.pc = "idle" /\ IdleTask.added = 0
      /\ IdleTask.n = 0 /\ IdleTask.ret = "none"
  BY DEF Task, IdleTask
<1> HIDE DEF IdleTask
<1>2. /\ [IdleTask EXCEPT !.id = id, !.ret = v] \in Task
      /\ [IdleTask EXCEPT !.pc = "limit"] \in Task
  BY <1>1 DEF Task
<1>3. TaskOK([IdleTask EXCEPT !.id = id, !.ret = v])
      /\ [IdleTask EXCEPT !.id = id, !.ret = v].pc = "idle"
  BY <1>1 DEF Task, TaskOK
<1>4. TaskOK([IdleTask EXCEPT !.pc = "limit"])
      /\ [IdleTask EXCEPT !.pc = "limit"].pc = "limit"
  BY <1>1 DEF Task, TaskOK
<1>5. TaskOK(IdleTask)
  BY <1>1 DEF TaskOK
<1> QED BY <1>1, <1>2, <1>3, <1>4, <1>5

LEMMA StartedTask ==
  ASSUME NEW id \in SessionIds, NEW p \in Nat, NEW m \in Nat,
         NEW r, r = [IdleTask EXCEPT !.pc = "enter", !.id = id, !.n = p, !.left = m]
  PROVE  r \in Task /\ TaskOK(r) /\ r.pc = "enter"
<1>1. /\ IdleTask \in Task /\ IdleTask.added = 0 /\ IdleTask.ret = "none"
  BY DEF Task, IdleTask
<1> HIDE DEF IdleTask
<1>2. r \in Task
  BY <1>1 DEF Task
<1>3. r.pc = "enter" /\ r.id = id /\ r.n = p /\ r.added = 0 /\ r.ret = "none"
  BY <1>1 DEF Task
<1> QED BY <1>2, <1>3 DEF TaskOK

LEMMA ActivatedTask ==
  ASSUME NEW k \in Task, TaskOK(k), k.pc \in {"enter", "activate"},
         NEW c \in Contexts
  PROVE  /\ [k EXCEPT !.pc = "prefill", !.ctx = c] \in Task
         /\ TaskOK([k EXCEPT !.pc = "prefill", !.ctx = c])
         /\ [k EXCEPT !.pc = "activate"] \in Task
         /\ TaskOK([k EXCEPT !.pc = "activate"])
<1>1. /\ [k EXCEPT !.pc = "prefill", !.ctx = c] \in Task
      /\ [k EXCEPT !.pc = "activate"] \in Task
  BY DEF Task
<1>2. TaskOK([k EXCEPT !.pc = "prefill", !.ctx = c])
  BY DEF Task, TaskOK
<1>3. TaskOK([k EXCEPT !.pc = "activate"])
  BY DEF Task, TaskOK
<1> QED BY <1>1, <1>2, <1>3

LEMMA RecordedTask ==
  ASSUME NEW k \in Task, TaskOK(k)
  PROVE  /\ k.pc = "prefill" =>
              /\ [k EXCEPT !.pc = "recordPrompt", !.added = k.n] \in Task
              /\ TaskOK([k EXCEPT !.pc = "recordPrompt", !.added = k.n])
         /\ k.pc = "recordPrompt" =>
              /\ [k EXCEPT !.pc = "loop", !.n = 0, !.added = 0] \in Task
              /\ TaskOK([k EXCEPT !.pc = "loop", !.n = 0, !.added = 0])
<1>1. /\ [k EXCEPT !.pc = "recordPrompt", !.added = k.n] \in Task
      /\ [k EXCEPT !.pc = "loop", !.n = 0, !.added = 0] \in Task
  BY DEF Task
<1>2. k.pc = "prefill" => TaskOK([k EXCEPT !.pc = "recordPrompt", !.added = k.n])
  BY DEF Task, TaskOK
<1>3. k.pc = "recordPrompt" => TaskOK([k EXCEPT !.pc = "loop", !.n = 0, !.added = 0])
  BY DEF Task, TaskOK
<1> QED BY <1>1, <1>2, <1>3

(* The tasks that an iteration of the decode loop leaves.                  *)
NextTokenOf(k) == [k EXCEPT !.n = @ + 1, !.added = @ + 1, !.left = @ - 1]
LastTokenOf(k) == [k EXCEPT !.n = @ + 1, !.pc = "recordGenerated"]
NoTokenOf(k)   == [k EXCEPT !.pc = "recordGenerated"]

LEMMA LoopedTask ==
  ASSUME NEW k \in Task, TaskOK(k), k.pc = "loop"
  PROVE  /\ NoTokenOf(k) \in Task /\ TaskOK(NoTokenOf(k))
         /\ LastTokenOf(k) \in Task /\ TaskOK(LastTokenOf(k))
         /\ k.left > 0 => NextTokenOf(k) \in Task /\ TaskOK(NextTokenOf(k))
<1> DEFINE n == k.n + 1
           a == k.added + 1
           l == k.left - 1
<1>1. /\ k.n \in Nat /\ k.added \in Nat /\ k.left \in Nat /\ k.added <= k.n
      /\ k.id \in SessionIds /\ k.ret = "none" /\ k.ctx \in Contexts
  BY DEF Task, TaskOK
<1>2. n \in Nat /\ a \in Nat /\ (k.left > 0 => l \in Nat) /\ k.added <= n /\ a <= n
  BY <1>1
<1>3. /\ NextTokenOf(k) = [k EXCEPT !.n = n, !.added = a, !.left = l]
      /\ LastTokenOf(k) = [k EXCEPT !.n = n, !.pc = "recordGenerated"]
  BY DEF Task, NextTokenOf, LastTokenOf
<1> HIDE DEF n, a, l
<1>4. NoTokenOf(k) \in Task
  BY DEF Task, NoTokenOf
<1>5. LastTokenOf(k) \in Task
  BY <1>2, <1>3 DEF Task
<1>6. k.left > 0 => NextTokenOf(k) \in Task
  BY <1>2, <1>3 DEF Task
<1>7. TaskOK(NoTokenOf(k))
  BY DEF Task, TaskOK, NoTokenOf
<1>8. TaskOK(LastTokenOf(k))
  BY <1>1, <1>2, <1>3 DEF Task, TaskOK
<1>9. TaskOK(NextTokenOf(k))
  BY <1>1, <1>2, <1>3 DEF Task, TaskOK
<1> QED BY <1>4, <1>5, <1>6, <1>7, <1>8, <1>9

(* One task moves, the others stay.                                        *)
TaskBecomes(t, k) ==
  /\ task' = [task EXCEPT ![t] = k]
  /\ k \in Task /\ TaskOK(k)

LEMMA TaskMoves ==
  ASSUME EInv, NEW t \in Threads, NEW k, TaskBecomes(t, k)
  PROVE  /\ task' \in [Threads -> Task]
         /\ \A u \in Threads : TaskOK(task'[u])
         /\ task'[t] = k
         /\ \A u \in Threads : u # t => task'[u] = task[u]
<1>1. /\ task \in [Threads -> Task] /\ \A u \in Threads : TaskOK(task[u])
      /\ task' = [task EXCEPT ![t] = k] /\ k \in Task /\ TaskOK(k)
  BY DEF EInv, TaskBecomes
<1> QED BY <1>1

(* Which task a step leaves to the thread that takes it.                   *)
LEMMA ActivateTask ==
  ASSUME EInv, NEW t \in Threads, Activate(t)
  PROVE  \/ /\ TaskBecomes(t, Returned(t, "false")) /\ Returned(t, "false").pc = "idle"
            /\ mSessions[task[t].id].state = "NONE" /\ UNCHANGED <<vars, holder>>
         \/ /\ TaskBecomes(t, [task[t] EXCEPT !.pc = "prefill",
                                               !.ctx = mSessions[task[t].id].ctx])
            /\ ActivateHot(task[t].id) /\ UNCHANGED holder
         \/ /\ TaskBecomes(t, [task[t] EXCEPT !.pc = "activate"])
            /\ ActivateCold(task[t].id) /\ holder' = t
<1>1. /\ task \in [Threads -> Task] /\ task[t] \in Task /\ TaskOK(task[t])
      /\ task[t].pc = "enter" /\ task[t].id \in SessionIds
  BY DEF EInv, Activate, TaskOK
<1>2. CASE /\ Ready /\ mSessions[task[t].id].state = "NONE"
           /\ task' = [task EXCEPT ![t] = Returned(t, "false")]
           /\ UNCHANGED <<vars, holder>>
  BY <1>1, <1>2, NewTasks DEF Returned, TaskBecomes
<1>3. CASE /\ ActivateHot(task[t].id)
           /\ task' = [task EXCEPT ![t].pc = "prefill",
                                   ![t].ctx = mSessions[task[t].id].ctx]
           /\ UNCHANGED holder
  <2> DEFINE c == mSessions[task[t].id].ctx
  <2>1. c \in Contexts
    BY <1>1, <1>3 DEF EInv, IInv, TypeOK, SessionMeta, ContextsOwned, ActivateHot
  <2>2. task' = [task EXCEPT ![t] = [task[t] EXCEPT !.pc = "prefill", !.ctx = c]]
    <3> HIDE DEF c
    <3>1. task' = [task EXCEPT ![t].pc = "prefill", ![t].ctx = c]
      BY <1>3 DEF c
    <3> QED BY <1>1, <3>1
  <2>3. TaskBecomes(t, [task[t] EXCEPT !.pc = "prefill", !.ctx = c])
    <3> HIDE DEF c
    <3> QED BY <1>1, <2>1, <2>2, ActivatedTask DEF TaskBecomes
  <2> QED BY <1>3, <2>3
<1>4. CASE /\ ActivateCold(task[t].id)
           /\ task' = [task EXCEPT ![t].pc = "activate"]
           /\ holder' = t
  <2>1. task' = [task EXCEPT ![t] = [task[t] EXCEPT !.pc = "activate"]]
    BY <1>1, <1>4
  <2>2. [task[t] EXCEPT !.pc = "activate"] \in Task
    BY <1>1 DEF Task
  <2>3. TaskOK([task[t] EXCEPT !.pc = "activate"])
    BY <1>1 DEF Task, TaskOK
  <2> QED BY <1>4, <2>1, <2>2, <2>3 DEF TaskBecomes
<1> QED BY <1>2, <1>3, <1>4 DEF Activate

LEMMA InManagerTask ==
  ASSUME EInv, NEW t \in Threads, InManager(t)
  PROVE  /\ CallStep /\ holder = t
         /\ \/ /\ proc' # "up" \/ call'.pc # "idle"
               /\ UNCHANGED <<task, holder>>
            \/ /\ proc' = "up" /\ call'.pc = "idle" /\ holder' = NoThread
               /\ \/ task[t].pc = "limit" /\ TaskBecomes(t, IdleTask)
                  \/ /\ task[t].pc = "activate" /\ task[t].id = call.id
                     /\ mSessions'[call.id].ctx = NoCtx
                     /\ TaskBecomes(t, Returned(t, "false"))
                  \/ /\ task[t].pc = "activate" /\ task[t].id = call.id
                     /\ mSessions'[call.id].ctx \in Contexts
                     /\ TaskBecomes(t, [task[t] EXCEPT !.pc = "prefill",
                                          !.ctx = mSessions'[call.id].ctx])
<1>1. /\ task \in [Threads -> Task] /\ task[t] \in Task /\ TaskOK(task[t])
      /\ holder = t /\ CallStep
      /\ \/ task[t].pc = "limit"
         \/ task[t].pc = "activate" /\ task[t].id = call.id /\ call.id \in SessionIds
      /\ mSessions' \in [SessionIds -> SessionMeta]
  <2>1. mSessions' \in [SessionIds -> SessionMeta]
    BY NextPreserves DEF EInv, IInv, TypeOK, Next, InManager
  <2> QED BY <2>1 DEF EInv, InManager, HolderOK, TaskOK
<1>2. CASE proc' # "up" \/ call'.pc # "idle"
  BY <1>1, <1>2 DEF InManager
<1>3. CASE ~(proc' # "up" \/ call'.pc # "idle")
  <2>1. /\ holder' = NoThread
        /\ task' = [task EXCEPT ![t] =
             HandedOut(t, IF task[t].pc = "limit" THEN NoCtx
                          ELSE mSessions'[task[t].id].ctx)]
    BY <1>3 DEF InManager
  <2>2. CASE task[t].pc = "limit"
    <3>1. IdleTask \in Task /\ TaskOK(IdleTask)
      BY NewTasks
    <3>2. task' = [task EXCEPT ![t] = IdleTask]
      BY <2>1, <2>2 DEF HandedOut
    <3> QED BY <1>1, <1>3, <2>1, <2>2, <3>1, <3>2 DEF TaskBecomes
  <2>3. CASE task[t].pc = "activate"
    <3> DEFINE c == mSessions'[call.id].ctx
    <3>1. task[t].id = call.id /\ c \in Contexts \cup {NoCtx}
      BY <1>1, <2>3 DEF SessionMeta
    <3>2. task' = [task EXCEPT ![t] = HandedOut(t, c)]
      BY <2>1, <2>3, <3>1
    <3> HIDE DEF c
    <3>3. CASE c = NoCtx
      <4>1. HandedOut(t, c) = Returned(t, "false")
        BY <2>3, <3>3 DEF HandedOut
      <4>2. TaskBecomes(t, Returned(t, "false"))
        <5>1. task[t].id \in SessionIds \cup {-1}
          BY <1>1 DEF Task
        <5> QED BY <3>2, <4>1, <5>1, NewTasks DEF TaskBecomes, Returned
      <4>3. mSessions'[call.id].ctx = NoCtx
        BY <3>3 DEF c
      <4> QED BY <1>1, <1>3, <2>1, <2>3, <3>1, <4>2, <4>3
    <3>4. CASE c # NoCtx
      <4>1. c \in Contexts
        BY <3>1, <3>4
      <4>2. HandedOut(t, c) = [task[t] EXCEPT !.pc = "prefill", !.ctx = c]
        BY <2>3, <3>4 DEF HandedOut
      <4>3. TaskBecomes(t, [task[t] EXCEPT !.pc = "prefill", !.ctx = c])
        BY <1>1, <2>3, <3>2, <4>1, <4>2, ActivatedTask DEF TaskBecomes
      <4> QED BY <1>1, <1>3, <2>1, <2>3, <3>1, <4>1, <4>3 DEF c
    <3> QED BY <3>3, <3>4
  <2> QED BY <1>1, <2>2, <2>3
<1> QED BY <1>2, <1>3

LEMMA PrefillTask ==
  ASSUME EInv, NEW t \in Threads, Prefill(t)
  PROVE  \/ /\ llama_decode(task[t].ctx, task[t].n)
            /\ TaskBecomes(t, [task[t] EXCEPT !.pc = "recordPrompt", !.added = task[t].n])
         \/ /\ DecodeMayFail(task[t].ctx, task[t].n) /\ UNCHANGED cells
            /\ TaskBecomes(t, Returned(t, "false")) /\ Returned(t, "false").pc = "idle"
<1>1. /\ task \in [Threads -> Task] /\ task[t] \in Task /\ TaskOK(task[t])
      /\ task[t].pc = "prefill" /\ task[t].id \in SessionIds
  BY DEF EInv, Prefill, TaskOK
<1>2. CASE /\ llama_decode(task[t].ctx, task[t].n)
           /\ task' = [task EXCEPT ![t].pc = "recordPrompt", ![t].added = task[t].n]
  <2>1. task' = [task EXCEPT ![t] =
                   [task[t] EXCEPT !.pc = "recordPrompt", !.added = task[t].n]]
    BY <1>1, <1>2
  <2> QED BY <1>1, <1>2, <2>1, RecordedTask DEF TaskBecomes
<1>3. CASE /\ DecodeMayFail(task[t].ctx, task[t].n) /\ UNCHANGED cells
           /\ task' = [task EXCEPT ![t] = Returned(t, "false")]
  BY <1>1, <1>3, NewTasks DEF Returned, TaskBecomes
<1> QED BY <1>2, <1>3 DEF Prefill

LEMMA LoopTask ==
  ASSUME EInv, NEW t \in Threads
  PROVE  /\ LoopEnds(t) => TaskBecomes(t, NoTokenOf(task[t]))
         /\ LoopGenerates(t) =>
              \/ llama_decode(task[t].ctx, 1) /\ TaskBecomes(t, NextTokenOf(task[t]))
              \/ /\ DecodeMayFail(task[t].ctx, 1) /\ UNCHANGED cells
                 /\ TaskBecomes(t, LastTokenOf(task[t]))
<1>1. /\ task \in [Threads -> Task] /\ task[t] \in Task /\ TaskOK(task[t])
  BY DEF EInv
<1>2. ASSUME LoopEnds(t) PROVE TaskBecomes(t, NoTokenOf(task[t]))
  <2>1. task[t].pc = "loop" /\ task' = [task EXCEPT ![t].pc = "recordGenerated"]
    BY <1>2 DEF LoopEnds
  <2>2. task' = [task EXCEPT ![t] = NoTokenOf(task[t])]
    BY <1>1, <2>1 DEF NoTokenOf
  <2> QED BY <1>1, <2>1, <2>2, LoopedTask DEF TaskBecomes
<1>3. ASSUME LoopGenerates(t)
      PROVE  \/ llama_decode(task[t].ctx, 1) /\ TaskBecomes(t, NextTokenOf(task[t]))
             \/ /\ DecodeMayFail(task[t].ctx, 1) /\ UNCHANGED cells
                /\ TaskBecomes(t, LastTokenOf(task[t]))
  <2>1. task[t].pc = "loop" /\ task[t].left > 0
    BY <1>3 DEF LoopGenerates
  <2>2. CASE /\ llama_decode(task[t].ctx, 1)
             /\ task' = [task EXCEPT ![t].n = @ + 1, ![t].added = @ + 1, ![t].left = @ - 1]
    <3>1. task' = [task EXCEPT ![t] = NextTokenOf(task[t])]
      BY <1>1, <2>2 DEF NextTokenOf
    <3> QED BY <1>1, <2>1, <2>2, <3>1, LoopedTask DEF TaskBecomes
  <2>3. CASE /\ DecodeMayFail(task[t].ctx, 1) /\ UNCHANGED cells
             /\ task' = [task EXCEPT ![t].n = @ + 1, ![t].pc = "recordGenerated"]
    <3>1. task' = [task EXCEPT ![t] = LastTokenOf(task[t])]
      BY <1>1, <2>3 DEF LastTokenOf
    <3> QED BY <1>1, <2>1, <2>3, <3>1, LoopedTask DEF TaskBecomes
  <2> QED BY <1>3, <2>2, <2>3 DEF LoopGenerates
<1> QED BY <1>2, <1>3

LEMMA RecordTask ==
  ASSUME EInv, NEW t \in Threads
  PROVE  /\ RecordPrompt(t) =>
              TaskBecomes(t, [task[t] EXCEPT !.pc = "loop", !.n = 0, !.added = 0])
         /\ RecordGenerated(t) => TaskBecomes(t, Returned(t, "true"))
<1>1. /\ task \in [Threads -> Task] /\ task[t] \in Task /\ TaskOK(task[t])
  BY DEF EInv
<1>2. ASSUME RecordPrompt(t)
      PROVE  TaskBecomes(t, [task[t] EXCEPT !.pc = "loop", !.n = 0, !.added = 0])
  <2>1. /\ task[t].pc = "recordPrompt"
        /\ task' = [task EXCEPT ![t].pc = "loop", ![t].n = 0, ![t].added = 0]
    BY <1>2 DEF RecordPrompt
  <2>2. task' = [task EXCEPT ![t] = [task[t] EXCEPT !.pc = "loop", !.n = 0, !.added = 0]]
    BY <1>1, <2>1
  <2> QED BY <1>1, <2>1, <2>2, RecordedTask DEF TaskBecomes
<1>3. ASSUME RecordGenerated(t) PROVE TaskBecomes(t, Returned(t, "true"))
  <2>1. task[t].id \in SessionIds \cup {-1}
    BY <1>1 DEF Task
  <2> QED BY <1>3, <2>1, NewTasks DEF RecordGenerated, Returned, TaskBecomes
<1> QED BY <1>2, <1>3

LEMMA InferTask ==
  ASSUME EInv, NEW t \in Threads, NEW id \in SessionIds, NEW p \in PromptLens,
         NEW m \in MaxNews, Infer(t, id, p, m)
  PROVE  \E k : TaskBecomes(t, k) /\ k.pc = "enter" /\ k.ret = "none"
<1> DEFINE k == [IdleTask EXCEPT !.pc = "enter", !.id = id, !.n = p, !.left = m]
<1>1. p \in Nat /\ m \in Nat
  BY EngineAssumption
<1>2. k \in Task /\ TaskOK(k) /\ k.pc = "enter"
  BY <1>1, StartedTask
<1>3. task' = [task EXCEPT ![t] = k]
  BY DEF Infer
<1> HIDE DEF k
<1>4. k.ret = "none"
  BY <1>2 DEF TaskOK
<1> QED BY <1>2, <1>3, <1>4 DEF TaskBecomes

(* Every step leaves the tasks as they are, moves one, or clears them all. *)
LEMMA TaskSteps ==
  ASSUME EInv, [EngineNext]_engineVars
  PROVE  \/ UNCHANGED task
         \/ \E t \in Threads, k \in Task : TaskBecomes(t, k)
         \/ task' = [t \in Threads |-> IdleTask]
<1>1. ASSUME NEW t \in Threads, Manage(t)
      PROVE  UNCHANGED task \/ \E k \in Task : TaskBecomes(t, k)
  <2>1. CASE ManageSession(t)
    BY <2>1 DEF ManageSession
  <2>2. CASE SetLimit(t)
    BY <2>2, NewTasks DEF SetLimit, TaskBecomes
  <2> QED BY <1>1, <2>1, <2>2 DEF Manage
<1>2. ASSUME NEW t \in Threads, Activate(t) \/ InManager(t)
      PROVE  UNCHANGED task \/ \E k \in Task : TaskBecomes(t, k)
  <2>1. ASSUME NEW k, TaskBecomes(t, k) PROVE k \in Task
    BY <2>1 DEF TaskBecomes
  <2>2. CASE Activate(t)
    BY <2>1, <2>2, ActivateTask
  <2>3. CASE InManager(t)
    BY <2>1, <2>3, InManagerTask
  <2> QED BY <1>2, <2>2, <2>3
<1>3. ASSUME NEW t \in Threads,
             \/ Prefill(t) \/ LoopEnds(t) \/ LoopGenerates(t) \/ RecordPrompt(t)
             \/ RecordGenerated(t)
             \/ \E id \in SessionIds, p \in PromptLens, m \in MaxNews : Infer(t, id, p, m)
      PROVE  \E k \in Task : TaskBecomes(t, k)
  <2>1. ASSUME NEW k, TaskBecomes(t, k) PROVE k \in Task
    BY <2>1 DEF TaskBecomes
  <2>2. \E k : TaskBecomes(t, k)
    BY <1>3, PrefillTask, LoopTask, RecordTask, InferTask
  <2> QED BY <2>1, <2>2
<1>4. ASSUME NEW t \in Threads, UsesFreed(t) \/ Race(t)
      PROVE  UNCHANGED task
  BY <1>4 DEF UsesFreed, Race
<1>5. CASE Process
  BY <1>5 DEF Process
<1>6. CASE UNCHANGED engineVars
  BY <1>6 DEF engineVars
<1> QED
  BY <1>1, <1>2, <1>3, <1>4, <1>5, <1>6 DEF EngineNext, InferStep

LEMMA TasksKept ==
  ASSUME EInv, [EngineNext]_engineVars
  PROVE  task' \in [Threads -> Task] /\ \A u \in Threads : TaskOK(task'[u])
<1>1. CASE UNCHANGED task
  BY <1>1 DEF EInv
<1>2. ASSUME NEW t \in Threads, NEW k \in Task, TaskBecomes(t, k)
      PROVE  task' \in [Threads -> Task] /\ \A u \in Threads : TaskOK(task'[u])
  BY <1>2, TaskMoves
<1>3. CASE task' = [t \in Threads |-> IdleTask]
  <2>1. IdleTask \in Task /\ TaskOK(IdleTask)
    BY NewTasks
  <2> QED BY <1>3, <2>1
<1> QED BY <1>1, <1>2, <1>3, TaskSteps

(* The methods without a loop leave no frame.                              *)
LEMMA HolderKept ==
  ASSUME EInv, [EngineNext]_engineVars
  PROVE  holder' \in Threads \cup {NoThread} /\ HolderOK'
<1>0. /\ holder \in Threads \cup {NoThread} /\ HolderOK /\ NoThread \notin Threads
      /\ call \in Frame /\ task \in [Threads -> Task]
  BY EngineAssumption DEF EInv, IInv, TypeOK
<1>1. CASE UNCHANGED <<call, holder, task>> /\ (proc' = "down" => proc = "down")
  BY <1>0, <1>1 DEF HolderOK
(* A thread that is not inside a looping method moves.                     *)
<1>2. ASSUME NEW t \in Threads, NEW k, TaskBecomes(t, k), UNCHANGED <<call, holder>>,
             task[t].pc \notin {"activate", "limit"}, proc' = "down" => proc = "down"
      PROVE  holder' \in Threads \cup {NoThread} /\ HolderOK'
  <2>1. \A u \in Threads : u # t => task'[u] = task[u]
    BY <1>2, TaskMoves
  <2>2. holder # t
    BY <1>0, <1>2 DEF HolderOK
  <2> QED BY <1>0, <1>2, <2>1, <2>2 DEF HolderOK
<1>3. ASSUME NEW t \in Threads, SetLimit(t)
      PROVE  holder' \in Threads \cup {NoThread} /\ HolderOK'
  <2>1. /\ holder' = t /\ task'[t].pc = "limit"
        /\ call'.pc # "idle" /\ call'.op \in {"setHotLimit", "setColdLimit"}
        /\ proc' # "down"
    <3>1. task'[t].pc = "limit"
      BY <1>0, <1>3 DEF SetLimit, IdleTask
    <3> QED BY <1>3, <3>1 DEF SetLimit, SetHotLimit, SetColdLimit, Ready, Idle
  <2> QED BY <1>0, <2>1 DEF HolderOK
<1>4. ASSUME NEW t \in Threads, Activate(t)
      PROVE  holder' \in Threads \cup {NoThread} /\ HolderOK'
  <2>0. task[t].pc = "enter" /\ task[t] \in Task
    BY <1>0, <1>4 DEF Activate
  <2>1. CASE /\ TaskBecomes(t, Returned(t, "false")) /\ UNCHANGED <<vars, holder>>
    BY <1>2, <2>0, <2>1 DEF vars, smVars
  <2>2. CASE /\ TaskBecomes(t, [task[t] EXCEPT !.pc = "prefill",
                                               !.ctx = mSessions[task[t].id].ctx])
             /\ ActivateHot(task[t].id) /\ UNCHANGED holder
    BY <1>2, <2>0, <2>2 DEF ActivateHot
  <2>3. CASE /\ TaskBecomes(t, [task[t] EXCEPT !.pc = "activate"])
             /\ ActivateCold(task[t].id) /\ holder' = t
    <3>1. task'[t] = [task[t] EXCEPT !.pc = "activate"]
      BY <2>3, TaskMoves
    <3>2. task'[t].pc = "activate" /\ task'[t].id = task[t].id
      BY <2>0, <3>1 DEF Task
    <3>3. /\ call'.op = "activateForInfer" /\ call'.pc = "evictHot" /\ call'.id = task[t].id
          /\ proc' # "down"
      BY <2>3 DEF ActivateCold, Ready
    <3> QED BY <1>0, <2>3, <3>2, <3>3 DEF HolderOK
  <2> QED BY <1>4, <2>1, <2>2, <2>3, ActivateTask
<1>5. ASSUME NEW t \in Threads, InManager(t)
      PROVE  holder' \in Threads \cup {NoThread} /\ HolderOK'
  <2>1. /\ CallStep /\ holder = t
        /\ \/ /\ proc' # "up" \/ call'.pc # "idle"
              /\ UNCHANGED <<task, holder>>
           \/ call'.pc = "idle" /\ holder' = NoThread
    BY <1>5, InManagerTask
  <2>2. \/ call' = Idle
        \/ call'.pc # "idle" /\ call'.op = call.op /\ call'.id = call.id
    BY <1>0, <2>1, CallStepFrames
  <2>3. Idle.pc = "idle" /\ Idle.op = "none"
    BY DEF Idle
  <2>4. CASE call'.pc = "idle"
    <3>1. call' = Idle
      BY <2>2, <2>4
    <3>2. proc' = "up"
      <4>1. call'.pc = "idle" => ~SwapInDangles
        BY <2>1 DEF SwapInDangles, SwapInStep, smVars
      <4> QED BY <2>1, <2>4, <4>1
          DEF CallStep, EvictHotPicks, EvictHotReturns, SwapOutFails, SwapOutPrunes,
              SwapOutCompletes, GoesCold, EvictColdKills, Kill, EvictColdReturns,
              SwapInNoContext, SwapInLoadFails, SwapInStep, SwapInNew, SwapInLoads,
              BecomesHot
    <3>3. holder' = NoThread
      BY <1>5, <2>4, <3>2, InManagerTask
    <3> QED BY <1>0, <2>3, <3>1, <3>3 DEF HolderOK
  <2>5. CASE call'.pc # "idle"
    <3>1. UNCHANGED <<task, holder>> /\ call'.op = call.op /\ call'.id = call.id
      BY <2>1, <2>2, <2>3, <2>5
    <3>2. call.pc # "idle" /\ proc = "up"
      BY <1>0, <2>1, CallStepFrames
    <3>3. proc' # "down"
      BY <2>1, <3>2 DEF CallStep, EvictHotPicks, EvictHotReturns, SwapOutFails,
        SwapOutPrunes, SwapOutCompletes, GoesCold, EvictColdKills, Kill,
        EvictColdReturns, SwapInDangles, SwapInNoContext, SwapInLoadFails,
        SwapInNew, SwapInLoads, BecomesHot
    <3> QED BY <1>0, <2>1, <2>5, <3>1, <3>2, <3>3 DEF HolderOK
  <2> QED BY <2>4, <2>5
<1>6. ASSUME NEW t \in Threads,
             \/ Prefill(t) \/ LoopEnds(t) \/ LoopGenerates(t) \/ RecordPrompt(t)
             \/ RecordGenerated(t)
             \/ \E id \in SessionIds, p \in PromptLens, m \in MaxNews : Infer(t, id, p, m)
      PROVE  holder' \in Threads \cup {NoThread} /\ HolderOK'
  <2>1. PICK k : TaskBecomes(t, k)
    BY <1>6, PrefillTask, LoopTask, RecordTask, InferTask
  <2>2. UNCHANGED <<call, holder, proc>>
    BY <1>6 DEF Prefill, LoopEnds, LoopGenerates, RecordPrompt, RecordGenerated, Record,
                RecordTokens, Infer, vars, smVars
  <2>3. task[t].pc \notin {"activate", "limit"}
    BY <1>6 DEF Prefill, LoopEnds, LoopGenerates, RecordPrompt, RecordGenerated, Infer
  <2> QED BY <1>2, <2>1, <2>2, <2>3
<1>7. ASSUME NEW t \in Threads, ManageSession(t) \/ UsesFreed(t) \/ Race(t)
      PROVE  UNCHANGED <<call, holder, task>> /\ (proc' = "down" => proc = "down")
  BY <1>7 DEF ManageSession, CreateSession, KillSession, Kill, UsesFreed, Race, smVars
<1>8. CASE Process
  <2>1. CASE Crash
    BY <1>0, <1>8, <2>1 DEF Process, Crash, ProcessEnds, HolderOK, Idle
  <2>2. CASE Restart
    <3>1. call' = call /\ holder' = NoThread /\ proc = "down" /\ proc' = "up"
      BY <1>8, <2>2 DEF Process, Restart, smVars
    <3> QED BY <1>0, <3>1 DEF HolderOK
  <2> QED BY <1>8, <2>1, <2>2 DEF Process
<1>9. CASE UNCHANGED engineVars
  BY <1>1, <1>9 DEF engineVars, vars, smVars
<1> QED
  BY <1>1, <1>3, <1>4, <1>5, <1>6, <1>7, <1>8, <1>9 DEF EngineNext, InferStep, Manage

LEMMA EngineNextPreserves == EInv /\ [EngineNext]_engineVars => EInv'
  BY ManagerInvariantKept, TasksKept, HolderKept DEF EInv

LEMMA EngineInvariantHolds == EngineSpec => []EInv
  BY EngineInitEstablishes, EngineNextPreserves, PTL DEF EngineSpec

-----------------------------------------------------------------------------
(* For any number of threads.                                              *)

(* Tasks, holder and manager keep their types.                             *)
THEOREM EngineTypeCorrect == EngineSpec => []EngineTypeOK
<1>1. EInv => EngineTypeOK
  BY DEF EInv, IInv, EngineTypeOK
<1> QED BY <1>1, EngineInvariantHolds, PTL

(* With one call at a time inside the manager, no interleaving of the      *)
(* inferences of any number of threads, with pointers kept across calls,   *)
(* brings the LRU lists out of step with the session map.                  *)
THEOREM EngineKeepsLists == EngineSpec => []LruMirrorsSessions
<1>1. EInv => LruMirrorsSessions
  BY DEF EInv, IInv
<1> QED BY <1>1, EngineInvariantHolds, PTL

(* Nor does one leak a context or make two sessions share one, although a  *)
(* task may go on using the context of a session that is gone.             *)
THEOREM EngineOwnsContexts == EngineSpec => []ContextsOwned
<1>1. EInv => ContextsOwned
  BY DEF EInv, IInv
<1> QED BY <1>1, EngineInvariantHolds, PTL

(* How a call that activates a session can end without a context.          *)
LEMMA RefusedActivation ==
  ASSUME "init" \notin Faults, "load" \notin Faults,
         EInv, CallStep, call.op = "activateForInfer", call'.pc = "idle",
         mSessions'[call.id].ctx = NoCtx
  PROVE  files'[call.id].tokens > nCtx
<1>1. /\ call \in Frame /\ call.id \in SessionIds
      /\ mSessions \in [SessionIds -> SessionMeta] /\ files \in [SessionIds -> File]
  BY DEF EInv, IInv, TypeOK, FrameOK
<1>2. ~EvictHotPicks /\ ~EvictHotReturns /\ ~SwapOutFails
  BY <1>1 DEF Frame, EvictHotPicks, EvictHotReturns, SwapOutFails, AfterEvictHot
<1>3. ~SwapOutPrunes /\ ~SwapOutCompletes /\ ~EvictColdKills /\ ~EvictColdReturns
  BY <1>1 DEF Frame, SwapOutPrunes, SwapOutCompletes, GoesCold, EvictColdKills,
              EvictColdReturns
<1>4. ~SwapInDangles /\ ~SwapInNoContext
  BY DEF SwapInDangles, SwapInStep, smVars, SwapInNoContext
<1>5. ASSUME NEW c \in Contexts, SwapInNew(c) \/ SwapInLoads(c)
      PROVE  FALSE
  <2>1. PICK t, n : BecomesHot(call.id, c, t, n)
    BY <1>5 DEF SwapInNew, SwapInLoads
  <2>2. mSessions'[call.id].ctx = c
    BY <1>1, <2>1 DEF BecomesHot, SessionMeta
  <2> QED BY <2>2, ConstantsAssumption
<1>6. SwapInLoadFails
  BY <1>2, <1>3, <1>4, <1>5 DEF CallStep
<1>7. IsSwapped(call.id) /\ ~Loadable(call.id) /\ files' = files
  BY <1>6 DEF SwapInLoadFails
<1>8. files[call.id].kind = "valid" /\ files[call.id].tokens \in Nat
  BY <1>1, <1>7 DEF EInv, SwapFilesIntact, File
<1> QED BY <1>7, <1>8, ConstantsAssumption DEF Loadable

(* When llama allocates, loads and decodes, infer returns false only for a *)
(* session that is gone, a prompt that does not fit its context, or a swap *)
(* file with more tokens than a context, however many threads there are.   *)
THEOREM RefusalsHaveReasons ==
  ASSUME "init" \notin Faults, "load" \notin Faults, "decode" \notin Faults
  PROVE  EngineSpec => RefusalHasReason
<1> DEFINE Reason(t) ==
      \/ mSessions'[task[t].id].state = "NONE"
      \/ task[t].pc = "prefill" /\ cells[task[t].ctx] + task[t].n > nCtx
      \/ task[t].pc = "activate" /\ files'[task[t].id].tokens > nCtx
    Refused == \A t \in Threads :
      (task[t].pc # "idle" /\ task'[t].ret = "false" /\ proc' = "up") => Reason(t)
<1>1. EInv /\ [EngineNext]_engineVars => [Refused]_engineVars
  <2> SUFFICES ASSUME EInv, EngineNext, NEW t \in Threads, task[t].pc # "idle",
                      task'[t].ret = "false", proc' = "up"
               PROVE  Reason(t)
    OBVIOUS
  <2>0. /\ task \in [Threads -> Task] /\ task[t] \in Task /\ task[t].ret = "none"
    BY DEF EInv, TaskOK
  <2>1. task'[t] # task[t]
    BY <2>0
  <2>2. ASSUME NEW u \in Threads, NEW k, TaskBecomes(u, k)
        PROVE  u = t /\ k.ret = "false" /\ k.pc = "idle"
    <3>1. u = t /\ task'[t] = k
      BY <2>1, <2>2, TaskMoves
    <3>2. k.pc = "idle"
      BY <2>2, <3>1 DEF TaskBecomes, TaskOK
    <3> QED BY <3>1, <3>2
  <2>3. ASSUME NEW u \in Threads, Manage(u)
        PROVE  FALSE
    <3>1. CASE ManageSession(u)
      BY <2>1, <3>1 DEF ManageSession
    <3>2. CASE SetLimit(u)
      <4>1. TaskBecomes(u, [IdleTask EXCEPT !.pc = "limit"])
        BY <3>2, NewTasks DEF SetLimit, TaskBecomes
      <4> QED BY <2>2, <4>1, NewTasks
    <3> QED BY <2>3, <3>1, <3>2 DEF Manage
  <2>4. ASSUME NEW u \in Threads, Activate(u)
        PROVE  Reason(t)
    <3>1. CASE /\ TaskBecomes(u, Returned(u, "false"))
               /\ mSessions[task[u].id].state = "NONE" /\ UNCHANGED <<vars, holder>>
      BY <2>2, <3>1 DEF vars, smVars
    <3>2. ASSUME NEW c, TaskBecomes(u, [task[u] EXCEPT !.pc = "prefill", !.ctx = c])
          PROVE  FALSE
      <4>1. [task[u] EXCEPT !.pc = "prefill", !.ctx = c].pc = "idle"
        BY <2>2, <3>2, Zenon
      <4>2. task[u] \in Task
        BY <2>0
      <4> QED BY <4>1, <4>2 DEF Task
    <3>3. CASE TaskBecomes(u, [task[u] EXCEPT !.pc = "activate"])
      BY <2>0, <2>2, <3>3 DEF Task
    <3> QED BY <2>4, <3>1, <3>2, <3>3, ActivateTask
  <2>5. ASSUME NEW u \in Threads, InManager(u)
        PROVE  Reason(t)
    <3>1. CASE TaskBecomes(u, IdleTask)
      BY <2>2, <3>1 DEF IdleTask
    <3>2. CASE /\ task[u].pc = "activate" /\ task[u].id = call.id
               /\ mSessions'[call.id].ctx = NoCtx /\ call'.pc = "idle"
               /\ TaskBecomes(u, Returned(u, "false")) /\ CallStep /\ holder = u
      <4>1. u = t
        BY <2>2, <3>2
      <4>2. call.op = "activateForInfer"
        BY <3>2 DEF EInv, HolderOK
      <4>3. files'[call.id].tokens > nCtx
        BY <3>2, <4>2, RefusedActivation
      <4> QED BY <3>2, <4>1, <4>3
    <3>3. ASSUME NEW c, TaskBecomes(u, [task[u] EXCEPT !.pc = "prefill", !.ctx = c])
          PROVE  FALSE
      <4>1. [task[u] EXCEPT !.pc = "prefill", !.ctx = c].pc = "idle"
        BY <2>2, <3>3, Zenon
      <4>2. task[u] \in Task
        BY <2>0
      <4> QED BY <4>1, <4>2 DEF Task
    <3> QED BY <2>1, <2>5, <3>1, <3>2, <3>3, InManagerTask
  <2>6. ASSUME NEW u \in Threads, Prefill(u)
        PROVE  Reason(t)
    <3>1. CASE DecodeMayFail(task[u].ctx, task[u].n) /\ TaskBecomes(u, Returned(u, "false"))
      BY <2>2, <2>6, <3>1 DEF DecodeMayFail, Prefill
    <3>2. CASE TaskBecomes(u, [task[u] EXCEPT !.pc = "recordPrompt", !.added = task[u].n])
      <4>1. [task[u] EXCEPT !.pc = "recordPrompt", !.added = task[u].n].pc = "idle"
        BY <2>2, <3>2, Zenon
      <4>2. task[u] \in Task
        BY <2>0
      <4> QED BY <4>1, <4>2 DEF Task
    <3> QED BY <2>6, <3>1, <3>2, PrefillTask
  <2>7. ASSUME NEW u \in Threads, LoopEnds(u) \/ LoopGenerates(u)
        PROVE  FALSE
    <3>1. task[u].pc = "loop" /\ task[u] \in Task
      BY <2>0, <2>7 DEF LoopEnds, LoopGenerates
    <3>2. /\ NoTokenOf(task[u]).pc # "idle" /\ NextTokenOf(task[u]).pc # "idle"
          /\ LastTokenOf(task[u]).pc # "idle"
      BY <3>1 DEF Task, NoTokenOf, NextTokenOf, LastTokenOf
    <3> QED BY <2>2, <2>7, <3>2, LoopTask
  <2>8. ASSUME NEW u \in Threads, RecordPrompt(u) \/ RecordGenerated(u)
        PROVE  FALSE
    <3>1. CASE TaskBecomes(u, [task[u] EXCEPT !.pc = "loop", !.n = 0, !.added = 0])
      <4>1. [task[u] EXCEPT !.pc = "loop", !.n = 0, !.added = 0].pc = "idle"
        BY <2>2, <3>1, Zenon
      <4>2. task[u] \in Task
        BY <2>0
      <4> QED BY <4>1, <4>2 DEF Task
    <3>2. CASE TaskBecomes(u, Returned(u, "true"))
      <4>1. Returned(u, "true").ret = "false"
        BY <2>2, <3>2, Zenon
      <4> QED BY <4>1 DEF Returned, IdleTask
    <3> QED BY <2>8, <3>1, <3>2, RecordTask
  <2>9. ASSUME NEW u \in Threads, NEW id \in SessionIds, NEW p \in PromptLens,
               NEW m \in MaxNews, Infer(u, id, p, m)
        PROVE  FALSE
    <3>1. PICK k : TaskBecomes(u, k) /\ k.pc = "enter"
      BY <2>9, InferTask
    <3> QED BY <2>2, <3>1
  <2>10. ASSUME NEW u \in Threads, UsesFreed(u) \/ Race(u)
         PROVE  FALSE
    BY <2>1, <2>10 DEF UsesFreed, Race
  <2>11. ~Process
    BY DEF Process, IdleTask
  <2> QED
    BY <2>3, <2>4, <2>5, <2>6, <2>7, <2>8, <2>9, <2>10, <2>11 DEF EngineNext, InferStep
<1> QED BY <1>1, EngineInvariantHolds, PTL DEF EngineSpec, RefusalHasReason

-----------------------------------------------------------------------------
(* Cells and tokens, as long as no inference is between its llama_decode   *)
(* and its recordTokens.                                                   *)

(* Every cell of a HOT session stands for a recorded token, and so does    *)
(* every cell in a swap file.                                              *)
CellsCovered ==
  /\ \A id \in SessionIds : IsHot(id) =>
       cells[mSessions[id].ctx] <= mSessions[id].tokens
  /\ \A id \in SessionIds : IsSwapped(id) => files[id].cells <= files[id].tokens

(* What is enough for CellsCovered to survive a step that concerns id.     *)
LEMMA CoveredButOne ==
  ASSUME IInv, CellsCovered, NEW id \in SessionIds,
         \A s \in SessionIds : s # id =>
           /\ mSessions'[s] = mSessions[s] /\ files'[s] = files[s]
           /\ IsHot(s) => cells'[mSessions[s].ctx] = cells[mSessions[s].ctx],
         mSessions'[id].state = "HOT" =>
           cells'[mSessions'[id].ctx] <= mSessions'[id].tokens,
         mSessions'[id].state = "COLD" /\ mSessions'[id].swapFilePath =>
           files'[id].cells <= files'[id].tokens
  PROVE  CellsCovered'
<1>1. ASSUME NEW s \in SessionIds, s # id
      PROVE  /\ IsHot(s)' => cells'[mSessions'[s].ctx] <= mSessions'[s].tokens
             /\ IsSwapped(s)' => files'[s].cells <= files'[s].tokens
  BY <1>1 DEF CellsCovered, IsHot, IsSwapped
<1> QED BY <1>1 DEF CellsCovered, IsHot, IsSwapped

(* A step changes the cells of the context of id only.                     *)
LEMMA OtherContexts ==
  ASSUME IInv, NEW id \in SessionIds, NEW c, NEW n,
         c = mSessions[id].ctx \/ c \notin live,
         cells' = [cells EXCEPT ![c] = n], proc = "up"
  PROVE  \A s \in SessionIds : s # id /\ IsHot(s) =>
           cells'[mSessions[s].ctx] = cells[mSessions[s].ctx]
<1> SUFFICES ASSUME NEW s \in SessionIds, s # id, IsHot(s)
             PROVE  cells'[mSessions[s].ctx] = cells[mSessions[s].ctx]
  OBVIOUS
<1>1. /\ mSessions[s].ctx \in live /\ mSessions[s].ctx # mSessions[id].ctx
      /\ cells \in [Contexts -> Nat] /\ live \subseteq Contexts
  BY DEF IInv, TypeOK, ContextsOwned
<1>2. mSessions[s].ctx # c
  BY <1>1
<1> QED BY <1>1, <1>2

LEMMA KillCovers ==
  ASSUME IInv, CellsCovered, proc = "up", NEW id \in SessionIds, Kill(id)
  PROVE  CellsCovered'
<1>1. /\ mSessions \in [SessionIds -> SessionMeta] /\ files \in [SessionIds -> File]
      /\ mSessions' = [mSessions EXCEPT ![id] = NewMeta("NONE")]
  BY DEF IInv, TypeOK, Kill
<1>2. /\ mSessions'[id].state = "NONE"
      /\ \A s \in SessionIds : s # id => mSessions'[s] = mSessions[s]
  BY <1>1 DEF NewMeta
<1>3. \A s \in SessionIds : s # id => files'[s] = files[s]
  BY <1>1 DEF Kill, LeavesCold
<1>4. \A s \in SessionIds : s # id /\ IsHot(s) =>
        cells'[mSessions[s].ctx] = cells[mSessions[s].ctx]
  <2>1. CASE IsHot(id)
    <3>1. cells' = [cells EXCEPT ![mSessions[id].ctx] = 0]
      BY <2>1 DEF Kill, llama_free
    <3> QED BY <3>1, OtherContexts
  <2>2. CASE ~IsHot(id)
    BY <2>2 DEF Kill
  <2> QED BY <2>1, <2>2
<1> QED BY <1>2, <1>3, <1>4, CoveredButOne DEF IsHot, IsSwapped

LEMMA SwapOutCovers ==
  ASSUME IInv, CellsCovered, SwapOutCompletes
  PROVE  CellsCovered'
<1> DEFINE v == call.victim
           n == cells[mSessions[v].ctx]
           size == StateSize(n)
<1>1. /\ v \in SessionIds /\ IsHot(v) /\ proc = "up"
      /\ mSessions \in [SessionIds -> SessionMeta] /\ files \in [SessionIds -> File]
  BY DEF IInv, TypeOK, FrameOK, SwapOutCompletes
<1>2. /\ mSessions' = [mSessions EXCEPT
           ![v] = [@ EXCEPT !.state = "COLD", !.ctx = NoCtx,
                            !.swapFilePath = TRUE, !.swapFileBytes = size]]
      /\ files' = [files EXCEPT ![v] = Saved(mSessions[v].tokens, n)]
      /\ cells' = [cells EXCEPT ![mSessions[v].ctx] = 0]
  BY DEF SwapOutCompletes, GoesCold, llama_free, Victim, VictimCells, Written
<1>3. n <= mSessions[v].tokens
  BY <1>1 DEF CellsCovered
<1> HIDE DEF v, n, size
<1>4. /\ mSessions'[v].state = "COLD"
      /\ \A s \in SessionIds : s # v => mSessions'[s] = mSessions[s]
  BY <1>1, <1>2 DEF SessionMeta
<1>5. /\ files'[v].cells = n /\ files'[v].tokens = mSessions[v].tokens
      /\ \A s \in SessionIds : s # v => files'[s] = files[s]
  BY <1>1, <1>2 DEF Saved
<1>6. \A s \in SessionIds : s # v /\ IsHot(s) =>
        cells'[mSessions[s].ctx] = cells[mSessions[s].ctx]
  BY <1>1, <1>2, OtherContexts
<1>7. files'[v].cells <= files'[v].tokens
  BY <1>3, <1>5
<1> QED BY <1>1, <1>4, <1>5, <1>6, <1>7, CoveredButOne

LEMMA PruneCovers ==
  ASSUME IInv, CellsCovered, SwapOutPrunes
  PROVE  CellsCovered'
<1> DEFINE v == call.victim
           c == mSessions[v].ctx
           r == Pruned(mSessions[v].tokens, ToRemove(mSessions[v].tokens))
           less == cells[c] - Smaller(r, cells[c])
<1>1. /\ v \in SessionIds /\ IsHot(v) /\ proc = "up"
      /\ mSessions \in [SessionIds -> SessionMeta] /\ files \in [SessionIds -> File]
      /\ cells \in [Contexts -> Nat] /\ c \in Contexts
  BY DEF IInv, TypeOK, FrameOK, SwapOutPrunes, ContextsOwned, SessionMeta
<1>2. /\ mSessions' = [mSessions EXCEPT ![v].tokens = @ - r]
      /\ files' = [files EXCEPT ![v] = Written]
      /\ cells' = [cells EXCEPT ![c] = @ - Smaller(r, @)]
  BY DEF SwapOutPrunes, Victim
<1>3. cells[c] <= mSessions[v].tokens /\ mSessions[v].tokens > kMinKeepTokens
  BY <1>1 DEF CellsCovered, SwapOutPrunes, Victim
<1>4. r \in Nat /\ r <= mSessions[v].tokens /\ mSessions[v].tokens \in Nat
  <2> DEFINE n == mSessions[v].tokens
  <2>1. n \in Nat /\ n > kMinKeepTokens /\ kMinKeepTokens \in Nat
    BY <1>1, <1>3, ConstantsAssumption DEF SessionMeta
  <2>2. n \div 4 \in Nat
    BY <2>1
  <2> HIDE DEF n
  <2>3. ToRemove(n) \in Nat
    <3> DEFINE q == n \div 4
    <3>1. ToRemove(n) = Smaller(Larger(1, q), n - kMinKeepTokens) /\ q \in Nat
      BY <2>2 DEF ToRemove
    <3> HIDE DEF q
    <3> QED BY <2>1, <3>1 DEF Smaller, Larger
  <2>4. Pruned(n, ToRemove(n)) \in Nat /\ Pruned(n, ToRemove(n)) <= n
    BY <2>1, <2>3 DEF Pruned
  <2> QED BY <2>1, <2>4 DEF n
<1> HIDE DEF r
<1>5. /\ cells' = [cells EXCEPT ![c] = less]
      /\ cells'[c] = less
  BY <1>1, <1>2
<1>6. less <= mSessions[v].tokens - r
  <2>1. cells[c] \in Nat
    BY <1>1
  <2> HIDE DEF c, v
  <2> QED BY <1>3, <1>4, <2>1 DEF Smaller
<1> HIDE DEF c, v, less
<1>7. /\ mSessions'[v].tokens = mSessions[v].tokens - r
      /\ mSessions'[v].ctx = c /\ mSessions'[v].state = "HOT"
      /\ \A s \in SessionIds : s # v => mSessions'[s] = mSessions[s]
  BY <1>1, <1>2 DEF SessionMeta, IsHot, c
<1>8. \A s \in SessionIds : s # v => files'[s] = files[s]
  BY <1>1, <1>2
<1>9. \A s \in SessionIds : s # v /\ IsHot(s) =>
        cells'[mSessions[s].ctx] = cells[mSessions[s].ctx]
  BY <1>1, <1>5, OtherContexts DEF c
<1>10. cells'[mSessions'[v].ctx] <= mSessions'[v].tokens
  BY <1>5, <1>6, <1>7
<1> QED BY <1>1, <1>7, <1>8, <1>9, <1>10, CoveredButOne

LEMMA SwapInCovers ==
  ASSUME IInv, CellsCovered, NEW c \in Contexts, SwapInNew(c) \/ SwapInLoads(c)
  PROVE  CellsCovered'
<1>1. /\ call.id \in SessionIds /\ proc = "up"
      /\ mSessions \in [SessionIds -> SessionMeta] /\ files \in [SessionIds -> File]
      /\ cells \in [Contexts -> Nat]
  BY DEF IInv, TypeOK, FrameOK, SwapInNew, SwapInLoads, SwapInStep
<1>2. PICK tokens \in Nat, n \in Nat : BecomesHot(call.id, c, tokens, n) /\ n <= tokens
  <2>1. CASE SwapInNew(c)
    BY <1>1, <2>1 DEF SwapInNew, SessionMeta
  <2>2. CASE SwapInLoads(c)
    <3>1. /\ files[call.id].tokens \in Nat /\ files[call.id].cells \in Nat
          /\ files[call.id].cells <= files[call.id].tokens
      BY <1>1, <2>2 DEF SwapInLoads, CellsCovered, File
    <3> QED BY <2>2, <3>1 DEF SwapInLoads
  <2> QED BY <2>1, <2>2
<1>3. /\ c \notin live /\ cells' = [cells EXCEPT ![c] = n]
      /\ mSessions' = [mSessions EXCEPT
           ![call.id] = [@ EXCEPT !.state = "HOT", !.ctx = c, !.tokens = tokens,
                                  !.swapFileBytes = 0]]
  BY <1>2 DEF BecomesHot
<1>4. /\ mSessions'[call.id].state = "HOT" /\ mSessions'[call.id].ctx = c
      /\ mSessions'[call.id].tokens = tokens
      /\ \A s \in SessionIds : s # call.id => mSessions'[s] = mSessions[s]
  BY <1>1, <1>3 DEF SessionMeta
<1>5. cells'[c] = n
  BY <1>1, <1>3
<1>6. \A s \in SessionIds : s # call.id => files'[s] = files[s]
  BY <1>1 DEF SwapInNew, SwapInLoads, LeavesCold
<1>7. \A s \in SessionIds : s # call.id /\ IsHot(s) =>
        cells'[mSessions[s].ctx] = cells[mSessions[s].ctx]
  BY <1>1, <1>3, OtherContexts
<1>8. cells'[mSessions'[call.id].ctx] <= mSessions'[call.id].tokens
  BY <1>2, <1>4, <1>5
<1> QED BY <1>1, <1>4, <1>6, <1>7, <1>8, CoveredButOne

(* No step of the manager adds a cell without a token.                     *)
LEMMA CellsCoveredStep ==
  ASSUME IInv, CellsCovered, [Next]_vars
  PROVE  CellsCovered'
<1>0. /\ mSessions \in [SessionIds -> SessionMeta] /\ files \in [SessionIds -> File]
      /\ cells \in [Contexts -> Nat]
  BY DEF IInv, TypeOK
<1>1. CASE UNCHANGED <<mSessions, files, cells>>
  BY <1>1 DEF CellsCovered, IsHot, IsSwapped
<1>2. ASSUME NEW id \in SessionIds, CreateSession(id)
      PROVE  CellsCovered'
  <2>1. /\ mSessions'[id].state = "COLD" /\ mSessions'[id].swapFilePath = FALSE
        /\ cells' = cells
        /\ \A s \in SessionIds : s # id => mSessions'[s] = mSessions[s] /\ files'[s] = files[s]
    BY <1>0, <1>2 DEF CreateSession, NewMeta
  <2> QED BY <2>1, CoveredButOne
<1>3. ASSUME NEW id \in SessionIds, KillSession(id)
      PROVE  CellsCovered'
  BY <1>3, KillCovers DEF KillSession, Ready
<1>4. CASE EvictColdKills
  BY <1>4, ColdVictimIsSwapped, KillCovers DEF EvictColdKills
<1>5. CASE SwapOutFails
  <2>1. /\ mSessions' = mSessions /\ cells' = cells /\ call.victim \in SessionIds
        /\ mSessions[call.victim].state = "HOT"
        /\ \A s \in SessionIds : s # call.victim => files'[s] = files[s]
    BY <1>0, <1>5 DEF SwapOutFails, IInv, FrameOK, IsHot
  <2>2. cells[mSessions[call.victim].ctx] <= mSessions[call.victim].tokens
    BY <2>1 DEF CellsCovered, IsHot
  <2> QED BY <2>1, <2>2, CoveredButOne
<1>6. CASE SwapInLoadFails
  <2>1. /\ mSessions' = [mSessions EXCEPT ![call.id].tokens = nCtx]
        /\ cells' = cells /\ files' = files
        /\ call.id \in SessionIds /\ IsSwapped(call.id)
    BY <1>6 DEF SwapInLoadFails, SwapInStep, IInv, FrameOK
  <2>2. /\ mSessions'[call.id].state = "COLD"
        /\ \A s \in SessionIds : s # call.id => mSessions'[s] = mSessions[s]
    BY <1>0, <2>1 DEF SessionMeta, IsSwapped
  <2>3. files[call.id].cells <= files[call.id].tokens
    BY <2>1 DEF CellsCovered
  <2> QED BY <2>1, <2>2, <2>3, CoveredButOne
<1>7. ASSUME NEW id \in SessionIds, NEW n \in 0 .. MaxTokens, NEW d \in 0 .. nCtx,
             DecodeAndRecord(id, n, d)
      PROVE  CellsCovered'
  <2> DEFINE c == mSessions[id].ctx
  <2>1. /\ mSessions' = [mSessions EXCEPT ![id].tokens = @ + n] /\ files' = files
        /\ cells' = [cells EXCEPT ![c] = @ + d] /\ d <= n
        /\ IsHot(id) /\ proc = "up" /\ n \in Nat /\ d \in Nat
    BY <1>7, ConstantsAssumption DEF DecodeAndRecord, RecordTokens, llama_decode, Ready
  <2>2. /\ c \in Contexts /\ cells[c] \in Nat /\ mSessions[id].tokens \in Nat
        /\ cells[c] <= mSessions[id].tokens
    BY <1>0, <2>1 DEF IInv, ContextsOwned, SessionMeta, CellsCovered
  <2>3. cells' = [cells EXCEPT ![c] = cells[c] + d] /\ cells'[c] = cells[c] + d
    BY <1>0, <2>1, <2>2
  <2> HIDE DEF c
  <2>4. /\ mSessions'[id].state = "HOT" /\ mSessions'[id].ctx = c
        /\ mSessions'[id].tokens = mSessions[id].tokens + n
        /\ \A s \in SessionIds : s # id => mSessions'[s] = mSessions[s]
    BY <1>0, <2>1 DEF SessionMeta, IsHot, c
  <2>5. \A s \in SessionIds : s # id /\ IsHot(s) =>
          cells'[mSessions[s].ctx] = cells[mSessions[s].ctx]
    <3> DEFINE more == cells[c] + d
    <3>1. cells' = [cells EXCEPT ![c] = more] /\ c = mSessions[id].ctx
      BY <2>3 DEF c
    <3> HIDE DEF more
    <3>2. proc = "up"
      BY <2>1
    <3> QED BY <3>1, <3>2, OtherContexts, Zenon
  <2>6. cells'[c] <= mSessions'[id].tokens
    BY <2>1, <2>2, <2>3, <2>4
  <2> QED BY <2>1, <2>4, <2>5, <2>6, CoveredButOne
<1>8. CASE Destructor \/ Crash
  BY <1>8 DEF Destructor, Crash, ProcessEnds, NewMeta, CellsCovered, IsHot, IsSwapped
<1> QED
  BY <1>1, <1>2, <1>3, <1>4, <1>5, <1>6, <1>7, <1>8, SwapOutCovers, PruneCovers, SwapInCovers
  DEF Next, CallStep, Request, Lifecycle, vars, smVars, ActivateHot, ActivateCold,
      SetHotLimit, SetColdLimit, EvictHotPicks, EvictHotReturns, EvictColdReturns,
      SwapInNoContext, SwapInDangles, Restart

-----------------------------------------------------------------------------
(* One thread: the UDS server without the HAL.                             *)

OneThread == \A t, u \in Threads : t = u

(* Nothing can take the session of a task away between activateForInfer    *)
(* and the last recordTokens when the only thread is inside that task.     *)
LEMMA ContextHeldStep ==
  ASSUME OneThread, EInv, ContextHeld, [EngineNext]_engineVars
  PROVE  ContextHeld'
<1> SUFFICES ASSUME NEW t \in Threads, proc' = "up", Decoding(t)'
             PROVE  /\ mSessions'[task'[t].id].state = "HOT"
                    /\ mSessions'[task'[t].id].ctx = task'[t].ctx
  BY DEF ContextHeld, OneThread
<1>0. /\ task \in [Threads -> Task] /\ task[t] \in Task /\ TaskOK(task[t])
      /\ \A u \in Threads : u = t
      /\ mSessions \in [SessionIds -> SessionMeta]
  BY DEF EInv, IInv, TypeOK, OneThread
<1>1. task'[t].pc \in {"prefill", "recordPrompt", "loop", "recordGenerated"}
  BY DEF Decoding
<1>2. ASSUME NEW k, TaskBecomes(t, k) PROVE task'[t] = k
  BY <1>2, TaskMoves
(* A task that was decoding goes on with the same session and context.     *)
<1>3. ASSUME proc = "up", Decoding(t), task'[t].id = task[t].id, task'[t].ctx = task[t].ctx,
             \A s \in SessionIds : /\ mSessions'[s].state = mSessions[s].state
                                   /\ mSessions'[s].ctx = mSessions[s].ctx
      PROVE  /\ mSessions'[task'[t].id].state = "HOT"
             /\ mSessions'[task'[t].id].ctx = task'[t].ctx
  <2>1. task[t].id \in SessionIds
    BY <1>0, <1>3 DEF Decoding, TaskOK
  <2> QED BY <1>3, <2>1 DEF ContextHeld
<1>4. ASSUME Manage(t) PROVE FALSE
  <2>1. task[t].pc = "idle"
    BY <1>4 DEF Manage
  <2>2. CASE ManageSession(t)
    BY <1>1, <2>1, <2>2 DEF ManageSession
  <2>3. CASE SetLimit(t)
    BY <1>0, <1>1, <2>3 DEF SetLimit, IdleTask
  <2> QED BY <1>4, <2>2, <2>3 DEF Manage
<1>5. CASE Activate(t)
  <2> DEFINE c == mSessions[task[t].id].ctx
  <2>0. task[t].pc = "enter" /\ task[t].id \in SessionIds
    BY <1>0, <1>5 DEF Activate, TaskOK
  <2>1. CASE TaskBecomes(t, Returned(t, "false")) /\ Returned(t, "false").pc = "idle"
    BY <1>1, <1>2, <2>1
  <2>2. CASE /\ TaskBecomes(t, [task[t] EXCEPT !.pc = "prefill", !.ctx = c])
             /\ ActivateHot(task[t].id)
    <3> HIDE DEF c
    <3>1. task'[t] = [task[t] EXCEPT !.pc = "prefill", !.ctx = c]
      BY <1>2, <2>2
    <3>2. task'[t].id = task[t].id /\ task'[t].ctx = c
      BY <1>0, <3>1 DEF Task
    <3>3. mSessions' = mSessions /\ mSessions[task[t].id].state = "HOT"
      BY <2>2 DEF ActivateHot, IsHot
    <3> QED BY <3>2, <3>3 DEF c
  <2>3. CASE TaskBecomes(t, [task[t] EXCEPT !.pc = "activate"])
    BY <1>0, <1>1, <1>2, <2>3 DEF Task
  <2> QED BY <1>5, <2>1, <2>2, <2>3, ActivateTask
<1>6. CASE InManager(t)
  <2> DEFINE c == mSessions'[call.id].ctx
  <2>0. task[t].pc \in {"activate", "limit"}
    BY <1>6 DEF InManager, EInv, HolderOK
  <2>1. CASE UNCHANGED task
    BY <1>1, <2>0, <2>1
  <2>2. CASE TaskBecomes(t, IdleTask)
    BY <1>1, <1>2, <2>2 DEF IdleTask
  <2>3. CASE TaskBecomes(t, Returned(t, "false"))
    BY <1>1, <1>2, <2>3 DEF Returned, IdleTask
  <2>4. CASE /\ TaskBecomes(t, [task[t] EXCEPT !.pc = "prefill", !.ctx = c])
             /\ task[t].pc = "activate" /\ task[t].id = call.id /\ c \in Contexts
    <3>1. call.id \in SessionIds /\ c # NoCtx
      BY <1>0, <2>4, ConstantsAssumption DEF TaskOK
    <3>2. mSessions'[call.id].state = "HOT"
      <4>1. ContextsOwned'
        BY ManagerInvariantKept DEF IInv
      <4>2. \A s \in SessionIds : mSessions'[s].ctx # NoCtx => mSessions'[s].state = "HOT"
        BY <4>1 DEF ContextsOwned, IsHot
      <4> QED BY <3>1, <4>2
    <3> HIDE DEF c
    <3>3. task'[t] = [task[t] EXCEPT !.pc = "prefill", !.ctx = c]
      BY <1>2, <2>4
    <3>4. task'[t].id = call.id /\ task'[t].ctx = c
      BY <1>0, <2>4, <3>3 DEF Task
    <3> QED BY <3>2, <3>4 DEF c
  <2> QED BY <1>6, <2>1, <2>2, <2>3, <2>4, InManagerTask
<1>7. CASE Prefill(t)
  <2>0. proc = "up" /\ Decoding(t) /\ mSessions' = mSessions
    BY <1>7 DEF Prefill, Decoding
  <2>1. CASE TaskBecomes(t, [task[t] EXCEPT !.pc = "recordPrompt", !.added = task[t].n])
    <3>1. task'[t] = [task[t] EXCEPT !.pc = "recordPrompt", !.added = task[t].n]
      BY <1>2, <2>1
    <3>2. task'[t].id = task[t].id /\ task'[t].ctx = task[t].ctx
      BY <1>0, <3>1 DEF Task
    <3> QED BY <1>3, <2>0, <3>2
  <2>2. CASE TaskBecomes(t, Returned(t, "false")) /\ Returned(t, "false").pc = "idle"
    BY <1>1, <1>2, <2>2
  <2> QED BY <1>7, <2>1, <2>2, PrefillTask
<1>8. CASE LoopEnds(t) \/ LoopGenerates(t)
  <2>0. proc = "up" /\ Decoding(t) /\ mSessions' = mSessions
    BY <1>8 DEF LoopEnds, LoopGenerates, Decoding, vars, smVars
  <2>1. /\ NoTokenOf(task[t]).id = task[t].id /\ NoTokenOf(task[t]).ctx = task[t].ctx
        /\ NextTokenOf(task[t]).id = task[t].id /\ NextTokenOf(task[t]).ctx = task[t].ctx
        /\ LastTokenOf(task[t]).id = task[t].id /\ LastTokenOf(task[t]).ctx = task[t].ctx
    BY <1>0 DEF Task, NoTokenOf, NextTokenOf, LastTokenOf
  <2>2. task'[t].id = task[t].id /\ task'[t].ctx = task[t].ctx
    BY <1>2, <1>8, <2>1, LoopTask
  <2> QED BY <1>3, <2>0, <2>2
<1>9. CASE RecordPrompt(t)
  <2>1. /\ proc = "up" /\ Decoding(t)
        /\ UNCHANGED mSessions \/ mSessions' = [mSessions EXCEPT ![task[t].id].tokens =
                                                  @ + task[t].n]
    BY <1>9 DEF RecordPrompt, Record, RecordTokens, Ready, Decoding, vars, smVars
  <2>2. \A s \in SessionIds : /\ mSessions'[s].state = mSessions[s].state
                              /\ mSessions'[s].ctx = mSessions[s].ctx
    BY <1>0, <2>1 DEF SessionMeta
  <2>3. task'[t] = [task[t] EXCEPT !.pc = "loop", !.n = 0, !.added = 0]
    BY <1>2, <1>9, RecordTask
  <2>4. task'[t].id = task[t].id /\ task'[t].ctx = task[t].ctx
    BY <1>0, <2>3 DEF Task
  <2> QED BY <1>3, <2>1, <2>2, <2>4
<1>10. CASE RecordGenerated(t)
  BY <1>1, <1>2, <1>10, RecordTask DEF Returned, IdleTask
<1>11. ASSUME NEW id \in SessionIds, NEW p \in PromptLens, NEW m \in MaxNews,
              Infer(t, id, p, m)
       PROVE  FALSE
  BY <1>1, <1>2, <1>11, InferTask
<1>12. CASE UsesFreed(t) \/ Race(t)
  BY <1>12 DEF UsesFreed, Race
<1>13. CASE Process
  BY <1>1, <1>13 DEF Process, IdleTask
<1>14. CASE UNCHANGED engineVars
  BY <1>3, <1>14 DEF engineVars, vars, smVars, Decoding
<1> QED
  BY <1>0, <1>4, <1>5, <1>6, <1>7, <1>8, <1>9, <1>10, <1>11, <1>12, <1>13, <1>14
  DEF EngineNext, InferStep

(* With one thread, the pointer an inference keeps is at all times the     *)
(* context of its HOT session: no eviction, kill or swap comes in between. *)
LEMMA HeldWithOneThread ==
  ASSUME OneThread
  PROVE  EngineSpec => []ContextHeld
<1>1. EngineInit => ContextHeld
  BY DEF EngineInit, IdleTask, ContextHeld, Decoding
<1>2. EInv /\ ContextHeld /\ [EngineNext]_engineVars => ContextHeld'
  BY ContextHeldStep
<1> QED BY <1>1, <1>2, EngineInvariantHolds, PTL DEF EngineSpec

(* What RecordCoversCells says when t is the only thread.                  *)
LEMMA CoverIsPending ==
  ASSUME OneThread, NEW t \in Threads
  PROVE  /\ RecordCoversCells <=>
              \A id \in SessionIds : IsHot(id) =>
                \/ cells[mSessions[id].ctx] <= mSessions[id].tokens
                \/ /\ Decoding(t) /\ task[t].ctx = mSessions[id].ctx
                   /\ cells[mSessions[id].ctx] <= mSessions[id].tokens + task[t].added
         /\ RecordCoversCells' <=>
              \A id \in SessionIds : IsHot(id)' =>
                \/ cells'[mSessions'[id].ctx] <= mSessions'[id].tokens
                \/ /\ Decoding(t)' /\ task'[t].ctx = mSessions'[id].ctx
                   /\ cells'[mSessions'[id].ctx] <= mSessions'[id].tokens + task'[t].added
<1>1. \A u \in Threads : u = t
  BY DEF OneThread
<1>2. RecordCoversCells <=>
        \A id \in SessionIds : IsHot(id) =>
          \/ cells[mSessions[id].ctx] <= mSessions[id].tokens
          \/ /\ Decoding(t) /\ task[t].ctx = mSessions[id].ctx
             /\ cells[mSessions[id].ctx] <= mSessions[id].tokens + task[t].added
  BY <1>1 DEF RecordCoversCells
<1>3. RecordCoversCells' <=>
        \A id \in SessionIds : IsHot(id)' =>
          \/ cells'[mSessions'[id].ctx] <= mSessions'[id].tokens
          \/ /\ Decoding(t)' /\ task'[t].ctx = mSessions'[id].ctx
             /\ cells'[mSessions'[id].ctx] <= mSessions'[id].tokens + task'[t].added
  BY <1>1 DEF RecordCoversCells
<1> QED BY <1>2, <1>3

FilesCovered ==
  \A id \in SessionIds : IsSwapped(id) => files[id].cells <= files[id].tokens

(* A step of the manager that the thread takes outside of an inference's   *)
(* decoding, or at its start.                                              *)
LEMMA CoverQuietStep ==
  ASSUME OneThread, EInv, RecordCoversCells, FilesCovered, NEW t \in Threads,
         ~Decoding(t), [Next]_vars
  PROVE  RecordCoversCells' /\ FilesCovered'
<1>1. CellsCovered
  BY CoverIsPending DEF CellsCovered, FilesCovered
<1>2. CellsCovered'
  BY <1>1, CellsCoveredStep DEF EInv
<1> QED BY <1>2, CoverIsPending DEF CellsCovered, FilesCovered

(* llama_decode adds n cells to the context of the task and the task notes *)
(* as many; other contexts keep their cells.                               *)
LEMMA CoverDecodeStep ==
  ASSUME OneThread, EInv, RecordCoversCells, NEW t \in Threads, NEW n \in Nat,
         Decoding(t), Decoding(t)', task'[t].ctx = task[t].ctx,
         task'[t].added = task[t].added + n,
         cells' = [cells EXCEPT ![task[t].ctx] = @ + n], mSessions' = mSessions
  PROVE  RecordCoversCells'
<1>1. /\ task[t].ctx \in Contexts /\ task[t].added \in Nat
      /\ cells \in [Contexts -> Nat] /\ mSessions \in [SessionIds -> SessionMeta]
  BY DEF EInv, TaskOK, Task, Decoding, IInv, TypeOK
<1>2. ASSUME NEW id \in SessionIds, IsHot(id)'
      PROVE  \/ cells'[mSessions'[id].ctx] <= mSessions'[id].tokens
             \/ /\ Decoding(t)' /\ task'[t].ctx = mSessions'[id].ctx
                /\ cells'[mSessions'[id].ctx] <= mSessions'[id].tokens + task'[t].added
  <2> DEFINE c == mSessions[id].ctx
             k == mSessions[id].tokens
             a == task[t].added
  <2>1. IsHot(id) /\ c \in Contexts /\ k \in Nat /\ a \in Nat
    <3>1. IsHot(id)
      BY <1>2 DEF IsHot
    <3> QED BY <1>1, <3>1 DEF EInv, IInv, ContextsOwned, SessionMeta
  <2>2. cells[c] <= k \/ (task[t].ctx = c /\ cells[c] <= k + a)
    BY <2>1, CoverIsPending
  <2>3. cells[c] \in Nat
    BY <1>1, <2>1
  <2>4. CASE task[t].ctx = c
    <3>1. cells'[c] = cells[c] + n
      BY <1>1, <2>1, <2>4
    <3> HIDE DEF c, k, a
    <3>2. cells'[c] <= k + (a + n)
      BY <2>1, <2>2, <2>3, <3>1
    <3> QED BY <2>4, <3>2 DEF c, k, a
  <2>5. CASE task[t].ctx # c
    <3>1. cells'[c] = cells[c]
      BY <1>1, <2>1, <2>5
    <3> QED BY <2>2, <2>5, <3>1
  <2> QED BY <2>4, <2>5
<1> QED BY <1>2, CoverIsPending

(* recordTokens adds at least as many tokens as the task has added cells.  *)
LEMMA CoverRecordStep ==
  ASSUME OneThread, EInv, ContextHeld, RecordCoversCells, NEW t \in Threads,
         Decoding(t), proc = "up", task[t].added <= task[t].n,
         Record(task[t].id, task[t].n)
  PROVE  RecordCoversCells' /\ files' = files /\
         \A s \in SessionIds : /\ mSessions'[s].state = mSessions[s].state
                               /\ mSessions'[s].swapFilePath = mSessions[s].swapFilePath
<1> DEFINE i == task[t].id
           n == task[t].n
<1>1. /\ i \in SessionIds /\ n \in Nat /\ task[t].added \in Nat
      /\ cells \in [Contexts -> Nat] /\ mSessions \in [SessionIds -> SessionMeta]
      /\ mSessions[i].state = "HOT" /\ mSessions[i].ctx = task[t].ctx
  BY DEF EInv, TaskOK, Task, Decoding, IInv, TypeOK, ContextHeld
<1>2. RecordTokens(i, n) /\ cells' = cells
  BY <1>1 DEF Record
<1>3. mSessions' = [mSessions EXCEPT ![i].tokens = @ + n] /\ files' = files
  BY <1>2 DEF RecordTokens
<1> HIDE DEF i, n
<1>4. /\ \A s \in SessionIds :
            /\ mSessions'[s].state = mSessions[s].state
            /\ mSessions'[s].ctx = mSessions[s].ctx
            /\ mSessions'[s].swapFilePath = mSessions[s].swapFilePath
            /\ s # i => mSessions'[s].tokens = mSessions[s].tokens
      /\ mSessions'[i].tokens = mSessions[i].tokens + n
  BY <1>1, <1>3 DEF SessionMeta
<1>5. ASSUME NEW id \in SessionIds, IsHot(id)'
      PROVE  cells'[mSessions'[id].ctx] <= mSessions'[id].tokens
  <2>1. IsHot(id) /\ mSessions[id].tokens \in Nat /\ mSessions[id].ctx \in Contexts
    <3>1. IsHot(id)
      BY <1>4, <1>5 DEF IsHot
    <3> QED BY <1>1, <3>1 DEF EInv, IInv, ContextsOwned, SessionMeta
  <2>2. \/ cells[mSessions[id].ctx] <= mSessions[id].tokens
        \/ /\ task[t].ctx = mSessions[id].ctx
           /\ cells[mSessions[id].ctx] <= mSessions[id].tokens + task[t].added
    BY <2>1, CoverIsPending
  <2>3. cells[mSessions[id].ctx] \in Nat
    BY <1>1, <2>1
  <2>4. CASE id = i
    <3>1. task[t].added <= n
      BY DEF n
    <3> DEFINE x == cells[mSessions[id].ctx]
               k == mSessions[id].tokens
               a == task[t].added
    <3>2. (x <= k \/ x <= k + a) /\ a <= n /\ a \in Nat /\ n \in Nat /\ x \in Nat /\ k \in Nat
      BY <1>1, <2>1, <2>2, <2>3, <3>1
    <3>3. x <= k + n
      <4> HIDE DEF x, k, a
      <4> QED BY <3>2
    <3> QED BY <1>2, <1>4, <2>4, <3>3
  <2>5. CASE id # i
    <3>1. mSessions[id].ctx # mSessions[i].ctx
      BY <1>1, <2>1, <2>5 DEF EInv, IInv, ContextsOwned
    <3> QED BY <1>1, <1>2, <1>4, <2>2, <2>5, <3>1
  <2> QED BY <2>4, <2>5
<1>6. RecordCoversCells'
  BY <1>5, CoverIsPending
<1> QED BY <1>3, <1>4, <1>6

LEMMA RecordCoversStep ==
  ASSUME OneThread, EInv, ContextHeld, RecordCoversCells, FilesCovered,
         [EngineNext]_engineVars
  PROVE  RecordCoversCells' /\ FilesCovered'
<1>0. /\ task \in [Threads -> Task] /\ \A t \in Threads : task[t] \in Task /\ TaskOK(task[t])
  BY DEF EInv
<1>1. ASSUME UNCHANGED <<mSessions, files>> PROVE FilesCovered'
  BY <1>1 DEF FilesCovered, IsSwapped
<1>2. ASSUME NEW t \in Threads,
             \/ Manage(t) \/ Activate(t) \/ InManager(t)
             \/ \E id \in SessionIds, p \in PromptLens, m \in MaxNews : Infer(t, id, p, m)
      PROVE  RecordCoversCells' /\ FilesCovered'
  <2>1. ~Decoding(t)
    BY <1>2 DEF Manage, Activate, InManager, Infer, Decoding, EInv, HolderOK
  <2>2. [Next]_vars
    <3>1. CASE Manage(t)
      BY <3>1 DEF Manage, ManageSession, SetLimit, Next, Request
    <3>2. CASE Activate(t)
      <4>1. task[t].id \in SessionIds
        BY <3>2 DEF Activate, EInv, TaskOK
      <4>2. \/ UNCHANGED vars
            \/ ActivateHot(task[t].id) \/ ActivateCold(task[t].id)
        BY <3>2 DEF Activate
      <4> QED BY <4>1, <4>2 DEF Next, Request
    <3>3. CASE InManager(t)
      BY <3>3 DEF InManager, Next
    <3>4. CASE \E id \in SessionIds, p \in PromptLens, m \in MaxNews : Infer(t, id, p, m)
      BY <3>4 DEF Infer
    <3> QED BY <1>2, <3>1, <3>2, <3>3, <3>4
  <2> QED BY <2>1, <2>2, CoverQuietStep
<1>3. ASSUME NEW t \in Threads, Prefill(t)
      PROVE  RecordCoversCells' /\ FilesCovered'
  <2>0. /\ UNCHANGED <<mSessions, files>> /\ Decoding(t)
        /\ task[t].added = 0 /\ task[t].n \in Nat /\ task[t] \in Task
    BY <1>0, <1>3 DEF Prefill, Decoding, TaskOK, Task
  <2>1. CASE /\ llama_decode(task[t].ctx, task[t].n)
             /\ TaskBecomes(t, [task[t] EXCEPT !.pc = "recordPrompt", !.added = task[t].n])
    <3>1. task'[t] = [task[t] EXCEPT !.pc = "recordPrompt", !.added = task[t].n]
      BY <2>1, TaskMoves
    <3>2. /\ task'[t].pc = "recordPrompt" /\ task'[t].ctx = task[t].ctx
          /\ task'[t].added = task[t].added + task[t].n
      BY <2>0, <3>1 DEF Task
    <3>3. cells' = [cells EXCEPT ![task[t].ctx] = @ + task[t].n] /\ Decoding(t)'
      BY <2>1, <3>2 DEF llama_decode, Decoding
    <3> QED BY <1>1, <2>0, <3>2, <3>3, CoverDecodeStep
  <2>2. CASE UNCHANGED cells /\ TaskBecomes(t, Returned(t, "false"))
    <3>1. \A id \in SessionIds : IsHot(id) => cells[mSessions[id].ctx] <= mSessions[id].tokens
      <4>1. mSessions \in [SessionIds -> SessionMeta]
        BY DEF EInv, IInv, TypeOK
      <4>2. \A id \in SessionIds : mSessions[id].tokens + task[t].added = mSessions[id].tokens
        BY <2>0, <4>1 DEF SessionMeta
      <4> QED BY <4>2, CoverIsPending
    <3>2. RecordCoversCells'
      BY <2>0, <2>2, <3>1, CoverIsPending DEF IsHot
    <3> QED BY <1>1, <2>0, <3>2
  <2> QED BY <1>3, <2>1, <2>2, PrefillTask
<1>4. ASSUME NEW t \in Threads, LoopEnds(t) \/ LoopGenerates(t)
      PROVE  RecordCoversCells' /\ FilesCovered'
  <2>0. /\ UNCHANGED <<mSessions, files>> /\ Decoding(t) /\ task[t].pc = "loop"
        /\ task[t].added \in Nat /\ task[t] \in Task /\ task[t].ctx \in Contexts
        /\ cells \in [Contexts -> Nat]
    BY <1>0, <1>4 DEF LoopEnds, LoopGenerates, Decoding, TaskOK, Task, vars, smVars,
                      EInv, IInv, TypeOK
  <2>1. CASE llama_decode(task[t].ctx, 1) /\ TaskBecomes(t, NextTokenOf(task[t]))
    <3>1. task'[t] = NextTokenOf(task[t])
      BY <2>1, TaskMoves
    <3>2. /\ task'[t].pc = "loop" /\ task'[t].ctx = task[t].ctx
          /\ task'[t].added = task[t].added + 1
      BY <2>0, <3>1 DEF Task, NextTokenOf
    <3>3. cells' = [cells EXCEPT ![task[t].ctx] = @ + 1] /\ Decoding(t)'
      BY <2>1, <3>2 DEF llama_decode, Decoding
    <3> QED BY <1>1, <2>0, <3>2, <3>3, CoverDecodeStep
  <2>2. ASSUME NEW k \in {NoTokenOf(task[t]), LastTokenOf(task[t])}, TaskBecomes(t, k),
               UNCHANGED cells
        PROVE  RecordCoversCells' /\ FilesCovered'
    <3>1. task'[t] = k
      BY <2>2, TaskMoves
    <3>2. /\ task'[t].pc = "recordGenerated" /\ task'[t].ctx = task[t].ctx
          /\ task'[t].added = task[t].added
      BY <2>0, <2>2, <3>1 DEF Task, NoTokenOf, LastTokenOf
    <3>3. Decoding(t)'
      BY <3>2 DEF Decoding
    <3> QED BY <1>1, <2>0, <2>2, <3>2, <3>3, CoverIsPending DEF IsHot
  <2>3. LoopEnds(t) => UNCHANGED cells
    BY DEF LoopEnds, vars, smVars
  <2> QED BY <1>4, <2>1, <2>2, <2>3, LoopTask
<1>5. ASSUME NEW t \in Threads, RecordPrompt(t) \/ RecordGenerated(t)
      PROVE  RecordCoversCells' /\ FilesCovered'
  <2>1. /\ Decoding(t) /\ proc = "up" /\ Record(task[t].id, task[t].n)
        /\ task[t].added <= task[t].n
    BY <1>0, <1>5 DEF RecordPrompt, RecordGenerated, Record, RecordTokens, Ready,
                      Decoding, TaskOK
  <2>2. /\ RecordCoversCells' /\ files' = files
        /\ \A s \in SessionIds : /\ mSessions'[s].state = mSessions[s].state
                                 /\ mSessions'[s].swapFilePath = mSessions[s].swapFilePath
    BY <2>1, CoverRecordStep
  <2> QED BY <2>2 DEF FilesCovered, IsSwapped
<1>6. ASSUME NEW t \in Threads, UsesFreed(t) \/ Race(t)
      PROVE  RecordCoversCells' /\ FilesCovered'
  BY <1>6 DEF UsesFreed, Race, smVars, RecordCoversCells, Decoding, FilesCovered,
              IsHot, IsSwapped
<1>7. CASE Process
  <2>1. \A s \in SessionIds : mSessions'[s].state = "NONE"
    BY <1>7 DEF Process, Crash, ProcessEnds, Restart, smVars, NewMeta, EInv, IInv, FrameOK
  <2> QED BY <2>1 DEF RecordCoversCells, FilesCovered, IsHot, IsSwapped
<1>8. CASE UNCHANGED engineVars
  BY <1>8 DEF engineVars, vars, smVars, RecordCoversCells, Decoding, FilesCovered,
              IsHot, IsSwapped
<1> QED
  BY <1>2, <1>3, <1>4, <1>5, <1>6, <1>7, <1>8 DEF EngineNext, InferStep

(* With one thread, every cell of the KV cache of a HOT session is covered *)
(* by a recorded token or by one the running inference is about to record: *)
(* through failed decodes, prunes, swaps and restarts none is unaccounted. *)
THEOREM CellsAreRecorded ==
  ASSUME OneThread
  PROVE  EngineSpec => []RecordCoversCells
<1>1. EngineInit => RecordCoversCells /\ FilesCovered
  BY DEF EngineInit, Init, NewMeta, RecordCoversCells, FilesCovered, IsHot, IsSwapped
<1>2. EInv /\ ContextHeld /\ RecordCoversCells /\ FilesCovered /\ [EngineNext]_engineVars
        => RecordCoversCells' /\ FilesCovered'
  BY RecordCoversStep
<1> QED
  BY <1>1, <1>2, EngineInvariantHolds, HeldWithOneThread, PTL DEF EngineSpec

-----------------------------------------------------------------------------
(* One thread: the engine is to the manager what SessionManager says of    *)
(* its environment.  Where RecordedCells and cells agree, an action and    *)
(* its instance are the same; the helpers come first.                      *)

LEMMA SameHelpers ==
  /\ Manager!Idle = Idle /\ Manager!Ready = Ready /\ Manager!NoFile = NoFile
  /\ \A s : Manager!NewMeta(s) = NewMeta(s)
  /\ \A f : Manager!LeftOver(f) = LeftOver(f)
  /\ \A i : Manager!IsHot(i) <=> IsHot(i)
  /\ \A i : Manager!IsSwapped(i) <=> IsSwapped(i)
  /\ \A l, i : Manager!Erase(l, i) = Erase(l, i)
  /\ \A n : Manager!StateSize(n) = StateSize(n)
  /\ \A k, n : Manager!Saved(k, n) = Saved(k, n)
  /\ \A a, b : Manager!Smaller(a, b) = Smaller(a, b)
<1>1. Manager!Idle = Idle
  BY DEF Idle, Manager!Idle
<1>2. Manager!Ready = Ready
  BY <1>1, Zenon DEF Ready, Manager!Ready
<1>3. Manager!NoFile = NoFile
  BY DEF NoFile, Manager!NoFile
<1>4. \A s : Manager!NewMeta(s) = NewMeta(s)
  BY DEF NewMeta, Manager!NewMeta
<1>5. \A f : Manager!LeftOver(f) = LeftOver(f)
  BY <1>3, Zenon DEF LeftOver, Manager!LeftOver
<1>6. /\ \A i : Manager!IsHot(i) <=> IsHot(i)
      /\ \A i : Manager!IsSwapped(i) <=> IsSwapped(i)
  BY DEF IsHot, Manager!IsHot, IsSwapped, Manager!IsSwapped
<1>7. \A l, i : Manager!Erase(l, i) = Erase(l, i)
  <2>1. \A l, i : Manager!Position(l, i) = Position(l, i)
    BY Zenon DEF Position, Manager!Position
  <2> QED BY <2>1, Zenon DEF Erase, Manager!Erase
<1>8. \A n : Manager!StateSize(n) = StateSize(n)
  BY Zenon DEF StateSize, Manager!StateSize
<1>9. \A k, n : Manager!Saved(k, n) = Saved(k, n)
  BY DEF Saved, Manager!Saved
<1>10. \A a, b : Manager!Smaller(a, b) = Smaller(a, b)
  BY Zenon DEF Smaller, Manager!Smaller
<1> QED BY <1>1, <1>2, <1>3, <1>4, <1>5, <1>6, <1>7, <1>8, <1>9, <1>10

(* The helpers of the loops.                                               *)
LEMMA SameLoops ==
  /\ Manager!HotVictim = HotVictim /\ Manager!HotIsFull = HotIsFull
  /\ Manager!AfterEvictHot = AfterEvictHot
  /\ Manager!ColdIsOver = ColdIsOver /\ Manager!ColdVictim = ColdVictim
  /\ Manager!SwapInStep = SwapInStep /\ Manager!CutOff = CutOff
  /\ Manager!Victim = Victim
  /\ \A k : Manager!Pruned(k, Manager!ToRemove(k)) = Pruned(k, ToRemove(k))
  /\ \A i : Manager!Loadable(i) <=> Loadable(i)
  /\ \A i : Manager!LeavesCold(i) <=> LeavesCold(i)
  /\ \A i : Manager!Touched(i) = Touched(i)
  /\ \A n : Manager!LimitFor(n) = LimitFor(n)
<1>1. Manager!HotVictim = HotVictim
  BY Zenon DEF HotVictim, Manager!HotVictim, HotExclude, Manager!HotExclude
<1>2. Manager!HotIsFull = HotIsFull
  BY Zenon DEF HotIsFull, Manager!HotIsFull
<1>3. Manager!AfterEvictHot = AfterEvictHot
  BY SameHelpers, Zenon DEF AfterEvictHot, Manager!AfterEvictHot
<1>4. Manager!ColdIsOver = ColdIsOver /\ Manager!ColdVictim = ColdVictim
  BY Zenon DEF ColdIsOver, Manager!ColdIsOver, ColdVictim, Manager!ColdVictim,
               ColdExclude, Manager!ColdExclude
<1>5. Manager!SwapInStep = SwapInStep
  BY Zenon DEF SwapInStep, Manager!SwapInStep
<1>6. Manager!CutOff = CutOff
  BY SameHelpers, Zenon DEF CutOff, Manager!CutOff
<1>7. Manager!Victim = Victim
  BY Zenon DEF Victim, Manager!Victim
<1>8. \A k : Manager!Pruned(k, Manager!ToRemove(k)) = Pruned(k, ToRemove(k))
  BY Zenon DEF Pruned, Manager!Pruned, ToRemove, Manager!ToRemove, Larger, Manager!Larger,
               Smaller, Manager!Smaller
<1>9. \A i : Manager!Loadable(i) <=> Loadable(i)
  BY Zenon DEF Loadable, Manager!Loadable
<1>10. \A i : Manager!LeavesCold(i) <=> LeavesCold(i)
  BY SameHelpers, Zenon DEF LeavesCold, Manager!LeavesCold
<1>11. \A i : Manager!Touched(i) = Touched(i)
  BY SameHelpers, Zenon DEF Touched, Manager!Touched
<1>12. \A n : Manager!LimitFor(n) = LimitFor(n)
  BY Zenon DEF LimitFor, Manager!LimitFor, Larger, Manager!Larger
<1> QED BY <1>1, <1>2, <1>3, <1>4, <1>5, <1>6, <1>7, <1>8, <1>9, <1>10, <1>11, <1>12, Zenon

(* A step of the manager while nothing is decoded that is not recorded.    *)
LEMMA SameStep ==
  ASSUME RecordedCells = cells, RecordedCells' = cells', [Next]_vars
  PROVE  [Manager!Next]_(Manager!vars)
<1> HIDE DEF RecordedCells
<1>0. /\ Manager!VictimCells = VictimCells /\ Manager!Fits = Fits
      /\ Manager!Written = Written
      /\ \A c : Manager!llama_free(c) <=> llama_free(c)
  <2>1. Manager!VictimCells = VictimCells
    BY SameLoops, Zenon DEF VictimCells, Manager!VictimCells
  <2>2. Manager!Fits = Fits
    BY <2>1, SameHelpers, Zenon DEF Fits, Manager!Fits
  <2>3. Manager!Written = Written
    BY <2>1, SameHelpers, SameLoops, Zenon DEF Written, Manager!Written
  <2>4. \A c : Manager!llama_free(c) <=> llama_free(c)
    BY Zenon DEF llama_free, Manager!llama_free
  <2> QED BY <2>1, <2>2, <2>3, <2>4, Zenon
<1>1. CASE UNCHANGED vars
  BY <1>1, Zenon DEF vars, smVars, Manager!vars, Manager!smVars
<1>2. CASE EvictHotPicks \/ EvictHotReturns
  <2>1. EvictHotPicks => Manager!EvictHotPicks
    BY SameLoops, Zenon DEF EvictHotPicks, Manager!EvictHotPicks
  <2>2. EvictHotReturns => Manager!EvictHotReturns
    BY SameLoops, Zenon DEF EvictHotReturns, Manager!EvictHotReturns
  <2> QED BY <1>2, <2>1, <2>2 DEF Manager!Next, Manager!CallStep
<1>3. CASE SwapOutFails \/ SwapOutPrunes \/ SwapOutCompletes
  <2>1. SwapOutFails => Manager!SwapOutFails
    BY SameLoops, Zenon DEF SwapOutFails, Manager!SwapOutFails
  <2>2. SwapOutPrunes => Manager!SwapOutPrunes
    BY <1>0, SameHelpers, SameLoops, Zenon DEF SwapOutPrunes, Manager!SwapOutPrunes
  <2>3. SwapOutCompletes => Manager!SwapOutCompletes
    BY <1>0, SameHelpers, SameLoops, Zenon
    DEF SwapOutCompletes, Manager!SwapOutCompletes, GoesCold, Manager!GoesCold
  <2> QED BY <1>3, <2>1, <2>2, <2>3 DEF Manager!Next, Manager!CallStep
<1>4. \A i : Kill(i) => Manager!Kill(i)
  BY <1>0, SameHelpers, SameLoops, Zenon DEF Kill, Manager!Kill
<1>5. CASE EvictColdKills \/ EvictColdReturns
  <2>1. EvictColdKills => Manager!EvictColdKills
    BY <1>4, SameLoops, Zenon DEF EvictColdKills, Manager!EvictColdKills
  <2>2. EvictColdReturns => Manager!EvictColdReturns
    BY SameHelpers, SameLoops, Zenon DEF EvictColdReturns, Manager!EvictColdReturns
  <2> QED BY <1>5, <2>1, <2>2 DEF Manager!Next, Manager!CallStep
<1>6. CASE SwapInDangles \/ SwapInNoContext \/ SwapInLoadFails
  <2>1. SwapInDangles => Manager!SwapInDangles
    BY SameLoops, Zenon DEF SwapInDangles, Manager!SwapInDangles, smVars, Manager!smVars
  <2>2. SwapInNoContext => Manager!SwapInNoContext
    BY SameHelpers, SameLoops, Zenon DEF SwapInNoContext, Manager!SwapInNoContext
  <2>3. SwapInLoadFails => Manager!SwapInLoadFails
    BY SameHelpers, SameLoops, Zenon DEF SwapInLoadFails, Manager!SwapInLoadFails
  <2> QED BY <1>6, <2>1, <2>2, <2>3 DEF Manager!Next, Manager!CallStep
<1>7. ASSUME NEW c \in Contexts, SwapInNew(c) \/ SwapInLoads(c)
      PROVE  Manager!Next
  <2>1. \A i, k, n : BecomesHot(i, c, k, n) => Manager!BecomesHot(i, c, k, n)
    BY SameHelpers, Zenon DEF BecomesHot, Manager!BecomesHot
  <2>2. SwapInNew(c) => Manager!SwapInNew(c)
    BY <2>1, SameLoops, Zenon DEF SwapInNew, Manager!SwapInNew
  <2>3. SwapInLoads(c) => Manager!SwapInLoads(c)
    BY <2>1, SameHelpers, SameLoops, Zenon DEF SwapInLoads, Manager!SwapInLoads
  <2> QED BY <1>7, <2>2, <2>3 DEF Manager!Next, Manager!CallStep
<1>8. ASSUME NEW id \in SessionIds,
             CreateSession(id) \/ KillSession(id) \/ ActivateHot(id) \/ ActivateCold(id)
      PROVE  Manager!Next
  <2>1. CreateSession(id) => Manager!CreateSession(id)
    BY SameHelpers, Zenon DEF CreateSession, Manager!CreateSession
  <2>2. KillSession(id) => Manager!KillSession(id)
    BY <1>4, SameHelpers, Zenon DEF KillSession, Manager!KillSession
  <2>3. ActivateHot(id) => Manager!ActivateHot(id)
    BY SameHelpers, SameLoops, Zenon DEF ActivateHot, Manager!ActivateHot
  <2>4. ActivateCold(id) => Manager!ActivateCold(id)
    BY SameHelpers, Zenon DEF ActivateCold, Manager!ActivateCold
  <2> QED BY <1>8, <2>1, <2>2, <2>3, <2>4 DEF Manager!Next, Manager!Request
<1>9. ASSUME NEW id \in SessionIds, NEW n \in 0 .. MaxTokens, NEW d \in 0 .. nCtx,
             DecodeAndRecord(id, n, d)
      PROVE  Manager!Next
  <2>1. Manager!RecordTokens(id, n) <=> RecordTokens(id, n)
    BY SameHelpers, SameLoops, Zenon DEF RecordTokens, Manager!RecordTokens
  <2>2. \A c : Manager!llama_decode(c, d) <=> llama_decode(c, d)
    BY Zenon DEF llama_decode, Manager!llama_decode
  <2>3. Manager!DecodeAndRecord(id, n, d)
    BY <1>9, <2>1, <2>2, SameHelpers, Zenon DEF DecodeAndRecord, Manager!DecodeAndRecord
  <2> QED BY <2>3 DEF Manager!Next, Manager!Request
<1>10. CASE (\E count \in HotLimits : SetHotLimit(count)) \/ (\E bytes \in ColdLimits : SetColdLimit(bytes))
  <2>1. \A n : SetHotLimit(n) => Manager!SetHotLimit(n)
    BY SameHelpers, SameLoops, Zenon DEF SetHotLimit, Manager!SetHotLimit
  <2>2. \A n : SetColdLimit(n) => Manager!SetColdLimit(n)
    BY SameHelpers, Zenon DEF SetColdLimit, Manager!SetColdLimit
  <2> QED BY <1>10, <2>1, <2>2 DEF Manager!Next, Manager!Request
<1>11. CASE Lifecycle
  <2>1. ProcessEnds => Manager!ProcessEnds
    BY SameHelpers, Zenon DEF ProcessEnds, Manager!ProcessEnds
  <2>2. Destructor => Manager!Destructor
    BY <2>1, SameHelpers, Zenon DEF Destructor, Manager!Destructor
  <2>3. Crash => Manager!Crash
    BY <2>1, Zenon DEF Crash, Manager!Crash
  <2>4. Restart => Manager!Restart
    BY Zenon DEF Restart, Manager!Restart, smVars, Manager!smVars
  <2> QED BY <1>11, <2>2, <2>3, <2>4 DEF Lifecycle, Manager!Next, Manager!Lifecycle
<1> QED
  BY <1>1, <1>2, <1>3, <1>5, <1>6, <1>7, <1>8, <1>9, <1>10, <1>11
  DEF Next, CallStep, Request

-----------------------------------------------------------------------------
(* The cells the manager is told of, for any cells and tasks.              *)
IsDecoding(k) == k.pc \in {"prefill", "recordPrompt", "loop", "recordGenerated"}

Told(cs, tk) ==
  [c \in Contexts |->
     cs[c] - (IF \E t \in Threads : IsDecoding(tk[t]) /\ tk[t].ctx = c
              THEN tk[CHOOSE t \in Threads : IsDecoding(tk[t]) /\ tk[t].ctx = c].added
              ELSE 0)]

LEMMA RecordedIsTold ==
  RecordedCells = Told(cells, task) /\ RecordedCells' = Told(cells', task')
BY DEF RecordedCells, Told, IsDecoding, Decoding

(* All of them, when no task has news.                                     *)
LEMMA ToldInFull ==
  ASSUME NEW cs \in [Contexts -> Nat], NEW tk,
         \A t \in Threads : IsDecoding(tk[t]) => tk[t].added = 0
  PROVE  Told(cs, tk) = cs
<1>1. ASSUME NEW c \in Contexts PROVE Told(cs, tk)[c] = cs[c]
  <2>0. cs[c] \in Nat /\ cs[c] - 0 = cs[c]
    OBVIOUS
  <2>1. CASE \E t \in Threads : IsDecoding(tk[t]) /\ tk[t].ctx = c
    <3> DEFINE u == CHOOSE t \in Threads : IsDecoding(tk[t]) /\ tk[t].ctx = c
    <3>1. u \in Threads /\ IsDecoding(tk[u])
      BY <2>1, Zenon
    <3>2. tk[u].added = 0
      BY <3>1
    <3>3. Told(cs, tk)[c] = cs[c] - tk[u].added
      BY <2>1, Zenon DEF Told
    <3> HIDE DEF u
    <3> QED BY <2>0, <3>2, <3>3
  <2>2. CASE ~(\E t \in Threads : IsDecoding(tk[t]) /\ tk[t].ctx = c)
    <3>1. Told(cs, tk)[c] = cs[c] - 0
      BY <2>2, Zenon DEF Told
    <3> QED BY <2>0, <3>1
  <2> QED BY <2>1, <2>2
<1>2. Told(cs, tk) = [c \in Contexts |-> Told(cs, tk)[c]]
  BY Zenon DEF Told
<1> QED BY <1>1, <1>2

(* All but the news of the one task there is.                              *)
LEMMA ToldOfOne ==
  ASSUME OneThread, NEW t \in Threads, NEW cs, NEW tk,
         IsDecoding(tk[t]), tk[t].ctx \in Contexts
  PROVE  Told(cs, tk) = [c \in Contexts |-> IF c = tk[t].ctx THEN cs[c] - tk[t].added
                                                            ELSE cs[c] - 0]
<1>1. \A u \in Threads : u = t
  BY DEF OneThread
<1>2. ASSUME NEW c \in Contexts
      PROVE  Told(cs, tk)[c] = IF c = tk[t].ctx THEN cs[c] - tk[t].added ELSE cs[c] - 0
  <2>1. CASE c = tk[t].ctx
    <3>1. \E u \in Threads : IsDecoding(tk[u]) /\ tk[u].ctx = c
      BY <2>1
    <3>2. (CHOOSE u \in Threads : IsDecoding(tk[u]) /\ tk[u].ctx = c) = t
      BY <1>1, <3>1, Zenon
    <3> QED BY <2>1, <3>1, <3>2, Zenon DEF Told
  <2>2. CASE c # tk[t].ctx
    <3>1. ~(\E u \in Threads : IsDecoding(tk[u]) /\ tk[u].ctx = c)
      BY <1>1, <2>2
    <3> QED BY <2>2, <3>1, Zenon DEF Told
  <2> QED BY <2>1, <2>2
<1>3. Told(cs, tk) = [c \in Contexts |-> Told(cs, tk)[c]]
  BY Zenon DEF Told
<1> QED BY <1>2, <1>3

-----------------------------------------------------------------------------
(* The inductive invariant of the refinement.                              *)

(* What a task has decoded since it last recorded is in its context, and   *)
(* is what it is about to record, but for the token whose decode failed.   *)
Pending(t) ==
  IsDecoding(task[t]) =>
    /\ proc = "up"
    /\ task[t].added <= cells[task[t].ctx]
    /\ \/ task[t].pc = "prefill"
       \/ task[t].n = task[t].added
       \/ /\ task[t].pc = "recordGenerated" /\ task[t].n = task[t].added + 1
          /\ "decode" \in Faults \/ cells[task[t].ctx] = nCtx

RefInv == CellsFit /\ \A t \in Threads : Pending(t)

(* The steps of a thread that is not decoding.                             *)
Outside(t) ==
  \/ Manage(t) \/ Activate(t) \/ InManager(t)
  \/ \E id \in SessionIds, p \in PromptLens, m \in MaxNews : Infer(t, id, p, m)

(* Such a thread has a context without news at most, before and after.     *)
LEMMA OutsideStep ==
  ASSUME OneThread, EInv, NEW t \in Threads, Outside(t)
  PROVE  /\ [Next]_vars /\ ~IsDecoding(task[t])
         /\ IsDecoding(task'[t]) => task'[t].pc = "prefill" /\ task'[t].added = 0 /\ proc' = "up"
<1>0. /\ task \in [Threads -> Task] /\ task[t] \in Task /\ TaskOK(task[t])
  BY DEF EInv
<1>1. ASSUME NEW k, TaskBecomes(t, k) PROVE task'[t] = k
  BY <1>1, TaskMoves
<1>2. ASSUME NEW c, TaskBecomes(t, [task[t] EXCEPT !.pc = "prefill", !.ctx = c])
      PROVE  task'[t].pc = "prefill" /\ task'[t].added = 0
  <2>1. task'[t] = [task[t] EXCEPT !.pc = "prefill", !.ctx = c]
    BY <1>1, <1>2
  <2>2. task'[t].pc = "prefill"
    BY <1>0, <2>1 DEF Task
  <2>3. TaskOK(task'[t])
    BY <1>2, <2>1 DEF TaskBecomes
  <2> QED BY <2>2, <2>3 DEF TaskOK
<1>3. CASE Manage(t)
  <2>1. [Next]_vars /\ task[t].pc = "idle"
    BY <1>3 DEF Manage, ManageSession, SetLimit, Next, Request
  <2>2. CASE ManageSession(t)
    BY <2>1, <2>2 DEF ManageSession, IsDecoding
  <2>3. CASE SetLimit(t)
    <3>1. task'[t] = [IdleTask EXCEPT !.pc = "limit"]
      BY <1>0, <2>3 DEF SetLimit
    <3>2. task'[t].pc = "limit"
      BY <3>1 DEF IdleTask
    <3> QED BY <2>1, <3>2 DEF IsDecoding
  <2> QED BY <1>3, <2>2, <2>3 DEF Manage
<1>4. CASE Activate(t)
  <2>1. task[t].id \in SessionIds /\ task[t].pc = "enter"
    BY <1>0, <1>4 DEF Activate, TaskOK
  <2>2. /\ \/ UNCHANGED vars
           \/ ActivateHot(task[t].id) \/ ActivateCold(task[t].id)
        /\ proc' = "up"
    BY <1>4 DEF Activate, ActivateHot, ActivateCold, Ready, vars, smVars
  <2>3. [Next]_vars
    BY <2>1, <2>2 DEF Next, Request
  <2>4. \/ task'[t].pc = "prefill" /\ task'[t].added = 0
        \/ task'[t].pc \in {"idle", "activate"}
    <3>1. CASE TaskBecomes(t, Returned(t, "false")) /\ Returned(t, "false").pc = "idle"
      BY <1>1, <3>1
    <3>2. CASE TaskBecomes(t, [task[t] EXCEPT !.pc = "prefill",
                                              !.ctx = mSessions[task[t].id].ctx])
      BY <1>2, <3>2
    <3>3. CASE TaskBecomes(t, [task[t] EXCEPT !.pc = "activate"])
      BY <1>0, <1>1, <3>3 DEF Task
    <3> QED BY <1>4, <3>1, <3>2, <3>3, ActivateTask
  <2> QED BY <2>1, <2>2, <2>3, <2>4 DEF IsDecoding
<1>5. CASE InManager(t)
  <2>1. [Next]_vars
    BY <1>5 DEF InManager, Next
  <2>2. task[t].pc \in {"activate", "limit"}
    BY <1>5 DEF InManager, EInv, HolderOK
  <2>3. CASE UNCHANGED task
    BY <2>1, <2>2, <2>3 DEF IsDecoding
  <2>4. CASE TaskBecomes(t, IdleTask) \/ TaskBecomes(t, Returned(t, "false"))
    <3>1. IdleTask.pc = "idle" /\ Returned(t, "false").pc = "idle"
      BY DEF Returned, IdleTask
    <3>2. task'[t].pc = "idle"
      BY <1>1, <2>4, <3>1, Zenon
    <3> QED BY <2>1, <2>2, <3>2 DEF IsDecoding
  <2>5. CASE /\ proc' = "up"
             /\ TaskBecomes(t, [task[t] EXCEPT !.pc = "prefill", !.ctx = mSessions'[call.id].ctx])
    BY <1>2, <2>1, <2>2, <2>5 DEF IsDecoding
  <2> QED BY <1>5, <2>3, <2>4, <2>5, InManagerTask
<1>6. ASSUME NEW id \in SessionIds, NEW p \in PromptLens, NEW m \in MaxNews, Infer(t, id, p, m)
      PROVE  UNCHANGED vars /\ task[t].pc = "idle" /\ task'[t].pc = "enter"
  BY <1>1, <1>6, InferTask DEF Infer
<1> QED BY <1>3, <1>4, <1>5, <1>6 DEF Outside, IsDecoding

(* The step of a thread that is decoding.                                  *)
Inside(t) ==
  \/ Prefill(t) \/ LoopEnds(t) \/ LoopGenerates(t) \/ RecordPrompt(t) \/ RecordGenerated(t)

LEMMA StepsOfOne ==
  ASSUME OneThread, EInv, ContextHeld, [EngineNext]_engineVars
  PROVE  \/ \E t \in Threads : Outside(t) \/ Inside(t)
         \/ Process \/ UNCHANGED engineVars
<1>1. ASSUME NEW t \in Threads, UsesFreed(t) PROVE FALSE
  <2>1. proc = "up" /\ Decoding(t) /\ task[t].ctx \notin live /\ task[t].id \in SessionIds
    BY <1>1 DEF UsesFreed, Decoding, EInv, TaskOK
  <2>2. IsHot(task[t].id) /\ mSessions[task[t].id].ctx = task[t].ctx
    BY <2>1 DEF ContextHeld, IsHot
  <2> QED BY <2>1, <2>2 DEF EInv, IInv, ContextsOwned
<1>2. ASSUME NEW t \in Threads, Race(t) PROVE FALSE
  BY <1>2 DEF Race, OneThread
<1> QED BY <1>1, <1>2 DEF EngineNext, InferStep, Outside, Inside

(* What such a step is: d cells and no record, a record and no cell, or    *)
(* the end of an inference whose prompt does not fit.                      *)
Decodes(t, d) ==
  /\ IsDecoding(task[t]) /\ IsDecoding(task'[t])
  /\ task'[t].ctx = task[t].ctx /\ task'[t].added = task[t].added + d
  /\ cells' = [cells EXCEPT ![task[t].ctx] = @ + d]
  /\ \/ task'[t].n = task'[t].added
     \/ /\ task'[t].pc = "recordGenerated" /\ task'[t].n = task'[t].added + 1
        /\ "decode" \in Faults \/ cells'[task[t].ctx] = nCtx
  /\ cells[task[t].ctx] + d <= nCtx
  /\ proc = "up"
  /\ UNCHANGED <<mSessions, mHotLru, mColdLru, mHotLimit, mColdLimitBytes,
                 mColdUsedBytes, live, files, call, proc>>

Notes(t) ==
  /\ task[t].pc \in {"recordPrompt", "recordGenerated"}
  /\ Record(task[t].id, task[t].n)
  /\ IsDecoding(task'[t]) => task'[t].n = 0 /\ task'[t].added = 0 /\ task'[t].ctx = task[t].ctx

GivesUp(t) ==
  /\ task[t].pc = "prefill" /\ task[t].added = 0 /\ ~IsDecoding(task'[t])
  /\ UNCHANGED vars

LEMMA InsideStep ==
  ASSUME EInv, CellsFit, NEW t \in Threads, Pending(t), Inside(t)
  PROVE  GivesUp(t) \/ Notes(t) \/ \E d \in Nat : Decodes(t, d)
<1> DEFINE c == task[t].ctx
           n == task[t].n
           a == task[t].added
<1>0. /\ task \in [Threads -> Task] /\ task[t] \in Task /\ TaskOK(task[t])
      /\ n \in Nat /\ a \in Nat /\ cells \in [Contexts -> Nat]
      /\ IsDecoding(task[t]) /\ c \in Contexts /\ cells[c] \in Nat /\ cells[c] <= nCtx
      /\ nCtx \in Nat
  BY ConstantsAssumption
  DEF EInv, IInv, TypeOK, Inside, Prefill, LoopEnds, LoopGenerates, RecordPrompt, RecordGenerated,
      IsDecoding, TaskOK, Task, CellsFit
<1>1. ASSUME NEW k, TaskBecomes(t, k) PROVE task'[t] = k
  BY <1>1, TaskMoves
<1>2. cells = [cells EXCEPT ![c] = @ + 0]
  <2> HIDE DEF c
  <2> QED BY <1>0
<1>3. CASE Prefill(t)
  <2>0. /\ proc = "up" /\ task[t].pc = "prefill" /\ a = 0
        /\ UNCHANGED <<mSessions, mHotLru, mColdLru, mHotLimit, mColdLimitBytes,
                       mColdUsedBytes, live, files, call, proc>>
    BY <1>0, <1>3 DEF Prefill, TaskOK
  <2>1. CASE /\ llama_decode(c, n)
             /\ TaskBecomes(t, [task[t] EXCEPT !.pc = "recordPrompt", !.added = n])
    <3>1. task'[t] = [task[t] EXCEPT !.pc = "recordPrompt", !.added = n]
      BY <1>1, <2>1
    <3>2. /\ task'[t].pc = "recordPrompt" /\ task'[t].added = n /\ task'[t].n = n
          /\ task'[t].ctx = c
      BY <1>0, <3>1 DEF Task
    <3>3. cells' = [cells EXCEPT ![c] = @ + n] /\ cells[c] + n <= nCtx
      BY <2>1 DEF llama_decode
    <3>4. n = a + n /\ IsDecoding(task'[t])
      BY <1>0, <2>0, <3>2 DEF IsDecoding
    <3> HIDE DEF c, n, a
    <3>5. Decodes(t, n)
      BY <1>0, <2>0, <3>2, <3>3, <3>4 DEF Decodes, c, n, a
    <3> QED BY <1>0, <3>5
  <2>2. CASE /\ UNCHANGED cells
             /\ TaskBecomes(t, Returned(t, "false")) /\ Returned(t, "false").pc = "idle"
    <3>1. task'[t].pc = "idle"
      BY <1>1, <2>2
    <3>2. GivesUp(t)
      BY <2>0, <2>2, <3>1 DEF GivesUp, IsDecoding, vars, smVars
    <3> QED BY <3>2
  <2> QED BY <1>3, <2>1, <2>2, PrefillTask
<1>4. CASE RecordPrompt(t)
  <2>1. task'[t] = [task[t] EXCEPT !.pc = "loop", !.n = 0, !.added = 0]
    BY <1>1, <1>4, RecordTask
  <2>2. task'[t].n = 0 /\ task'[t].added = 0 /\ task'[t].ctx = c
    BY <1>0, <2>1 DEF Task
  <2> QED BY <1>4, <2>2 DEF RecordPrompt, Notes
<1>5. CASE RecordGenerated(t)
  <2>1. task'[t].pc = "idle"
    <3>1. Returned(t, "true").pc = "idle"
      BY DEF Returned, IdleTask
    <3> QED BY <1>1, <1>5, <3>1, RecordTask, Zenon
  <2> QED BY <1>5, <2>1 DEF RecordGenerated, Notes, IsDecoding
<1>6. CASE LoopEnds(t) \/ LoopGenerates(t)
  <2>0. /\ proc = "up" /\ task[t].pc = "loop" /\ n = a
        /\ UNCHANGED <<mSessions, mHotLru, mColdLru, mHotLimit, mColdLimitBytes,
                       mColdUsedBytes, live, files, call, proc>>
    BY <1>0, <1>6 DEF LoopEnds, LoopGenerates, Pending, vars, smVars
  <2>1. CASE LoopEnds(t)
    <3>1. task'[t] = NoTokenOf(task[t]) /\ cells' = cells
      BY <1>1, <2>1, LoopTask DEF LoopEnds, vars, smVars
    <3>2. /\ task'[t].pc = "recordGenerated" /\ task'[t].added = a /\ task'[t].n = n
          /\ task'[t].ctx = c
      BY <1>0, <3>1 DEF Task, NoTokenOf
    <3>3. a + 0 = a /\ cells[c] + 0 <= nCtx /\ IsDecoding(task'[t])
      BY <1>0, <3>2 DEF IsDecoding
    <3>4. Decodes(t, 0)
      <4> HIDE DEF c, n, a
      <4> QED BY <1>0, <1>2, <2>0, <3>1, <3>2, <3>3 DEF Decodes, c, n, a
    <3> QED BY <3>4
  <2>2. CASE llama_decode(c, 1) /\ TaskBecomes(t, NextTokenOf(task[t]))
    <3>1. task'[t] = NextTokenOf(task[t])
      BY <1>1, <2>2
    <3>2. /\ task'[t].pc = "loop" /\ task'[t].added = a + 1 /\ task'[t].n = n + 1
          /\ task'[t].ctx = c
      BY <1>0, <2>0, <3>1 DEF Task, NextTokenOf
    <3>3. cells' = [cells EXCEPT ![c] = @ + 1] /\ cells[c] + 1 <= nCtx /\ IsDecoding(task'[t])
      BY <2>2, <3>2 DEF llama_decode, IsDecoding
    <3>4. Decodes(t, 1)
      <4> HIDE DEF c, n, a
      <4> QED BY <1>0, <2>0, <3>2, <3>3 DEF Decodes, c, n, a
    <3> QED BY <3>4
  <2>3. CASE /\ DecodeMayFail(c, 1) /\ UNCHANGED cells
             /\ TaskBecomes(t, LastTokenOf(task[t]))
    <3>1. task'[t] = LastTokenOf(task[t])
      BY <1>1, <2>3
    <3>2. /\ task'[t].pc = "recordGenerated" /\ task'[t].added = a /\ task'[t].n = n + 1
          /\ task'[t].ctx = c
      BY <1>0, <2>0, <3>1 DEF Task, LastTokenOf
    <3>3. "decode" \in Faults \/ cells'[c] = nCtx
      BY <1>0, <2>3 DEF DecodeMayFail
    <3>4. a + 0 = a /\ cells[c] + 0 <= nCtx /\ IsDecoding(task'[t])
      BY <1>0, <3>2 DEF IsDecoding
    <3>5. Decodes(t, 0)
      <4> HIDE DEF c, n, a
      <4> QED BY <1>0, <1>2, <2>0, <2>3, <3>2, <3>3, <3>4 DEF Decodes, c, n, a
    <3> QED BY <3>5
  <2> QED BY <1>6, <2>1, <2>2, <2>3, LoopTask
<1> QED BY <1>3, <1>4, <1>5, <1>6 DEF Inside

LEMMA RefInvKept ==
  ASSUME OneThread, EInv, EInv', ContextHeld, RefInv, [EngineNext]_engineVars
  PROVE  RefInv'
<1>0. /\ cells \in [Contexts -> Nat] /\ files \in [SessionIds -> File] /\ IInv
      /\ cells' \in [Contexts -> Nat] /\ task' \in [Threads -> Task]
      /\ CellsFit /\ \A t \in Threads : Pending(t) /\ TaskOK(task'[t]) /\ TaskOK(task[t])
  BY DEF EInv, IInv, TypeOK, RefInv
<1>1. ASSUME NEW t \in Threads, Outside(t) PROVE RefInv'
  <2>1. /\ [Next]_vars
        /\ IsDecoding(task'[t]) => task'[t].pc = "prefill" /\ task'[t].added = 0 /\ proc' = "up"
    BY <1>1, OutsideStep
  <2>2. CellsFit'
    BY <1>0, <2>1, CellsFitStep
  <2>3. IsDecoding(task'[t]) => task'[t].added <= cells'[task'[t].ctx]
    <3>1. IsDecoding(task'[t]) => task'[t].ctx \in Contexts
      BY <1>0 DEF TaskOK, IsDecoding
    <3>2. IsDecoding(task'[t]) => cells'[task'[t].ctx] \in Nat
      BY <1>0, <3>1
    <3> QED BY <2>1, <3>2
  <2>4. Pending(t)'
    BY <2>1, <2>3 DEF Pending
  <2>5. \A u \in Threads : u = t
    BY DEF OneThread
  <2> QED BY <2>2, <2>4, <2>5 DEF RefInv
<1>2. ASSUME NEW t \in Threads, Inside(t) PROVE RefInv'
  <2>0. \A u \in Threads : u = t
    BY DEF OneThread
  <2>1. CASE GivesUp(t)
    <3>1. CellsFit'
      BY <1>0, <2>1 DEF GivesUp, CellsFit, vars, smVars
    <3>2. Pending(t)'
      BY <2>1 DEF GivesUp, Pending
    <3> QED BY <2>0, <3>1, <3>2 DEF RefInv
  <2>2. CASE Notes(t)
    <3>1. UNCHANGED <<cells, files>> /\ proc' = "up"
      BY <2>2 DEF Notes, Record, RecordTokens, Ready, vars, smVars
    <3>2. CellsFit'
      BY <1>0, <3>1 DEF CellsFit
    <3>3. IsDecoding(task'[t]) => /\ task'[t].n = 0 /\ task'[t].added = 0
                                  /\ task'[t].added <= cells'[task'[t].ctx]
      <4>1. IsDecoding(task'[t]) => cells'[task'[t].ctx] \in Nat
        BY <1>0 DEF TaskOK, IsDecoding
      <4> QED BY <2>2, <4>1 DEF Notes
    <3>4. Pending(t)'
      BY <3>1, <3>3 DEF Pending
    <3> QED BY <2>0, <3>2, <3>4 DEF RefInv
  <2>3. ASSUME NEW d \in Nat, Decodes(t, d) PROVE RefInv'
    <3> DEFINE c == task[t].ctx
               a == task[t].added
               more == cells[c] + d
    <3>1. /\ c \in Contexts /\ cells[c] \in Nat /\ a \in Nat /\ a <= cells[c]
          /\ more <= nCtx /\ cells' = [cells EXCEPT ![c] = more] /\ cells'[c] = more
          /\ files' = files /\ proc' = "up"
          /\ task'[t].ctx = c /\ task'[t].added = a + d
      <4>1. c \in Contexts /\ a \in Nat
        BY <1>0, <2>3 DEF Decodes, TaskOK, IsDecoding, Task, EInv
      <4> QED BY <1>0, <2>3, <4>1 DEF Decodes, Pending
    <3>2. CellsFit'
      <4>1. OneContext /\ OneFile
        <5> HIDE DEF more, c
        <5> QED BY <3>1 DEF OneContext, OneFile
      <4> QED BY <1>0, <4>1, FitKept
    <3>3. a + d <= more
      <4> HIDE DEF a, c
      <4> QED BY <3>1
    <3>4. Pending(t)'
      <4>1. \/ task'[t].n = task'[t].added
            \/ /\ task'[t].pc = "recordGenerated" /\ task'[t].n = task'[t].added + 1
               /\ "decode" \in Faults \/ cells'[c] = nCtx
        BY <2>3 DEF Decodes
      <4> HIDE DEF a, c, more
      <4> QED BY <3>1, <3>3, <4>1 DEF Pending
    <3> QED BY <2>0, <3>2, <3>4 DEF RefInv
  <2> QED BY <1>0, <1>2, <2>1, <2>2, <2>3, InsideStep
<1>3. CASE Process
  <2>1. [Next]_vars
    BY <1>3 DEF Process, Next, Lifecycle
  <2>2. CellsFit'
    BY <1>0, <2>1, CellsFitStep
  <2>3. \A t \in Threads : ~IsDecoding(task'[t])
    BY <1>3 DEF Process, IdleTask, IsDecoding
  <2> QED BY <2>2, <2>3 DEF RefInv, Pending
<1>4. CASE UNCHANGED engineVars
  BY <1>0, <1>4 DEF engineVars, vars, smVars, RefInv, CellsFit, Pending
<1> QED BY <1>1, <1>2, <1>3, <1>4, StepsOfOne

-----------------------------------------------------------------------------
(* The refinement, step by step.                                           *)

(* The end of a process, in the middle of an inference too.                *)
LEMMA CrashMaps ==
  ASSUME RecordedCells' = cells', Crash
  PROVE  Manager!Next
<1> HIDE DEF RecordedCells
<1>1. ProcessEnds => Manager!ProcessEnds
  BY SameHelpers, Zenon DEF ProcessEnds, Manager!ProcessEnds
<1>2. Manager!Crash
  BY <1>1, Zenon DEF Crash, Manager!Crash
<1> QED BY <1>2 DEF Manager!Next, Manager!Lifecycle

(* llama_decode is a step the manager does not see.                        *)
LEMMA DecodeMaps ==
  ASSUME OneThread, EInv, EInv', NEW t \in Threads, NEW d \in Nat, Decodes(t, d)
  PROVE  UNCHANGED Manager!vars
<1> DEFINE c == task[t].ctx
           a == task[t].added
           b == task'[t].added
<1>1. /\ c \in Contexts /\ a \in Nat /\ cells \in [Contexts -> Nat]
      /\ IsDecoding(task[t]) /\ IsDecoding(task'[t]) /\ task'[t].ctx = c
      /\ b = a + d /\ cells' = [cells EXCEPT ![c] = @ + d]
  BY DEF Decodes, EInv, IInv, TypeOK, TaskOK, IsDecoding, Task
<1>2. RecordedCells = [x \in Contexts |-> IF x = c THEN cells[x] - a ELSE cells[x] - 0]
  BY <1>1, RecordedIsTold, ToldOfOne
<1>3. RecordedCells' = [x \in Contexts |-> IF x = c THEN cells'[x] - b ELSE cells'[x] - 0]
  <2>1. task'[t].ctx \in Contexts /\ task'[t].ctx = c /\ IsDecoding(task'[t])
    BY <1>1
  <2>2. Told(cells', task') = [x \in Contexts |-> IF x = task'[t].ctx
                                                   THEN cells'[x] - task'[t].added
                                                   ELSE cells'[x] - 0]
    BY <2>1, ToldOfOne
  <2> HIDE DEF c
  <2> QED BY <2>1, <2>2, RecordedIsTold, Zenon
<1> HIDE DEF RecordedCells, a, b, c
<1>4. ASSUME NEW x \in Contexts PROVE RecordedCells'[x] = RecordedCells[x]
  <2>0. cells[x] \in Nat
    BY <1>1
  <2>1. CASE x = c
    <3>1. cells'[x] = cells[x] + d
      BY <1>1, <2>1
    <3>2. (cells[x] + d) - (a + d) = cells[x] - a
      BY <1>1, <2>0
    <3> QED BY <1>1, <1>2, <1>3, <2>1, <3>1, <3>2
  <2>2. CASE x # c
    <3>1. cells'[x] = cells[x]
      BY <1>1, <2>2
    <3> QED BY <1>2, <1>3, <2>2, <3>1
  <2> QED BY <2>1, <2>2
<1>5. RecordedCells' = RecordedCells
  <2>1. /\ RecordedCells = [x \in Contexts |-> RecordedCells[x]]
        /\ RecordedCells' = [x \in Contexts |-> RecordedCells'[x]]
    BY <1>2, <1>3
  <2> QED BY <1>4, <2>1
<1> QED BY <1>5, Zenon DEF Decodes, Manager!vars, Manager!smVars

(* recordTokens is where the manager sees what has been decoded.           *)
LEMMA NoteMaps ==
  ASSUME OneThread, EInv, EInv', ContextHeld, RefInv, NEW t \in Threads, Notes(t)
  PROVE  Manager!Next
<1> DEFINE c == task[t].ctx
           a == task[t].added
           n == task[t].n
           id == task[t].id
<1>1. /\ c \in Contexts /\ a \in Nat /\ n \in Nat /\ id \in SessionIds
      /\ cells \in [Contexts -> Nat] /\ cells[c] \in Nat
      /\ IsDecoding(task[t]) /\ proc = "up" /\ nCtx \in Nat /\ MaxTokens \in Nat
      /\ mSessions \in [SessionIds -> SessionMeta]
  BY ConstantsAssumption DEF Notes, Record, RecordTokens, Ready, EInv, IInv, TypeOK, TaskOK,
                             IsDecoding, Task
<1>2. IsHot(id) /\ mSessions[id].ctx = c
  BY <1>1 DEF ContextHeld, Decoding, IsDecoding, IsHot
<1>3. RecordTokens(id, n) /\ cells' = cells
  BY <1>2 DEF Notes, Record, IsHot
<1>4. n \in 0 .. MaxTokens
  <2>1. mSessions[id].tokens \in Nat /\ mSessions[id].tokens + n <= MaxTokens
    BY <1>1, <1>3 DEF RecordTokens, SessionMeta
  <2> HIDE DEF n, id
  <2> QED BY <1>1, <2>1
<1>5. /\ a <= cells[c] /\ cells[c] <= nCtx
      /\ a = n \/ (n = a + 1 /\ ("decode" \in Faults \/ cells[c] = nCtx))
  BY <1>1 DEF RefInv, CellsFit, Pending, Notes
<1>6. a \in 0 .. nCtx
  <2> HIDE DEF a, c
  <2> QED BY <1>1, <1>5
<1>7. RecordedCells = [x \in Contexts |-> IF x = c THEN cells[x] - a ELSE cells[x] - 0]
  BY <1>1, RecordedIsTold, ToldOfOne
<1>8. RecordedCells' = cells'
  <2>1. \A u \in Threads : IsDecoding(task'[u]) => task'[u].added = 0
    BY DEF OneThread, Notes
  <2>2. cells' \in [Contexts -> Nat]
    BY DEF EInv, IInv, TypeOK
  <2> QED BY <2>1, <2>2, RecordedIsTold, ToldInFull
<1> HIDE DEF RecordedCells
<1>9. RecordedCells[c] + a = cells[c]
  <2>1. RecordedCells[c] = cells[c] - a
    BY <1>1, <1>7
  <2> HIDE DEF a, c
  <2> QED BY <1>1, <2>1
<1>10. Manager!llama_decode(c, a)
  <2>1. RecordedCells' = [RecordedCells EXCEPT ![c] = @ + a]
    <3> DEFINE r == [RecordedCells EXCEPT ![c] = RecordedCells[c] + a]
    <3>1. ASSUME NEW x \in Contexts PROVE r[x] = cells[x]
      <4>1. cells[x] \in Nat
        BY <1>1
      <4>2. CASE x = c
        BY <1>1, <1>7, <1>9, <4>2
      <4>3. CASE x # c
        <5>1. r[x] = RecordedCells[x] /\ RecordedCells[x] = cells[x] - 0
          BY <1>7, <4>3
        <5> QED BY <4>1, <5>1
      <4> QED BY <4>2, <4>3
    <3>2. r = [x \in Contexts |-> r[x]]
      BY <1>7
    <3> HIDE DEF r
    <3>3. r = cells
      BY <1>1, <3>1, <3>2
    <3> QED BY <1>3, <1>8, <3>3 DEF r
  <2>2. RecordedCells[c] + a <= nCtx
    BY <1>5, <1>9
  <2> QED BY <2>1, <2>2 DEF Manager!llama_decode
<1>11. Manager!RecordTokens(id, n)
  BY <1>3, SameHelpers, SameLoops, Zenon DEF RecordTokens, Manager!RecordTokens
<1>12. \/ a = n
       \/ a = n - 1 /\ ("decode" \in Faults \/ RecordedCells[mSessions[id].ctx] + a = nCtx)
  <2>1. n = a + 1 => a = n - 1
    <3> HIDE DEF a, n
    <3> QED BY <1>1
  <2> QED BY <1>2, <1>5, <1>9, <2>1
<1> HIDE DEF a, n, c, id
<1>13. Manager!DecodeAndRecord(id, n, a)
  BY <1>2, <1>10, <1>11, <1>12, SameHelpers DEF Manager!DecodeAndRecord
<1> QED BY <1>1, <1>4, <1>6, <1>13 DEF Manager!Next, Manager!Request

LEMMA StepMaps ==
  ASSUME OneThread, EInv, EInv', ContextHeld, RefInv, [EngineNext]_engineVars
  PROVE  [Manager!Next]_(Manager!vars)
<1>0. cells \in [Contexts -> Nat] /\ cells' \in [Contexts -> Nat]
  BY DEF EInv, IInv, TypeOK
<1>1. (\A u \in Threads : IsDecoding(task[u]) => task[u].added = 0) => RecordedCells = cells
  BY <1>0, RecordedIsTold, ToldInFull
<1>2. (\A u \in Threads : IsDecoding(task'[u]) => task'[u].added = 0) => RecordedCells' = cells'
  BY <1>0, RecordedIsTold, ToldInFull
<1> HIDE DEF RecordedCells
<1>3. ASSUME NEW t \in Threads, Outside(t) PROVE [Manager!Next]_(Manager!vars)
  <2>1. \A u \in Threads : u = t
    BY DEF OneThread
  <2>2. /\ [Next]_vars /\ ~IsDecoding(task[t])
        /\ IsDecoding(task'[t]) => task'[t].added = 0
    BY <1>3, OutsideStep
  <2>3. RecordedCells = cells /\ RecordedCells' = cells'
    BY <1>1, <1>2, <2>1, <2>2
  <2> QED BY <2>2, <2>3, SameStep
<1>4. ASSUME NEW t \in Threads, Inside(t) PROVE [Manager!Next]_(Manager!vars)
  <2>1. \A u \in Threads : u = t
    BY DEF OneThread
  <2>2. CASE GivesUp(t)
    <3>1. RecordedCells = cells /\ RecordedCells' = cells' /\ [Next]_vars
      BY <1>1, <1>2, <2>1, <2>2 DEF GivesUp
    <3> QED BY <3>1, SameStep
  <2> QED BY <1>4, <2>2, InsideStep, DecodeMaps, NoteMaps DEF RefInv
<1>5. CASE Process
  <2>1. \A u \in Threads : ~IsDecoding(task'[u])
    BY <1>5 DEF Process, IdleTask, IsDecoding
  <2>2. RecordedCells' = cells'
    BY <1>2, <2>1
  <2>3. CASE Crash
    BY <2>2, <2>3, CrashMaps
  <2>4. CASE Restart
    <3>1. \A u \in Threads : ~IsDecoding(task[u])
      BY <2>4 DEF Restart, RefInv, Pending
    <3>2. RecordedCells = cells /\ [Next]_vars
      BY <1>1, <2>4, <3>1 DEF Next, Lifecycle
    <3> QED BY <2>2, <3>2, SameStep
  <2> QED BY <1>5, <2>3, <2>4 DEF Process
<1>6. CASE UNCHANGED engineVars
  <2>1. RecordedCells' = RecordedCells
    BY <1>6, RecordedIsTold DEF engineVars, vars, smVars
  <2> QED BY <1>6, <2>1, Zenon DEF engineVars, vars, smVars, Manager!vars, Manager!smVars
<1> QED BY <1>3, <1>4, <1>5, <1>6, StepsOfOne

(* With one thread, an engine that decodes token by token and records at   *)
(* two points is, to the manager, an environment that does both at once:   *)
(* the safety part of ImplementsManager.                                   *)
THEOREM EngineImplementsManager ==
  ASSUME OneThread
  PROVE  EngineSpec => Manager!Init /\ [][Manager!Next]_(Manager!vars)
<1>1. EngineInit => RefInv /\ Manager!Init
  <2> SUFFICES ASSUME EngineInit PROVE RefInv /\ Manager!Init
    OBVIOUS
  <2>1. Init /\ \A t \in Threads : ~IsDecoding(task[t])
    BY DEF EngineInit, IdleTask, IsDecoding
  <2>2. RefInv
    BY <2>1, ConstantsAssumption DEF Init, NoFile, RefInv, CellsFit, Pending
  <2>3. RecordedCells = cells
    <3>1. cells \in [Contexts -> Nat]
      BY <2>1 DEF Init
    <3> QED BY <2>1, <3>1, RecordedIsTold, ToldInFull
  <2> HIDE DEF RecordedCells
  <2>4. Manager!Init
    BY <2>1, <2>3, SameHelpers, Zenon DEF Init, Manager!Init
  <2> QED BY <2>2, <2>4
<1>2. EInv /\ EInv' /\ ContextHeld /\ RefInv /\ [EngineNext]_engineVars => RefInv'
  BY RefInvKept
<1>3. EInv /\ EInv' /\ ContextHeld /\ RefInv /\ [EngineNext]_engineVars
        => [Manager!Next]_(Manager!vars)
  BY StepMaps
<1> QED
  BY <1>1, <1>2, <1>3, EngineInvariantHolds, HeldWithOneThread, PTL DEF EngineSpec

-----------------------------------------------------------------------------
(* The manager under the engine, for any number of threads: decoding adds  *)
(* cells to contexts, and a late recordTokens adds tokens to a session,    *)
(* whatever state it is in by then; neither moves a session.               *)

(* What recordTokens leaves alone.                                         *)
LEMMA RecordsOnlyTokens ==
  ASSUME IInv, Records
  PROVE  /\ UNCHANGED <<mColdLru, mHotLimit, mColdLimitBytes, mColdUsedBytes,
                        live, cells, files, call, proc>>
         /\ call = Idle
         /\ Len(mHotLru') = Len(mHotLru)
         /\ \A s \in SessionIds :
              /\ mSessions'[s].state = mSessions[s].state
              /\ mSessions'[s].swapFilePath = mSessions[s].swapFilePath
              /\ mSessions'[s].swapFileBytes = mSessions[s].swapFileBytes
              /\ mSessions'[s].tokens >= mSessions[s].tokens
<1>1. PICK id \in SessionIds, n \in Nat : RecordTokens(id, n) /\ UNCHANGED cells
  BY DEF Records
<1>2. mSessions \in [SessionIds -> SessionMeta] /\ mSessions[id].tokens \in Nat
  BY DEF IInv, TypeOK, SessionMeta
<1>3. /\ mSessions' = [mSessions EXCEPT ![id].tokens = @ + n]
      /\ mHotLru' = IF IsHot(id) THEN Touched(id) ELSE mHotLru
      /\ call = Idle
      /\ UNCHANGED <<mColdLru, mHotLimit, mColdLimitBytes, mColdUsedBytes,
                     live, files, call, proc>>
  BY <1>1 DEF RecordTokens, Ready
<1>4. Len(mHotLru') = Len(mHotLru)
  BY <1>3, TouchedPermutes
<1>5. \A s \in SessionIds :
        /\ mSessions'[s].state = mSessions[s].state
        /\ mSessions'[s].swapFilePath = mSessions[s].swapFilePath
        /\ mSessions'[s].swapFileBytes = mSessions[s].swapFileBytes
  BY <1>2, <1>3 DEF SessionMeta
<1>6. \A s \in SessionIds : mSessions'[s].tokens >= mSessions[s].tokens
  <2>1. mSessions'[id].tokens = mSessions[id].tokens + n
    BY <1>2, <1>3 DEF SessionMeta
  <2>2. \A s \in SessionIds : s # id => mSessions'[s] = mSessions[s]
    BY <1>2, <1>3
  <2>3. \A s \in SessionIds : mSessions[s].tokens \in Nat
    BY <1>2 DEF SessionMeta
  <2>4. mSessions'[id].tokens >= mSessions[id].tokens
    BY <1>2, <2>1
  <2> QED BY <2>2, <2>3, <2>4
<1> QED BY <1>1, <1>3, <1>4, <1>5, <1>6

(* The cold store stays within its limit, and every swap file is whole,    *)
(* current and charged, whatever the inferences of other sessions do.      *)
THEOREM ColdStoreUnderEngine == EngineSpec => [](ColdLimitHolds /\ SwapFilesIntact)
<1>1. EngineInit => ColdLimitHolds
  BY ConstantsAssumption DEF EngineInit, Init, ColdLimitHolds
<1>2. EInv /\ ColdLimitHolds /\ [EngineNext]_engineVars => ColdLimitHolds'
  <2> SUFFICES ASSUME EInv, ColdLimitHolds, [EngineNext]_engineVars PROVE ColdLimitHolds'
    OBVIOUS
  <2>1. CASE [Next]_vars
    BY <2>1, ColdLimitStep DEF EInv
  <2>2. CASE Computes
    BY <2>2 DEF Computes, ColdLimitHolds
  <2>3. CASE Records
    BY <2>3 DEF Records, RecordTokens, Ready, ColdLimitHolds
  <2> QED BY <2>1, <2>2, <2>3, EngineStepKinds
<1>3. EInv => SwapFilesIntact
  BY DEF EInv
<1> QED BY <1>1, <1>2, <1>3, EngineInvariantHolds, PTL DEF EngineSpec

LEMMA ColdBytesStep == EInv /\ ColdAccounting /\ [EngineNext]_engineVars => ColdAccounting'
<1> SUFFICES ASSUME EInv, ColdAccounting, [EngineNext]_engineVars PROVE ColdAccounting'
  OBVIOUS
<1>0. IInv /\ Elems(mColdLru) \subseteq SessionIds
  BY DEF EInv, IInv, LruMirrorsSessions
<1>1. CASE [Next]_vars
  BY <1>0, <1>1, ColdAccountingStep
<1>2. CASE Computes
  BY <1>2, ChargesKept DEF Computes
<1>3. CASE Records
  BY <1>0, <1>3, RecordsOnlyTokens, ChargesKept
<1> QED BY <1>1, <1>2, <1>3, EngineStepKinds

(* mColdUsedBytes stays the sum of what the swapped-out sessions are       *)
(* charged: a late recordTokens changes the tokens of a session that was   *)
(* swapped out meanwhile, but not its charge.                              *)
THEOREM ColdBytesUnderEngine == EngineSpec => []ColdAccounting
<1>1. EngineInit => ColdAccounting
  BY InitAccounts DEF EngineInit
<1> QED BY <1>1, ColdBytesStep, EngineInvariantHolds, PTL DEF EngineSpec

(* Under any number of inferences, and as long as saves work, every file   *)
(* this process wrote belongs to a session that is swapped out or on its   *)
(* way.                                                                    *)
THEOREM NoFileIsForgottenByEngine ==
  ASSUME "save" \notin Faults
  PROVE  EngineSpec => []NoForgottenFile
<1>1. EngineInit => NoForgottenFile
  BY DEF EngineInit, Init, NoForgottenFile, NoFile
<1>2. EInv /\ NoForgottenFile /\ [EngineNext]_engineVars => NoForgottenFile'
  <2> SUFFICES ASSUME EInv, NoForgottenFile, [EngineNext]_engineVars
               PROVE  NoForgottenFile'
    OBVIOUS
  <2>0. IInv
    BY DEF EInv
  <2>1. CASE [Next]_vars
    BY <2>0, <2>1, NoForgottenStep
  <2>2. CASE Computes
    BY <2>2 DEF Computes, NoForgottenFile, IsSwapped
  <2>3. CASE Records
    BY <2>0, <2>3, RecordsOnlyTokens DEF NoForgottenFile, IsSwapped
  <2> QED BY <2>1, <2>2, <2>3, EngineStepKinds
<1> QED BY <1>1, <1>2, EngineInvariantHolds, PTL DEF EngineSpec

(* Under any number of inferences at most mHotLimit sessions own a context *)
(* between two calls of the manager, on the two conditions that            *)
(* evictHotIfNeeded depends on: -1 is no session id and saves work.        *)
THEOREM HotLimitUnderEngine ==
  ASSUME -1 \notin SessionIds, "save" \notin Faults
  PROVE  EngineSpec => []HotLimitHolds
<1>1. EngineInit => HotLimitInv
  BY ConstantsAssumption DEF EngineInit, Init, HotLimitInv, Idle
<1>2. EInv /\ HotLimitInv /\ [EngineNext]_engineVars => HotLimitInv'
  <2> SUFFICES ASSUME EInv, HotLimitInv, [EngineNext]_engineVars PROVE HotLimitInv'
    OBVIOUS
  <2>0. IInv
    BY DEF EInv
  <2>1. CASE [Next]_vars
    BY <2>0, <2>1, HotLimitStep
  <2>2. CASE Computes
    BY <2>2 DEF Computes, HotLimitInv
  <2>3. CASE Records
    BY <2>0, <2>3, RecordsOnlyTokens DEF HotLimitInv
  <2> QED BY <2>1, <2>2, <2>3, EngineStepKinds
<1>3. HotLimitInv => HotLimitHolds
  BY DEF HotLimitInv, HotLimitHolds
<1> QED BY <1>1, <1>2, <1>3, EngineInvariantHolds, PTL DEF EngineSpec

-----------------------------------------------------------------------------
(* What no step of the engine does, with any number of threads.            *)

(* No inference makes evictColdIfNeeded take a session other than a        *)
(* swapped-out one of a store over its limit, or the newest.               *)
THEOREM EvictionSparesUnderEngine == EngineSpec => EvictionSparesNewest
<1>1. EInv /\ [EngineNext]_engineVars => [Spares]_vars
  <2> SUFFICES ASSUME EInv, [EngineNext]_engineVars PROVE [Spares]_vars
    OBVIOUS
  <2>0. IInv
    BY DEF EInv
  <2>1. CASE [Next]_vars
    BY <2>0, <2>1, SparingStep
  <2>2. CASE Computes
    BY <2>2 DEF Computes, Spares
  <2>3. CASE Records
    BY <2>0, <2>3, RecordsOnlyTokens DEF Spares
  <2> QED BY <2>1, <2>2, <2>3, EngineStepKinds
<1>2. [][Spares]_vars => EvictionSparesNewest
  BY DEF Spares, EvictionSparesNewest
<1> QED BY <1>1, <1>2, EngineInvariantHolds, PTL DEF EngineSpec

(* Whatever is recorded while a session is pruned, no pruning takes it     *)
(* below kMinKeepTokens.                                                   *)
THEOREM PruningIsBoundedUnderEngine == EngineSpec => PruningKeepsMinimum
<1>1. EInv /\ [EngineNext]_engineVars => [KeepsMinimum]_vars
  <2> SUFFICES ASSUME EInv, [EngineNext]_engineVars PROVE [KeepsMinimum]_vars
    OBVIOUS
  <2>0. IInv /\ \A s \in SessionIds : mSessions[s].tokens \in Nat
    BY DEF EInv, IInv, TypeOK, SessionMeta
  <2>1. CASE [Next]_vars
    BY <2>0, <2>1, PruningStep
  <2>2. CASE Computes
    BY <2>0, <2>2 DEF Computes, KeepsMinimum
  <2>3. CASE Records
    <3>1. mSessions' \in [SessionIds -> SessionMeta]
      BY ManagerInvariantKept DEF IInv, TypeOK
    <3>2. \A s \in SessionIds : /\ mSessions'[s].tokens \in Nat
                                /\ mSessions'[s].tokens >= mSessions[s].tokens
      BY <2>0, <2>3, <3>1, RecordsOnlyTokens DEF SessionMeta
    <3>3. \A s \in SessionIds : ~(mSessions'[s].tokens < mSessions[s].tokens)
      BY <2>0, <3>2
    <3> QED BY <3>3 DEF KeepsMinimum
  <2> QED BY <2>1, <2>2, <2>3, EngineStepKinds
<1>2. [][KeepsMinimum]_vars => PruningKeepsMinimum
  BY DEF KeepsMinimum, PruningKeepsMinimum
<1> QED BY <1>1, <1>2, EngineInvariantHolds, PTL DEF EngineSpec

-----------------------------------------------------------------------------
(* The engine as a store of conversations, with any number of threads.     *)

(* Under any number of inferences, whichever calls of llama fail and       *)
(* wherever the process dies, the conversations are those of a SessionStore*)
(* that is called one request at a time.                                   *)
THEOREM EngineImplementsStore == EngineSpec => ImplementsStore
<1>1. EngineInit => Store!StoreInit
  BY InitIsStoreInit DEF EngineInit
<1>2. EInv /\ [EngineNext]_engineVars => [Store!StoreNext]_(Store!storeVars)
  <2> SUFFICES ASSUME EInv, [EngineNext]_engineVars
               PROVE  [Store!StoreNext]_(Store!storeVars)
    OBVIOUS
  <2>0. IInv
    BY DEF EInv
  <2>1. CASE [Next]_vars
    BY <2>0, <2>1, StepIsStoreStep
  <2>2. CASE Computes
    BY <2>2, NoConversation, QuietStep DEF Computes
  <2>3. CASE Records
    <3>1. PICK id \in SessionIds, n \in Nat : RecordTokens(id, n)
      BY <2>3 DEF Records
    <3>2. Store!Extend(id) \/ Conversations' = Conversations
      BY <2>0, <3>1, RecordIsExtend
    <3> QED BY <3>2, QuietStep DEF Store!StoreNext
  <2> QED BY <2>1, <2>2, <2>3, EngineStepKinds
<1> QED
  BY <1>1, <1>2, EngineInvariantHolds, PTL DEF EngineSpec, ImplementsStore, Store!StoreSpec

=============================================================================
