------------------------- MODULE SessionStoreProofs -------------------------
(***************************************************************************)
(* Proof that SessionManager implements SessionStore, and of what else its *)
(* callers count on, for every set of session ids, all limits and sizes.   *)
(***************************************************************************)
EXTENDS SessionManagerProofs, FiniteSetTheorems

-----------------------------------------------------------------------------
(* The refinement mapping.                                                 *)

(* The conversation of a session with these data and this file.            *)
ConvOf(meta, file) ==
  CASE meta.state = "NONE"                        -> -1
    [] meta.state = "COLD" /\ meta.swapFilePath   -> file.tokens
    [] OTHER                                      -> meta.tokens

(* Conversations, session by session, before and after a step.             *)
LEMMA ConversationsAre ==
  /\ \A s \in SessionIds : Conversations[s] = ConvOf(mSessions[s], files[s])
  /\ \A s \in SessionIds : Conversations'[s] = ConvOf(mSessions'[s], files'[s])
  BY DEF Conversations, ConvOf, IsSwapped

(* What the conversation of a session is in each of its states.            *)
LEMMA ConvCases ==
  ASSUME NEW meta \in SessionMeta, NEW file \in File
  PROVE  /\ meta.state = "NONE" => ConvOf(meta, file) = -1
         /\ meta.state = "HOT" => ConvOf(meta, file) = meta.tokens
         /\ meta.state = "COLD" /\ meta.swapFilePath => ConvOf(meta, file) = file.tokens
         /\ meta.state = "COLD" /\ ~meta.swapFilePath => ConvOf(meta, file) = meta.tokens
         /\ meta.state # "NONE" => ConvOf(meta, file) \in Nat
  BY DEF ConvOf, SessionMeta, File

(* One conversation changes, or none does.                                 *)
LEMMA OneConversation ==
  ASSUME NEW id \in SessionIds, NEW x,
         ConvOf(mSessions'[id], files'[id]) = x,
         \A s \in SessionIds : s # id =>
           ConvOf(mSessions'[s], files'[s]) = ConvOf(mSessions[s], files[s])
  PROVE  /\ Conversations' = [Conversations EXCEPT ![id] = x]
         /\ Conversations'[id] = x
<1>1. Conversations' = [s \in SessionIds |-> Conversations'[s]]
  BY DEF Conversations
<1>2. Conversations = [s \in SessionIds |-> Conversations[s]]
  BY DEF Conversations
<1> HIDE DEF Conversations
<1>3. Conversations'[id] = x /\ \A s \in SessionIds \ {id} : Conversations'[s] = Conversations[s]
  BY ConversationsAre
<1> QED BY <1>1, <1>2, <1>3

LEMMA NoConversation ==
  ASSUME \A s \in SessionIds :
           ConvOf(mSessions'[s], files'[s]) = ConvOf(mSessions[s], files[s])
  PROVE  Conversations' = Conversations
<1>1. \A s \in SessionIds : Conversations'[s] = Conversations[s]
  BY ConversationsAre
<1> QED BY <1>1 DEF Conversations

(* A step without a change to the conversations is the begin or the end of *)
(* a call, or nothing.                                                     *)
LEMMA QuietStep ==
  ASSUME Conversations' = Conversations
  PROVE  [Store!StoreNext]_(Store!storeVars)
  BY DEF Store!StoreNext, Store!MakesRoom, Store!HasRoom, Store!storeVars

-----------------------------------------------------------------------------
(* The steps, by what they do to the conversations.                        *)

LEMMA CreateIsCreate ==
  ASSUME IInv, NEW id \in SessionIds, CreateSession(id)
  PROVE  Store!Create(id)
<1>1. /\ mSessions \in [SessionIds -> SessionMeta] /\ files \in [SessionIds -> File]
      /\ call = Idle /\ call' = call /\ mSessions[id].state = "NONE"
  BY DEF IInv, TypeOK, CreateSession, Ready
<1>2. Conversations[id] = -1
  BY <1>1, ConvCases, ConversationsAre
<1>3. /\ mSessions'[id] = NewMeta("COLD")
      /\ \A s \in SessionIds : s # id => mSessions'[s] = mSessions[s] /\ files'[s] = files[s]
  BY <1>1 DEF CreateSession
<1>4. ConvOf(mSessions'[id], files'[id]) = 0
  BY <1>3 DEF ConvOf, NewMeta
<1>5. Conversations' = [Conversations EXCEPT ![id] = 0]
  BY <1>3, <1>4, OneConversation
<1> QED BY <1>1, <1>2, <1>5 DEF Store!Create, Idle

(* killSession, by request or by evictColdIfNeeded.                        *)
LEMMA KillIsDrop ==
  ASSUME IInv, NEW id \in SessionIds, mSessions[id].state # "NONE", Kill(id), UNCHANGED call
  PROVE  Store!Drop(id)
<1>1. mSessions \in [SessionIds -> SessionMeta] /\ files \in [SessionIds -> File]
  BY DEF IInv, TypeOK
<1>2. Conversations[id] \in Nat
  BY <1>1, ConvCases, ConversationsAre
<1>3. /\ mSessions'[id] = NewMeta("NONE")
      /\ \A s \in SessionIds : s # id => mSessions'[s] = mSessions[s] /\ files'[s] = files[s]
  BY <1>1 DEF Kill, LeavesCold
<1>4. ConvOf(mSessions'[id], files'[id]) = -1
  BY <1>3 DEF ConvOf, NewMeta
<1>5. Conversations' = [Conversations EXCEPT ![id] = -1]
  BY <1>3, <1>4, OneConversation
<1>6. Conversations[id] >= 0
  BY <1>2
<1> QED BY <1>5, <1>6 DEF Store!Drop

(* recordTokens extends the conversation of a HOT session, or of one that  *)
(* was never swapped out.  What it adds to a session that is swapped out   *)
(* is not in the file, from which the next swap-in takes the tokens: the   *)
(* conversation stays as it was saved.                                     *)
LEMMA RecordIsExtend ==
  ASSUME IInv, NEW id \in SessionIds, NEW n \in Nat, RecordTokens(id, n)
  PROVE  Store!Extend(id) \/ Conversations' = Conversations
<1>1. /\ mSessions \in [SessionIds -> SessionMeta] /\ files \in [SessionIds -> File]
      /\ call = Idle /\ call' = call /\ files' = files /\ mSessions[id].state # "NONE"
  BY DEF IInv, TypeOK, RecordTokens, Ready
<1> DEFINE t == mSessions[id].tokens
<1>2. t \in Nat /\ mSessions' = [mSessions EXCEPT ![id].tokens = t + n]
  BY <1>1 DEF SessionMeta, RecordTokens
<1>3. TokensOnly(mSessions, mSessions', id, t + n)
  <2>1. t + n \in Nat
    BY <1>2
  <2> HIDE DEF t
  <2> QED BY <1>1, <1>2, <2>1, TokensChange, Zenon
<1>4. /\ mSessions'[id].state = mSessions[id].state
      /\ mSessions'[id].swapFilePath = mSessions[id].swapFilePath
      /\ mSessions'[id].tokens = t + n
      /\ \A s \in SessionIds : s # id => mSessions'[s] = mSessions[s]
  BY <1>1, <1>2, <1>3 DEF TokensOnly
<1>5. CASE IsSwapped(id)
  <2>1. ConvOf(mSessions[id], files[id]) = files[id].tokens
    BY <1>5 DEF ConvOf, IsSwapped
  <2>2. ConvOf(mSessions'[id], files'[id]) = files[id].tokens
    BY <1>1, <1>4, <1>5 DEF ConvOf, IsSwapped
  <2> QED BY <1>1, <1>4, <2>1, <2>2, NoConversation
<1>6. CASE ~IsSwapped(id)
  <2>1. ConvOf(mSessions[id], files[id]) = t
    BY <1>1, <1>6 DEF ConvOf, IsSwapped
  <2>2. ConvOf(mSessions'[id], files'[id]) = t + n
    BY <1>1, <1>4, <1>6 DEF ConvOf, IsSwapped
  <2>3. CASE n = 0
    <3>1. t + n = t
      BY <1>2, <2>3
    <3> QED BY <1>1, <1>4, <2>1, <2>2, <3>1, NoConversation
  <2>4. CASE n > 0
    <3>1. Conversations' = [Conversations EXCEPT ![id] = t + n] /\ Conversations'[id] = t + n
      BY <1>1, <1>4, <2>2, OneConversation
    <3>2. Conversations[id] = t
      BY <2>1, ConversationsAre
    <3>3. Conversations[id] >= 0 /\ Conversations'[id] > Conversations[id]
      BY <1>2, <2>4, <3>1, <3>2
    <3> QED BY <1>1, <3>1, <3>3 DEF Store!Extend, Idle
  <2> QED BY <2>3, <2>4
<1> QED BY <1>5, <1>6

(* swapOut: the loop prunes, and the file that it leaves holds all that    *)
(* the session had then.                                                   *)
LEMMA PruneIsPrune ==
  ASSUME IInv, SwapOutPrunes
  PROVE  Store!Prune(call.victim) \/ Conversations' = Conversations
<1> DEFINE v == call.victim
           n == mSessions[v].tokens
           r == Pruned(n, ToRemove(n))
<1>1. /\ mSessions \in [SessionIds -> SessionMeta] /\ files \in [SessionIds -> File]
      /\ v \in SessionIds /\ mSessions[v].state = "HOT"
      /\ call.pc = "swapOut" /\ call' = call
  BY DEF IInv, TypeOK, FrameOK, SwapOutPrunes, IsHot
<1>2. /\ n \in Nat /\ n > kMinKeepTokens
      /\ mSessions' = [mSessions EXCEPT ![v].tokens = @ - r]
      /\ \A s \in SessionIds : s # v => files'[s] = files[s]
  BY <1>1 DEF SessionMeta, SwapOutPrunes, Victim
<1>3. r \in Nat /\ r <= n - kMinKeepTokens
  BY <1>2, ConstantsAssumption DEF Pruned, ToRemove, Smaller, Larger
<1>4. n - r \in kMinKeepTokens .. n
  BY <1>2, <1>3, ConstantsAssumption
<1> HIDE DEF r
<1>5. TokensOnly(mSessions, mSessions', v, n - r)
  <2>1. n - r \in Nat /\ mSessions' = [mSessions EXCEPT ![v].tokens = n - r]
    BY <1>2, <1>4, ConstantsAssumption
  <2> HIDE DEF v, n
  <2> QED BY <1>1, <2>1, TokensChange, Zenon
<1>6. /\ mSessions'[v] \in SessionMeta /\ mSessions'[v].state = "HOT"
      /\ mSessions'[v].tokens = n - r
      /\ \A s \in SessionIds : s # v => mSessions'[s] = mSessions[s]
  BY <1>1, <1>2, <1>5 DEF TokensOnly
<1>7. files'[v] \in File
  <2>1. IInv'
    BY SwapOutPrunesPreserves
  <2> QED BY <1>1, <2>1 DEF IInv, TypeOK
<1>8. ConvOf(mSessions'[v], files'[v]) = n - r /\ ConvOf(mSessions[v], files[v]) = n
  BY <1>1, <1>6, <1>7, ConvCases
<1>9. Conversations' = [Conversations EXCEPT ![v] = n - r] /\ Conversations[v] = n
  BY <1>1, <1>2, <1>6, <1>8, OneConversation, ConversationsAre
<1>10. CASE r = 0
  <2>1. n - r = n
    BY <1>2, <1>10
  <2> QED BY <1>1, <1>2, <1>6, <1>8, <2>1, NoConversation
<1>11. CASE r # 0
  <2>1. n - r \in kMinKeepTokens .. n - 1
    BY <1>2, <1>3, <1>4, <1>11, ConstantsAssumption
  <2>2. n - r \in kMinKeepTokens .. Conversations[v] - 1
    BY <1>9, <2>1
  <2> HIDE DEF n
  <2> QED BY <1>1, <1>9, <2>2 DEF Store!Prune
<1> QED BY <1>10, <1>11

LEMMA SwapOutKeepsAll ==
  ASSUME IInv, SwapOutCompletes
  PROVE  Conversations' = Conversations
<1> DEFINE v == call.victim
<1>1. /\ mSessions \in [SessionIds -> SessionMeta] /\ files \in [SessionIds -> File]
      /\ v \in SessionIds /\ mSessions[v].state = "HOT"
  BY DEF IInv, TypeOK, FrameOK, SwapOutCompletes, IsHot
<1> DEFINE size == StateSize(VictimCells)
<1>2. /\ mSessions' = [mSessions EXCEPT
           ![v] = [@ EXCEPT !.state = "COLD", !.ctx = NoCtx,
                            !.swapFilePath = TRUE, !.swapFileBytes = size]]
      /\ files' = [files EXCEPT ![v] = Saved(mSessions[v].tokens, VictimCells)]
  BY DEF SwapOutCompletes, GoesCold, Written, Victim
<1> HIDE DEF size
<1>3. /\ mSessions'[v].state = "COLD" /\ mSessions'[v].swapFilePath
      /\ \A s \in SessionIds : s # v => mSessions'[s] = mSessions[s] /\ files'[s] = files[s]
  BY <1>1, <1>2 DEF SessionMeta
<1>4. files'[v].tokens = mSessions[v].tokens
  BY <1>1, <1>2 DEF Saved
<1>5. ConvOf(mSessions'[v], files'[v]) = mSessions[v].tokens
  BY <1>3, <1>4 DEF ConvOf
<1>6. ConvOf(mSessions[v], files[v]) = mSessions[v].tokens
  BY <1>1, ConvCases
<1> QED BY <1>3, <1>5, <1>6, NoConversation

(* A failing save may leave a cut-off file, but that of a HOT session,     *)
(* whose conversation is in memory.                                        *)
LEMMA FailedSaveKeepsAll ==
  ASSUME IInv, SwapOutFails
  PROVE  Conversations' = Conversations
<1> DEFINE v == call.victim
<1>1. /\ mSessions \in [SessionIds -> SessionMeta] /\ files \in [SessionIds -> File]
      /\ v \in SessionIds /\ mSessions[v].state = "HOT" /\ mSessions' = mSessions
  BY DEF IInv, TypeOK, FrameOK, SwapOutFails, IsHot
<1>2. \A s \in SessionIds : s # v => files'[s] = files[s]
  BY <1>1 DEF SwapOutFails
<1>3. ConvOf(mSessions'[v], files'[v]) = ConvOf(mSessions[v], files[v])
  BY <1>1 DEF ConvOf
<1> QED BY <1>1, <1>2, <1>3, NoConversation

(* The swap-in takes back what is in the file.                             *)
LEMMA SwapInKeepsAll ==
  ASSUME IInv, NEW c \in Contexts, SwapInNew(c) \/ SwapInLoads(c)
  PROVE  Conversations' = Conversations
<1> DEFINE id == call.id
<1>1. /\ mSessions \in [SessionIds -> SessionMeta] /\ files \in [SessionIds -> File]
      /\ id \in SessionIds
  BY DEF IInv, TypeOK, FrameOK, SwapInNew, SwapInLoads, SwapInStep
<1>2. \A s \in SessionIds : s # id => files'[s] = files[s]
  BY <1>1 DEF SwapInNew, SwapInLoads, LeavesCold
<1>3. ASSUME NEW t, NEW n, BecomesHot(id, c, t, n)
      PROVE  /\ mSessions'[id].state = "HOT" /\ mSessions'[id].tokens = t
             /\ \A s \in SessionIds : s # id => mSessions'[s] = mSessions[s]
  BY <1>1, <1>3 DEF BecomesHot, SessionMeta
<1>4. CASE SwapInNew(c)
  <2>1. /\ BecomesHot(id, c, mSessions[id].tokens, 0)
        /\ mSessions[id].state = "COLD" /\ ~mSessions[id].swapFilePath
    BY <1>4 DEF SwapInNew
  <2>2. ConvOf(mSessions'[id], files'[id]) = ConvOf(mSessions[id], files[id])
    BY <1>3, <2>1 DEF ConvOf
  <2> QED BY <1>2, <1>3, <2>1, <2>2, NoConversation
<1>5. CASE SwapInLoads(c)
  <2>1. /\ BecomesHot(id, c, files[id].tokens, files[id].cells)
        /\ mSessions[id].state = "COLD" /\ mSessions[id].swapFilePath
    BY <1>5 DEF SwapInLoads, IsSwapped
  <2>2. ConvOf(mSessions'[id], files'[id]) = ConvOf(mSessions[id], files[id])
    BY <1>3, <2>1 DEF ConvOf
  <2> QED BY <1>2, <1>3, <2>1, <2>2, NoConversation
<1> QED BY <1>4, <1>5

(* A swap-in that fails leaves the file, which still has all of it.        *)
LEMMA FailedLoadKeepsAll ==
  ASSUME IInv, SwapInLoadFails
  PROVE  Conversations' = Conversations
<1> DEFINE id == call.id
<1>1. /\ mSessions \in [SessionIds -> SessionMeta] /\ files' = files
      /\ id \in SessionIds /\ mSessions[id].state = "COLD" /\ mSessions[id].swapFilePath
      /\ mSessions' = [mSessions EXCEPT ![id].tokens = nCtx]
  BY DEF IInv, TypeOK, FrameOK, SwapInLoadFails, SwapInStep, IsSwapped
<1>2. /\ mSessions'[id].state = "COLD" /\ mSessions'[id].swapFilePath
      /\ \A s \in SessionIds : s # id => mSessions'[s] = mSessions[s]
  BY <1>1 DEF SessionMeta
<1>3. ConvOf(mSessions'[id], files'[id]) = ConvOf(mSessions[id], files[id])
  BY <1>1, <1>2 DEF ConvOf
<1> QED BY <1>1, <1>2, <1>3, NoConversation

LEMMA EndIsForget ==
  ASSUME Destructor \/ Crash
  PROVE  Store!Forget
<1>1. mSessions' = [id \in SessionIds |-> NewMeta("NONE")] /\ call' = Idle
  BY DEF Destructor, Crash, ProcessEnds
<1>2. \A s \in SessionIds : Conversations'[s] = -1
  BY <1>1, ConversationsAre DEF ConvOf, NewMeta
<1>3. Conversations' = [s \in SessionIds |-> -1]
  BY <1>2 DEF Conversations
<1> QED BY <1>1, <1>3 DEF Store!Forget, Idle

-----------------------------------------------------------------------------
(* Every step of the manager is a step of the store.                       *)
LEMMA StepIsStoreStep == IInv /\ [Next]_vars => [Store!StoreNext]_(Store!storeVars)
<1> SUFFICES ASSUME IInv, [Next]_vars PROVE [Store!StoreNext]_(Store!storeVars)
  OBVIOUS
<1>1. ASSUME UNCHANGED <<mSessions, files>> PROVE [Store!StoreNext]_(Store!storeVars)
  BY <1>1, NoConversation, QuietStep
<1>2. ASSUME NEW id \in SessionIds,
             Store!Create(id) \/ Store!Extend(id) \/ Store!Prune(id) \/ Store!Drop(id)
      PROVE  [Store!StoreNext]_(Store!storeVars)
  BY <1>2 DEF Store!StoreNext
<1>3. ASSUME NEW id \in SessionIds, CreateSession(id)
      PROVE  [Store!StoreNext]_(Store!storeVars)
  BY <1>2, <1>3, CreateIsCreate
<1>4. ASSUME NEW id \in SessionIds, KillSession(id)
      PROVE  [Store!StoreNext]_(Store!storeVars)
  BY <1>2, <1>4, KillIsDrop DEF KillSession
<1>5. ASSUME NEW id \in SessionIds, NEW n \in 0 .. MaxTokens, NEW d \in 0 .. nCtx,
             DecodeAndRecord(id, n, d)
      PROVE  [Store!StoreNext]_(Store!storeVars)
  <2>1. n \in Nat /\ RecordTokens(id, n)
    BY <1>5, ConstantsAssumption DEF DecodeAndRecord
  <2> QED BY <1>2, <2>1, RecordIsExtend, QuietStep
<1>6. CASE EvictColdKills
  <2>1. /\ ColdVictim \in SessionIds /\ mSessions[ColdVictim].state # "NONE"
        /\ Kill(ColdVictim) /\ UNCHANGED call
    BY <1>6, ColdVictimIsSwapped DEF EvictColdKills, IsSwapped
  <2> QED BY <1>2, <2>1, KillIsDrop
<1>7. CASE SwapOutPrunes
  <2>1. call.victim \in SessionIds
    BY <1>7 DEF SwapOutPrunes, IInv, FrameOK
  <2> QED BY <1>2, <1>7, <2>1, PruneIsPrune, QuietStep
<1>8. CASE SwapOutCompletes \/ SwapOutFails \/ SwapInLoadFails
  BY <1>8, SwapOutKeepsAll, FailedSaveKeepsAll, FailedLoadKeepsAll, QuietStep
<1>9. ASSUME NEW c \in Contexts, SwapInNew(c) \/ SwapInLoads(c)
      PROVE  [Store!StoreNext]_(Store!storeVars)
  BY <1>9, SwapInKeepsAll, QuietStep
<1>10. CASE Destructor \/ Crash
  BY <1>10, EndIsForget DEF Store!StoreNext
<1> QED
  BY <1>1, <1>3, <1>4, <1>5, <1>6, <1>7, <1>8, <1>9, <1>10
  DEF Next, CallStep, Request, Lifecycle, vars, smVars, ActivateHot, ActivateCold,
      SetHotLimit, SetColdLimit, EvictHotPicks, EvictHotReturns, EvictColdReturns,
      SwapInNoContext, SwapInDangles, Restart

LEMMA InitIsStoreInit == Init => Store!StoreInit
<1>1. ASSUME Init PROVE Conversations = [s \in SessionIds |-> -1]
  <2>1. \A s \in SessionIds : mSessions[s] = NewMeta("NONE")
    BY <1>1 DEF Init
  <2>2. \A s \in SessionIds : Conversations[s] = -1
    BY <2>1, ConversationsAre DEF ConvOf, NewMeta
  <2> QED BY <2>2 DEF Conversations
<1> QED BY <1>1 DEF Init, Idle, Store!StoreInit

(* To its callers the manager is a store of conversations: whichever saves *)
(* and loads fail, a conversation grows only by what is recorded, is cut   *)
(* only while a call makes room, never below kMinKeepTokens, and comes     *)
(* back from its swap file as it went.                                     *)
THEOREM ManagerImplementsStore == Spec => ImplementsStore
  BY InitIsStoreInit, StepIsStoreStep, InvariantHolds, PTL
  DEF Spec, ImplementsStore, Store!StoreSpec

-----------------------------------------------------------------------------
(* The swap directory and the swap-in.                                     *)

(* With saves that work, no step leaves a file of this process behind.     *)
LEMMA NoForgottenStep ==
  ASSUME "save" \notin Faults
  PROVE  IInv /\ NoForgottenFile /\ [Next]_vars => NoForgottenFile'
<1> SUFFICES ASSUME IInv, NoForgottenFile, [Next]_vars PROVE NoForgottenFile'
  OBVIOUS
<1>0. /\ mSessions \in [SessionIds -> SessionMeta] /\ files \in [SessionIds -> File]
      /\ call \in Frame
  BY DEF IInv, TypeOK
<1> USE DEF NoForgottenFile, IsSwapped
<1>1. ASSUME UNCHANGED <<mSessions, files>>,
             call.pc = "swapOut" => call' = call
      PROVE  NoForgottenFile'
  BY <1>1
<1>2. ASSUME NEW id \in SessionIds, CreateSession(id)
      PROVE  NoForgottenFile'
  BY <1>0, <1>2 DEF CreateSession, LeftOver, NoFile, Ready, Idle, File
<1>3. ASSUME NEW id \in SessionIds, Kill(id), UNCHANGED call, call.pc # "swapOut"
      PROVE  NoForgottenFile'
  <2>1. \A s \in SessionIds : s # id => mSessions'[s] = mSessions[s] /\ files'[s] = files[s]
    BY <1>0, <1>3 DEF Kill, LeavesCold
  <2>2. files'[id].kind # "valid"
    BY <1>0, <1>3 DEF Kill, LeavesCold, NoFile
  <2> QED BY <1>3, <2>1, <2>2
<1>4. ASSUME NEW id \in SessionIds, NEW n, NEW d, DecodeAndRecord(id, n, d)
      PROVE  NoForgottenFile'
  <2>1. \A s \in SessionIds : /\ mSessions'[s].state = mSessions[s].state
                              /\ mSessions'[s].swapFilePath = mSessions[s].swapFilePath
    BY <1>0, <1>4 DEF DecodeAndRecord, RecordTokens, SessionMeta
  <2> QED BY <1>4, <2>1 DEF DecodeAndRecord, RecordTokens
<1>5. CASE SwapOutPrunes
  <2>1. /\ \A s \in SessionIds : /\ mSessions'[s].state = mSessions[s].state
                                 /\ mSessions'[s].swapFilePath = mSessions[s].swapFilePath
        /\ \A s \in SessionIds : s # call.victim => files'[s] = files[s]
        /\ call' = call /\ call.pc = "swapOut"
    BY <1>0, <1>5 DEF SwapOutPrunes, SessionMeta
  <2> QED BY <2>1
<1>6. CASE SwapOutCompletes
  <2> DEFINE size == StateSize(VictimCells)
  <2>1. /\ mSessions' = [mSessions EXCEPT
             ![call.victim] = [@ EXCEPT !.state = "COLD", !.ctx = NoCtx,
                                        !.swapFilePath = TRUE, !.swapFileBytes = size]]
        /\ files' = [files EXCEPT ![call.victim] = Written]
        /\ call.victim \in SessionIds
    BY <1>6 DEF SwapOutCompletes, GoesCold, IInv, FrameOK
  <2> HIDE DEF size
  <2>2. /\ mSessions'[call.victim].state = "COLD" /\ mSessions'[call.victim].swapFilePath
        /\ \A s \in SessionIds : s # call.victim =>
             mSessions'[s] = mSessions[s] /\ files'[s] = files[s]
    BY <1>0, <2>1 DEF SessionMeta
  <2> QED BY <2>2
<1>7. ASSUME NEW c \in Contexts, SwapInNew(c) \/ SwapInLoads(c)
      PROVE  NoForgottenFile'
  <2>1. /\ call.id \in SessionIds /\ call.pc = "swapIn"
        /\ \A s \in SessionIds : s # call.id => mSessions'[s] = mSessions[s]
    BY <1>7, MovesOneSession DEF SwapInNew, SwapInLoads, SwapInStep, IInv, FrameOK
  <2>2. \A s \in SessionIds : s # call.id => files'[s] = files[s]
    BY <1>0, <1>7 DEF SwapInNew, SwapInLoads, LeavesCold
  <2>3. files'[call.id].kind # "valid"
    BY <1>0, <1>7, <2>1 DEF SwapInNew, SwapInLoads, LeavesCold, NoFile
  <2> QED BY <2>1, <2>2, <2>3
<1>8. CASE SwapInLoadFails
  <2>1. /\ \A s \in SessionIds : /\ mSessions'[s].state = mSessions[s].state
                                 /\ mSessions'[s].swapFilePath = mSessions[s].swapFilePath
        /\ files' = files /\ call.pc = "swapIn"
    BY <1>0, <1>8 DEF SwapInLoadFails, SwapInStep, SessionMeta
  <2> QED BY <2>1
<1>9. CASE Destructor \/ Crash
  <2>1. files' = [s \in SessionIds |-> LeftOver(files[s])]
    BY <1>9 DEF Destructor, Crash, ProcessEnds
  <2> QED BY <2>1 DEF LeftOver, NoFile
<1>10. ~SwapOutFails
  BY DEF SwapOutFails
<1>11. ASSUME NEW id \in SessionIds, KillSession(id)
       PROVE  NoForgottenFile'
  BY <1>3, <1>11 DEF KillSession, Ready, Idle
<1>12. CASE EvictColdKills
  BY <1>3, <1>12, ColdVictimIsSwapped DEF EvictColdKills
<1>13. CASE OnlyCallMoves
  BY <1>1, <1>13 DEF OnlyCallMoves, SetHotLimit, SetColdLimit, ActivateCold, Ready, Idle,
                     EvictHotPicks, EvictHotReturns, EvictColdReturns, SwapInNoContext,
                     SwapInStep
<1>14. CASE (\E id \in SessionIds : ActivateHot(id)) \/ SwapInDangles \/ Restart
            \/ UNCHANGED vars
  BY <1>1, <1>14 DEF ActivateHot, SwapInDangles, Restart, vars, smVars
<1> QED
  BY <1>2, <1>4, <1>5, <1>6, <1>7, <1>8, <1>9, <1>10, <1>11, <1>12, <1>13, <1>14
  DEF Next, CallStep, Request, Lifecycle, OnlyCallMoves

(* As long as saves work, every file that this process wrote belongs to a  *)
(* session that is swapped out or on its way: neither a kill nor a swap-in *)
(* nor an eviction forgets one, for which nobody would account.            *)
THEOREM NoFileIsForgotten ==
  ASSUME "save" \notin Faults
  PROVE  Spec => []NoForgottenFile
<1>1. Init => NoForgottenFile
  BY DEF Init, NoForgottenFile, NoFile
<1>2. IInv /\ NoForgottenFile /\ [Next]_vars => NoForgottenFile'
  BY NoForgottenStep
<1> QED BY <1>1, <1>2, InvariantHolds, PTL DEF Spec

(* What a step must do to refuse for no other reason: see                  *)
(* SwapInFailsOnlyOverfull.                                                *)
RefusesOverfull ==
  SwapInStep /\ proc' = "up" /\ mSessions'[call.id].state # "HOT"
    => files[call.id].tokens > nCtx

LEMMA RefusalStep ==
  ASSUME "init" \notin Faults, "load" \notin Faults
  PROVE  IInv /\ SwapFilesIntact /\ [Next]_vars => [RefusesOverfull]_vars
<1> SUFFICES ASSUME IInv, SwapFilesIntact, Next, SwapInStep, proc' = "up",
                    mSessions'[call.id].state # "HOT"
             PROVE  files[call.id].tokens > nCtx
  BY DEF RefusesOverfull
<1>1. call.id \in SessionIds /\ files[call.id] \in File
  BY DEF IInv, TypeOK, FrameOK, SwapInStep
<1>2. ~Request
  BY DEF Request, SwapInStep, Ready, Idle, CreateSession, KillSession, ActivateHot,
         ActivateCold, DecodeAndRecord, RecordTokens, SetHotLimit, SetColdLimit
<1>3. ~Lifecycle
  BY DEF Lifecycle, SwapInStep, Destructor, Crash, Restart, ProcessEnds
<1>4. \A c \in Contexts : ~(SwapInNew(c) \/ SwapInLoads(c))
  BY <1>1, MovesOneSession
<1>5. SwapInLoadFails
  BY <1>2, <1>3, <1>4
  DEF Next, CallStep, SwapInStep, EvictHotPicks, EvictHotReturns, SwapOutFails,
      SwapOutPrunes, SwapOutCompletes, EvictColdKills, EvictColdReturns,
      SwapInDangles, SwapInNoContext
<1>6. IsSwapped(call.id) /\ ~Loadable(call.id)
  BY <1>5 DEF SwapInLoadFails
<1>7. files[call.id].kind = "valid" /\ files[call.id].tokens \in Nat
  BY <1>1, <1>6 DEF SwapFilesIntact, File
<1> QED BY <1>6, <1>7, ConstantsAssumption DEF Loadable

(* When llama can allocate and read, a swapped-out session is refused only *)
(* for a file with more tokens than n_ctx: what a full KV cache leaves.    *)
THEOREM OnlyOverfullIsRefused ==
  ASSUME "init" \notin Faults, "load" \notin Faults
  PROVE  Spec => SwapInFailsOnlyOverfull
<1>1. IInv /\ SwapFilesIntact /\ [Next]_vars => [RefusesOverfull]_vars
  BY RefusalStep
<1>2. [][RefusesOverfull]_vars => SwapInFailsOnlyOverfull
  BY DEF RefusesOverfull, SwapInFailsOnlyOverfull
<1> QED BY <1>1, <1>2, InvariantHolds, SwapFilesAreIntact, PTL DEF Spec

-----------------------------------------------------------------------------
(* Sums of charges.                                                        *)

(* s[i] is the sum of the first i of b, up to n.                           *)
IsSum(s, b, n) ==
  /\ s \in [0 .. n -> Int]
  /\ s[0] = 0
  /\ \A i \in 1 .. n : s[i] = s[i - 1] + b[i]

(* Partial sums exist: the least n without them would be no such n.        *)
LEMMA SumExists ==
  ASSUME NEW b, NEW n \in Nat, \A i \in 1 .. n : b[i] \in Int
  PROVE  \E s : IsSum(s, b, n)
<1> DEFINE without == {k \in 0 .. n : ~ \E s : IsSum(s, b, k)}
<1>1. SUFFICES ASSUME without # {} PROVE FALSE
  OBVIOUS
<1>2. without \in SUBSET Nat
  OBVIOUS
<1>3. PICK m \in without : \A k \in without : m <= k
  BY <1>1, <1>2, LeastExists
<1>4. m # 0
  <2>1. IsSum([i \in 0 .. 0 |-> 0], b, 0)
    BY DEF IsSum
  <2> QED BY <1>3, <2>1
<1>5. m - 1 \in 0 .. n /\ m - 1 \notin without
  BY <1>3, <1>4
<1>6. PICK s : IsSum(s, b, m - 1)
  BY <1>5
<1> DEFINE e == [i \in 0 .. m |-> IF i = m THEN s[m - 1] + b[m] ELSE s[i]]
<1>7. m \in 1 .. n /\ b[m] \in Int /\ s[m - 1] \in Int
  BY <1>3, <1>4, <1>6 DEF IsSum
<1>8. IsSum(e, b, m)
  BY <1>6, <1>7 DEF IsSum
<1> QED BY <1>3, <1>8

(* Any function with the recurrence of a sum is that sum.                  *)
LEMMA SumIsUnique ==
  ASSUME NEW b, NEW n \in Nat, NEW s, IsSum(s, b, n),
         NEW g, g[0] = 0, \A i \in 1 .. n : g[i] = g[i - 1] + b[i]
  PROVE  \A i \in 0 .. n : g[i] = s[i]
<1> DEFINE different == {i \in 0 .. n : g[i] # s[i]}
<1>1. SUFFICES ASSUME different # {} PROVE FALSE
  OBVIOUS
<1>2. different \in SUBSET Nat
  OBVIOUS
<1>3. PICK m \in different : \A k \in different : m <= k
  BY <1>1, <1>2, LeastExists
<1>4. m # 0
  BY <1>3 DEF IsSum
<1>5. m \in 1 .. n /\ m - 1 \in 0 .. n /\ m - 1 \notin different
  BY <1>3, <1>4
<1>6. g[m] = g[m - 1] + b[m] /\ s[m] = s[m - 1] + b[m] /\ g[m - 1] = s[m - 1]
  BY <1>5 DEF IsSum
<1> QED BY <1>3, <1>6

(* What Total computes.                                                    *)
LEMMA TotalIsSum ==
  ASSUME NEW b \in Seq(Int), NEW s, IsSum(s, b, Len(b))
  PROVE  Total(b) = s[Len(b)]
<1> DEFINE n == Len(b)
           P(f) == f = [i \in 0 .. n |-> IF i = 0 THEN 0 ELSE f[i - 1] + b[i]]
           sum == CHOOSE f : P(f)
<1>1. n \in Nat
  OBVIOUS
<1>2. Total(b) = sum[n]
  BY DEF Total
<1>3. P(s)
  <2>1. s = [i \in 0 .. n |-> s[i]]
    BY DEF IsSum
  <2>2. \A i \in 0 .. n : s[i] = IF i = 0 THEN 0 ELSE s[i - 1] + b[i]
    BY <1>1 DEF IsSum
  <2> QED BY <2>1, <2>2
<1>4. P(sum)
  <2> HIDE DEF P
  <2> QED BY <1>3
<1>5. sum[0] = 0 /\ \A i \in 1 .. n : sum[i] = sum[i - 1] + b[i]
  <2> HIDE DEF sum
  <2> QED BY <1>1, <1>4
<1> HIDE DEF sum, P, n
<1>6. sum[n] = s[n]
  <2>1. IsSum(s, b, n)
    BY DEF n
  <2>2. \A i \in 0 .. n : sum[i] = s[i]
    BY <1>1, <1>5, <2>1, SumIsUnique
  <2> QED BY <1>1, <2>2
<1> QED BY <1>2, <1>6 DEF n

(* The total of nothing, of one more, and of one less.                     *)
LEMMA TotalOfNone == ASSUME NEW b \in Seq(Int), Len(b) = 0 PROVE Total(b) = 0
<1>1. PICK s : IsSum(s, b, Len(b))
  BY SumExists
<1> QED BY <1>1, TotalIsSum DEF IsSum

LEMMA TotalOfMore ==
  ASSUME NEW b \in Seq(Int), NEW a \in Seq(Int), NEW x \in Int,
         Len(a) = Len(b) + 1, a[Len(a)] = x, \A i \in 1 .. Len(b) : a[i] = b[i]
  PROVE  Total(a) = Total(b) + x
<1> DEFINE n == Len(b)
<1>1. /\ n \in Nat /\ Len(a) = n + 1 /\ a[n + 1] = x
      /\ \A i \in 1 .. n : a[i] = b[i]
      /\ \A i \in 1 .. n + 1 : a[i] \in Int
  OBVIOUS
<1>2. PICK s : IsSum(s, a, n + 1)
  BY <1>1, SumExists
<1>3. Total(a) = s[n + 1]
  BY <1>1, <1>2, TotalIsSum
<1> DEFINE r == [i \in 0 .. n |-> s[i]]
<1>4. IsSum(r, b, n)
  BY <1>1, <1>2 DEF IsSum
<1>5. Total(b) = r[n]
  BY <1>4, TotalIsSum
<1> HIDE DEF n
<1>6. s[n + 1] = s[n] + x /\ r[n] = s[n]
  <2>1. \A i \in 1 .. n + 1 : s[i] = s[i - 1] + a[i]
    BY <1>2 DEF IsSum
  <2>2. n + 1 \in 1 .. n + 1 /\ (n + 1) - 1 = n
    BY <1>1
  <2>3. s[n + 1] = s[(n + 1) - 1] + a[n + 1]
    BY <2>1, <2>2
  <2> QED BY <1>1, <2>2, <2>3
<1> QED BY <1>3, <1>5, <1>6

LEMMA TotalOfLess ==
  ASSUME NEW b \in Seq(Int), NEW e \in Seq(Int), NEW k \in 1 .. Len(b),
         Len(e) = Len(b) - 1,
         \A i \in 1 .. Len(b) - 1 : e[i] = IF i < k THEN b[i] ELSE b[i + 1]
  PROVE  Total(e) = Total(b) - b[k]
<1> DEFINE n == Len(b)
<1>1. /\ n \in Nat \ {0} /\ k \in 1 .. n /\ Len(e) = n - 1
      /\ \A i \in 1 .. n : b[i] \in Int
      /\ \A i \in 1 .. n - 1 : e[i] = IF i < k THEN b[i] ELSE b[i + 1]
  OBVIOUS
<1>2. PICK s : IsSum(s, b, n)
  BY <1>1, SumExists
<1>3. Total(b) = s[n]
  BY <1>2, TotalIsSum
<1> DEFINE g == [i \in 0 .. n - 1 |-> IF i < k THEN s[i] ELSE s[i + 1] - b[k]]
<1> HIDE DEF n
<1>4. /\ \A i \in 0 .. n : s[i] \in Int
      /\ s[0] = 0
      /\ \A i \in 1 .. n : s[i] = s[i - 1] + b[i]
  BY <1>2 DEF IsSum
<1>5. b[k] \in Int /\ k \in Nat /\ 1 <= k /\ k <= n /\ n \in Nat
  BY <1>1
<1>6. ASSUME NEW i \in 0 .. n - 1
      PROVE  /\ g[i] \in Int
             /\ i < k => g[i] = s[i]
             /\ i >= k => g[i] = s[i + 1] - b[k]
  <2>1. i \in 0 .. n /\ i + 1 \in 0 .. n /\ i \in Int
    BY <1>5
  <2>2. s[i] \in Int /\ s[i + 1] \in Int
    BY <1>4, <2>1
  <2> QED BY <1>5, <2>1, <2>2
<1>7. g = [i \in 0 .. n - 1 |-> g[i]] /\ DOMAIN g = 0 .. n - 1
  OBVIOUS
<1> HIDE DEF g
<1>8. IsSum(g, e, n - 1)
  <2>1. g \in [0 .. n - 1 -> Int]
    BY <1>6, <1>7
  <2>2. g[0] = 0
    <3>1. 0 \in 0 .. n - 1 /\ 0 < k
      BY <1>5
    <3> QED BY <1>4, <1>6, <3>1
  <2>3. ASSUME NEW i \in 1 .. n - 1 PROVE g[i] = g[i - 1] + e[i]
    <3>1. /\ i \in 1 .. n /\ i + 1 \in 1 .. n /\ (i + 1) - 1 = i
          /\ i \in 0 .. n - 1 /\ i - 1 \in 0 .. n - 1 /\ i - 1 + 1 = i
          /\ i \in 0 .. n /\ i - 1 \in 0 .. n /\ i + 1 \in 0 .. n
          /\ i \in Int
      BY <1>5
    <3>2. s[i] = s[i - 1] + b[i] /\ s[i + 1] = s[(i + 1) - 1] + b[i + 1]
      BY <1>4, <3>1
    <3>3. s[i + 1] = s[i] + b[i + 1]
      BY <3>1, <3>2
    <3>4. /\ s[i] \in Int /\ s[i - 1] \in Int /\ s[i + 1] \in Int
          /\ b[i] \in Int /\ b[i + 1] \in Int
      BY <1>1, <1>4, <3>1
    <3>5. e[i] = IF i < k THEN b[i] ELSE b[i + 1]
      BY <1>1
    <3>6. /\ i < k => g[i] = s[i]
          /\ i >= k => g[i] = s[i + 1] - b[k]
          /\ i - 1 < k => g[i - 1] = s[i - 1]
          /\ i - 1 >= k => g[i - 1] = s[i - 1 + 1] - b[k]
      BY <1>6, <3>1
    <3>7. i - 1 >= k => g[i - 1] = s[i] - b[k]
      BY <3>1, <3>6
    <3>8. CASE i < k
      <4>1. g[i] = s[i] /\ g[i - 1] = s[i - 1] /\ e[i] = b[i]
        BY <1>5, <3>1, <3>5, <3>6, <3>8
      <4> QED BY <3>2, <4>1
    <3>9. CASE i = k
      <4>1. g[i] = s[i + 1] - b[i] /\ g[i - 1] = s[i - 1] /\ e[i] = b[i + 1]
        BY <1>5, <3>1, <3>5, <3>6, <3>9
      <4>2. \A p, x, y \in Int : ((p + x) + y) - x = p + y
        OBVIOUS
      <4>3. ((s[i - 1] + b[i]) + b[i + 1]) - b[i] = s[i - 1] + b[i + 1]
        BY <3>4, <4>2, Zenon
      <4> QED BY <3>2, <3>3, <4>1, <4>3
    <3>10. CASE i > k
      <4>1. g[i] = s[i + 1] - b[k] /\ g[i - 1] = s[i] - b[k] /\ e[i] = b[i + 1]
        BY <1>5, <3>1, <3>5, <3>6, <3>7, <3>10
      <4>2. \A p, x, y \in Int : (p + y) - x = (p - x) + y
        OBVIOUS
      <4>3. (s[i] + b[i + 1]) - b[k] = (s[i] - b[k]) + b[i + 1]
        <5>1. b[k] \in Int
          BY <1>5
        <5> QED BY <3>4, <4>2, <5>1, Zenon
      <4> QED BY <3>3, <4>1, <4>3
    <3> QED BY <1>5, <3>1, <3>8, <3>9, <3>10
  <2> QED BY <2>1, <2>2, <2>3 DEF IsSum
<1>9. Total(e) = g[n - 1]
  BY <1>1, <1>8, TotalIsSum
<1>10. g[n - 1] = s[n] - b[k]
  <2>1. n - 1 \in 0 .. n - 1 /\ n - 1 + 1 = n /\ n \in 1 .. n
    BY <1>5
  <2>2. s[n] = s[n - 1] + b[n] /\ s[n] \in Int /\ s[n - 1] \in Int
        /\ b[n] \in Int
    <3>1. n - 1 \in 0 .. n /\ n \in 0 .. n
      BY <1>5
    <3> QED BY <1>1, <1>4, <2>1, <3>1
  <2>3. n - 1 < k => g[n - 1] = s[n - 1]
    BY <1>6, <2>1
  <2>4. n - 1 >= k => g[n - 1] = s[n] - b[k]
    <3>1. n - 1 >= k => g[n - 1] = s[n - 1 + 1] - b[k]
      BY <1>6, <2>1
    <3> QED BY <2>1, <3>1
  <2>5. CASE k = n
    <3>1. g[n - 1] = s[n - 1] /\ b[k] = b[n]
      BY <1>5, <2>3, <2>5
    <3> QED BY <2>2, <3>1
  <2>6. CASE k < n
    BY <1>5, <2>4, <2>6
  <2> QED BY <1>5, <2>5, <2>6
<1> QED BY <1>3, <1>9, <1>10

-----------------------------------------------------------------------------
(* What the cold store is charged.                                         *)

(* The charges of a list of sessions are a list of that length.            *)
LEMMA ChargesAre ==
  ASSUME NEW list \in Seq(SessionIds), NEW sessions \in [SessionIds -> SessionMeta]
  PROVE  /\ Charges(list, sessions) \in Seq(Int)
         /\ Len(Charges(list, sessions)) = Len(list)
         /\ \A i \in 1 .. Len(list) :
              Charges(list, sessions)[i] = sessions[list[i]].swapFileBytes
<1> DEFINE n == Len(list)
           b == Charges(list, sessions)
<1>1. n \in Nat /\ DOMAIN list = 1 .. n /\ \A i \in 1 .. n : list[i] \in SessionIds
  OBVIOUS
<1>2. \A i \in 1 .. n : sessions[list[i]].swapFileBytes \in Int
  BY <1>1 DEF SessionMeta
<1>3. b = [i \in 1 .. n |-> sessions[list[i]].swapFileBytes]
  BY <1>1 DEF Charges
<1> HIDE DEF n, b
<1> QED BY <1>1, <1>2, <1>3 DEF n, b

(* A step that leaves the list alone, and the charges of its sessions.     *)
LEMMA ChargesKept ==
  ASSUME ColdAccounting, UNCHANGED <<mColdLru, mColdUsedBytes>>,
         \A s \in Elems(mColdLru) :
           mSessions'[s].swapFileBytes = mSessions[s].swapFileBytes
  PROVE  ColdAccounting'
<1>1. \A i \in DOMAIN mColdLru :
        mSessions'[mColdLru[i]].swapFileBytes = mSessions[mColdLru[i]].swapFileBytes
  BY DEF Elems
<1>2. Charges(mColdLru, mSessions') = Charges(mColdLru, mSessions)
  BY <1>1 DEF Charges
<1>3. SwappedBytes' = SwappedBytes
  BY <1>2 DEF SwappedBytes
<1> QED BY <1>3 DEF ColdAccounting

(* A session that leaves the cold store takes its own charge with it.      *)
LEMMA LeavingIsRefunded ==
  ASSUME IInv, ColdAccounting, NEW id \in SessionIds, IsSwapped(id), LeavesCold(id),
         \A s \in SessionIds : s # id => mSessions'[s] = mSessions[s],
         mSessions' \in [SessionIds -> SessionMeta]
  PROVE  ColdAccounting'
<1> DEFINE n == Len(mColdLru)
           k == Position(mColdLru, id)
           b == Charges(mColdLru, mSessions)
           rest == Erase(mColdLru, id)
           e == Charges(rest, mSessions')
<1>1. /\ mSessions \in [SessionIds -> SessionMeta]
      /\ mColdLru \in Seq(SessionIds) /\ NoRepeat(mColdLru) /\ id \in Elems(mColdLru)
  BY DEF IInv, TypeOK, LruMirrorsSessions
<1>2. n \in Nat /\ k \in 1 .. n /\ mColdLru[k] = id /\ DOMAIN mColdLru = 1 .. n
  BY <1>1, PositionFinds
<1>3. /\ rest \in Seq(SessionIds) /\ Len(rest) = n - 1
      /\ Elems(rest) = Elems(mColdLru) \ {id}
  BY <1>1, EraseRemoves
<1>4. \A i \in 1 .. n - 1 :
        rest[i] = IF i < k THEN mColdLru[i] ELSE mColdLru[i + 1]
  BY DEF Erase
<1>5. /\ b \in Seq(Int) /\ Len(b) = n
      /\ \A i \in 1 .. n : b[i] = mSessions[mColdLru[i]].swapFileBytes
  BY <1>1, ChargesAre
<1>6. /\ e \in Seq(Int) /\ Len(e) = n - 1
      /\ \A i \in 1 .. n - 1 : e[i] = mSessions'[rest[i]].swapFileBytes
  BY <1>3, ChargesAre
<1>7. /\ mColdLru' = rest
      /\ mColdUsedBytes' = mColdUsedBytes - mSessions[id].swapFileBytes
      /\ mColdUsedBytes = Total(b)
  BY DEF LeavesCold, ColdAccounting, SwappedBytes
<1> HIDE DEF n, k, b, rest, e
<1>8. \A i \in 1 .. n - 1 : e[i] = IF i < k THEN b[i] ELSE b[i + 1]
  <2> SUFFICES ASSUME NEW i \in 1 .. n - 1
               PROVE  e[i] = IF i < k THEN b[i] ELSE b[i + 1]
    OBVIOUS
  <2>1. rest[i] \in Elems(rest)
    <3>1. i \in DOMAIN rest
      BY <1>2, <1>3
    <3> QED BY <3>1 DEF Elems
  <2>2. rest[i] \in SessionIds /\ rest[i] # id
    BY <1>2, <1>3, <2>1
  <2>3. e[i] = mSessions[rest[i]].swapFileBytes
    BY <1>6, <2>2
  <2>4. i \in 1 .. n /\ i + 1 \in 1 .. n
    BY <1>2
  <2>5. b[i] = mSessions[mColdLru[i]].swapFileBytes
        /\ b[i + 1] = mSessions[mColdLru[i + 1]].swapFileBytes
    BY <1>5, <2>4
  <2>6. rest[i] = IF i < k THEN mColdLru[i] ELSE mColdLru[i + 1]
    BY <1>4
  <2> QED BY <2>3, <2>5, <2>6
<1>9. Total(e) = Total(b) - b[k]
  BY <1>2, <1>5, <1>6, <1>8, TotalOfLess
<1>10. b[k] = mSessions[id].swapFileBytes
  BY <1>2, <1>5
<1>11. SwappedBytes' = Total(e)
  BY <1>7 DEF SwappedBytes, e
<1> QED BY <1>7, <1>9, <1>10, <1>11 DEF ColdAccounting

(* A session that is swapped out adds the size of its file.                *)
LEMMA SwapOutIsCharged ==
  ASSUME IInv, ColdAccounting, SwapOutCompletes
  PROVE  ColdAccounting'
<1> DEFINE n == Len(mColdLru)
           v == call.victim
           size == StateSize(VictimCells)
           b == Charges(mColdLru, mSessions)
           longer == Append(mColdLru, v)
           a == Charges(longer, mSessions')
<1>1. /\ mSessions \in [SessionIds -> SessionMeta] /\ v \in SessionIds
      /\ mColdLru \in Seq(SessionIds) /\ v \notin Elems(mColdLru)
  BY DEF SwapOutCompletes, IInv, TypeOK, LruMirrorsSessions, FrameOK, IsHot, IsSwapped
<1>2. mSessions' \in [SessionIds -> SessionMeta]
  BY NextPreserves DEF Next, CallStep, IInv, TypeOK
<1>3. /\ mSessions' = [mSessions EXCEPT
           ![v] = [@ EXCEPT !.state = "COLD", !.ctx = NoCtx,
                            !.swapFilePath = TRUE, !.swapFileBytes = size]]
      /\ mColdLru' = longer
      /\ mColdUsedBytes' = mColdUsedBytes + size
      /\ mColdUsedBytes = Total(b)
  BY DEF SwapOutCompletes, GoesCold, ColdAccounting, SwappedBytes
<1>4. /\ longer \in Seq(SessionIds) /\ Len(longer) = n + 1 /\ longer[n + 1] = v
      /\ n \in Nat /\ \A i \in 1 .. n : longer[i] = mColdLru[i]
      /\ DOMAIN mColdLru = 1 .. n
  BY <1>1
<1>5. /\ b \in Seq(Int) /\ Len(b) = n
      /\ \A i \in 1 .. n : b[i] = mSessions[mColdLru[i]].swapFileBytes
  BY <1>1, ChargesAre
<1>6. /\ a \in Seq(Int) /\ Len(a) = n + 1
      /\ \A i \in 1 .. n + 1 : a[i] = mSessions'[longer[i]].swapFileBytes
  BY <1>2, <1>4, ChargesAre
<1>7. SwappedBytes' = Total(a)
  BY <1>3 DEF SwappedBytes
<1> HIDE DEF n, v, size, b, longer, a
<1>8. /\ mSessions'[v].swapFileBytes = size
      /\ \A s \in SessionIds : s # v => mSessions'[s] = mSessions[s]
  BY <1>1, <1>3 DEF SessionMeta
<1>9. a[n + 1] = size
  <2>1. n + 1 \in 1 .. n + 1
    BY <1>4
  <2> QED BY <1>4, <1>6, <1>8, <2>1
<1>10. \A i \in 1 .. n : a[i] = b[i]
  <2> SUFFICES ASSUME NEW i \in 1 .. n PROVE a[i] = b[i]
    OBVIOUS
  <2>1. i \in 1 .. n + 1 /\ i \in DOMAIN mColdLru
    BY <1>4
  <2>2. mColdLru[i] \in SessionIds /\ mColdLru[i] # v
    BY <1>1, <2>1 DEF Elems
  <2> QED BY <1>4, <1>5, <1>6, <1>8, <2>1, <2>2
<1>11. size \in Int
  BY <1>4, <1>6, <1>9
<1>12. Total(a) = Total(b) + size
  BY <1>5, <1>6, <1>9, <1>10, <1>11, TotalOfMore
<1> QED BY <1>3, <1>7, <1>12 DEF ColdAccounting

(* A killed session was in the cold store, or is not charged for.          *)
LEMMA KillIsAccounted ==
  ASSUME IInv, ColdAccounting, NEW id \in SessionIds, Kill(id)
  PROVE  ColdAccounting'
<1>1. /\ mSessions \in [SessionIds -> SessionMeta]
      /\ mSessions' = [mSessions EXCEPT ![id] = NewMeta("NONE")]
  BY DEF IInv, TypeOK, Kill
<1>2. NewMeta("NONE") \in SessionMeta
  BY DEF NewMeta, SessionMeta
<1>3. /\ mSessions' \in [SessionIds -> SessionMeta]
      /\ \A s \in SessionIds : s # id => mSessions'[s] = mSessions[s]
  BY <1>1, <1>2
<1>4. CASE IsSwapped(id)
  BY <1>3, <1>4, LeavingIsRefunded DEF Kill
<1>5. CASE ~IsSwapped(id)
  <2>1. UNCHANGED <<mColdLru, mColdUsedBytes>>
    BY <1>5 DEF Kill
  <2>2. Elems(mColdLru) \subseteq SessionIds /\ id \notin Elems(mColdLru)
    BY <1>5 DEF IInv, LruMirrorsSessions
  <2>3. \A s \in Elems(mColdLru) :
          mSessions'[s].swapFileBytes = mSessions[s].swapFileBytes
    BY <1>3, <2>2
  <2> QED BY <2>1, <2>3, ChargesKept
<1> QED BY <1>4, <1>5

LEMMA ColdAccountingStep == IInv /\ ColdAccounting /\ [Next]_vars => ColdAccounting'
<1> SUFFICES ASSUME IInv, ColdAccounting, [Next]_vars PROVE ColdAccounting'
  OBVIOUS
<1>0. /\ mSessions \in [SessionIds -> SessionMeta]
      /\ mSessions' \in [SessionIds -> SessionMeta]
      /\ Elems(mColdLru) = {id \in SessionIds : IsSwapped(id)}
  BY NextPreserves DEF IInv, TypeOK, LruMirrorsSessions
<1>1. ASSUME UNCHANGED <<mColdLru, mColdUsedBytes>>,
             \A s \in SessionIds : IsSwapped(s) =>
               mSessions'[s].swapFileBytes = mSessions[s].swapFileBytes
      PROVE  ColdAccounting'
  BY <1>0, <1>1, ChargesKept
<1>2. CASE UNCHANGED <<mColdLru, mColdUsedBytes, mSessions>>
  BY <1>1, <1>2
<1>3. ASSUME NEW id \in SessionIds, CreateSession(id)
      PROVE  ColdAccounting'
  <2>1. /\ UNCHANGED <<mColdLru, mColdUsedBytes>>
        /\ mSessions[id].state = "NONE"
        /\ \A s \in SessionIds : s # id => mSessions'[s] = mSessions[s]
    BY <1>0, <1>3 DEF CreateSession
  <2> QED BY <1>1, <2>1 DEF IsSwapped
<1>4. ASSUME NEW id \in SessionIds, NEW n \in 0 .. MaxTokens, NEW d \in 0 .. nCtx,
             DecodeAndRecord(id, n, d)
      PROVE  ColdAccounting'
  <2>1. /\ mSessions' = [mSessions EXCEPT ![id].tokens = @ + n]
        /\ UNCHANGED <<mColdLru, mColdUsedBytes>>
    BY <1>4 DEF DecodeAndRecord, RecordTokens
  <2>2. \A s \in SessionIds : mSessions'[s].swapFileBytes = mSessions[s].swapFileBytes
    BY <1>0, <2>1 DEF SessionMeta
  <2> QED BY <1>1, <2>1, <2>2
<1>5. CASE SwapInLoadFails
  <2>1. /\ mSessions' = [mSessions EXCEPT ![call.id].tokens = nCtx]
        /\ UNCHANGED <<mColdLru, mColdUsedBytes>>
    BY <1>5 DEF SwapInLoadFails
  <2>2. \A s \in SessionIds : mSessions'[s].swapFileBytes = mSessions[s].swapFileBytes
    BY <1>0, <2>1 DEF SessionMeta
  <2> QED BY <1>1, <2>1, <2>2
<1>6. CASE SwapOutPrunes
  <2>1. /\ UNCHANGED <<mColdLru, mColdUsedBytes>>
        /\ \A s \in SessionIds : s # call.victim => mSessions'[s] = mSessions[s]
        /\ call.victim \in SessionIds /\ mSessions[call.victim].state = "HOT"
    BY <1>0, <1>6 DEF SwapOutPrunes, IInv, FrameOK, IsHot
  <2> QED BY <1>1, <2>1 DEF IsSwapped
<1>7. ASSUME NEW c \in Contexts, SwapInNew(c)
      PROVE  ColdAccounting'
  <2>1. /\ UNCHANGED <<mColdLru, mColdUsedBytes>> /\ ~IsSwapped(call.id)
        /\ \A s \in SessionIds : s # call.id => mSessions'[s] = mSessions[s]
    BY <1>7, MovesOneSession DEF SwapInNew, IsSwapped
  <2> QED BY <1>1, <2>1
<1>8. ASSUME NEW c \in Contexts, SwapInLoads(c)
      PROVE  ColdAccounting'
  <2>1. /\ call.id \in SessionIds /\ IsSwapped(call.id) /\ LeavesCold(call.id)
        /\ \A s \in SessionIds : s # call.id => mSessions'[s] = mSessions[s]
    BY <1>8, MovesOneSession DEF SwapInLoads, SwapInStep, IInv, FrameOK
  <2> QED BY <1>0, <2>1, LeavingIsRefunded
<1>9. CASE Destructor \/ Crash
  <2>1. mColdLru' = <<>> /\ mColdUsedBytes' = 0
    BY <1>9 DEF Destructor, Crash, ProcessEnds
  <2>2. Charges(<<>>, mSessions') \in Seq(Int) /\ Len(Charges(<<>>, mSessions')) = 0
    <3>1. <<>> \in Seq(SessionIds) /\ Len(<<>>) = 0
      OBVIOUS
    <3> QED BY <1>0, <3>1, ChargesAre, Zenon
  <2>3. Total(Charges(<<>>, mSessions')) = 0
    BY <2>2, TotalOfNone
  <2> QED BY <2>1, <2>3 DEF ColdAccounting, SwappedBytes
<1>10. CASE EvictColdKills
  BY <1>10, ColdVictimIsSwapped, KillIsAccounted DEF EvictColdKills
<1>11. ASSUME NEW id \in SessionIds, KillSession(id)
       PROVE  ColdAccounting'
  BY <1>11, KillIsAccounted DEF KillSession
<1>12. CASE SwapOutCompletes
  BY <1>12, SwapOutIsCharged
<1> QED
  BY <1>2, <1>3, <1>4, <1>5, <1>6, <1>7, <1>8, <1>9, <1>10, <1>11, <1>12
  DEF Next, CallStep, Request, Lifecycle, vars, smVars, ActivateHot, ActivateCold,
      SetHotLimit, SetColdLimit, EvictHotPicks, EvictHotReturns, EvictColdReturns,
      SwapOutFails, SwapInNoContext, SwapInDangles, Restart

LEMMA InitAccounts == Init => ColdAccounting
<1> SUFFICES ASSUME Init PROVE ColdAccounting
  OBVIOUS
<1>1. mColdLru = <<>> /\ mColdUsedBytes = 0
  BY DEF Init
<1>2. mSessions \in [SessionIds -> SessionMeta]
  BY InitEstablishes DEF IInv, TypeOK
<1>3. Charges(<<>>, mSessions) \in Seq(Int) /\ Len(Charges(<<>>, mSessions)) = 0
  <2>1. <<>> \in Seq(SessionIds) /\ Len(<<>>) = 0
    OBVIOUS
  <2> QED BY <1>2, <2>1, ChargesAre, Zenon
<1>4. Total(Charges(<<>>, mSessions)) = 0
  BY <1>3, TotalOfNone
<1> QED BY <1>1, <1>4 DEF ColdAccounting, SwappedBytes

(* mColdUsedBytes is at all times the sum of the sizes of the swapped-out  *)
(* sessions: what is added when a session goes out is what is subtracted   *)
(* when it comes in, is killed or is evicted, in whatever order, so that   *)
(* the unsigned counter never wraps below zero.                            *)
THEOREM ColdBytesAddUp == Spec => []ColdAccounting
  BY InitAccounts, ColdAccountingStep, InvariantHolds, PTL DEF Spec

-----------------------------------------------------------------------------
(* Contexts and files hold at most n_ctx cells.                            *)

(* Pruning never asks for a negative number of cells.                      *)
LEMMA PruneIsNat ==
  ASSUME IInv, SwapOutPrunes
  PROVE  Pruned(mSessions[call.victim].tokens, ToRemove(mSessions[call.victim].tokens)) \in Nat
<1> DEFINE n == mSessions[call.victim].tokens
           q == n \div 4
<1>1. n \in Nat /\ n > kMinKeepTokens /\ kMinKeepTokens \in Nat
  BY ConstantsAssumption DEF IInv, TypeOK, FrameOK, SwapOutPrunes, SessionMeta, Victim
<1>2. q \in Nat
  BY <1>1
<1> HIDE DEF n
<1>3. ToRemove(n) = Smaller(Larger(1, q), n - kMinKeepTokens)
  BY DEF ToRemove
<1> HIDE DEF q
<1>4. ToRemove(n) \in Nat
  BY <1>1, <1>2, <1>3 DEF Smaller, Larger
<1>5. Pruned(n, ToRemove(n)) \in Nat
  BY <1>4 DEF Pruned
<1> QED BY <1>5 DEF n

(* No context has more cells than llama_decode allows, nor has a file.     *)
CellsFit ==
  /\ \A c \in Contexts : cells[c] <= nCtx
  /\ \A id \in SessionIds : files[id].cells <= nCtx

(* A step that writes to one context and to one file at most.              *)
OneContext == cells' = cells \/ \E c, n : n <= nCtx /\ cells' = [cells EXCEPT ![c] = n]
OneFile == files' = files \/ \E i, f : f.cells <= nCtx /\ files' = [files EXCEPT ![i] = f]

LEMMA FitKept ==
  ASSUME cells \in [Contexts -> Nat], files \in [SessionIds -> File], CellsFit,
         OneContext, OneFile
  PROVE  CellsFit'
<1>1. ASSUME NEW c \in Contexts PROVE cells'[c] <= nCtx
  BY DEF CellsFit, OneContext
<1>2. ASSUME NEW id \in SessionIds PROVE files'[id].cells <= nCtx
  BY DEF CellsFit, OneFile
<1> QED BY <1>1, <1>2 DEF CellsFit

LEMMA CellsFitStep ==
  ASSUME IInv, CellsFit, [Next]_vars
  PROVE  CellsFit'
<1>0. /\ cells \in [Contexts -> Nat] /\ files \in [SessionIds -> File]
      /\ mSessions \in [SessionIds -> SessionMeta] /\ nCtx \in Nat /\ 0 <= nCtx
  BY ConstantsAssumption DEF IInv, TypeOK
<1>1. NoFile.cells <= nCtx /\ \A f : LeftOver(f).cells <= nCtx
  BY <1>0 DEF NoFile, LeftOver
<1>2. CASE UNCHANGED <<cells, files>>
  BY <1>2 DEF CellsFit
<1>3. ASSUME NEW id \in SessionIds, CreateSession(id) PROVE CellsFit'
  <2>1. OneContext /\ OneFile
    BY <1>1, <1>3 DEF CreateSession, OneContext, OneFile
  <2> QED BY <1>0, <2>1, FitKept
<1>4. ASSUME NEW i, Kill(i) PROVE CellsFit'
  <2>1. OneContext
    BY <1>0, <1>4 DEF Kill, llama_free, OneContext
  <2>2. OneFile
    BY <1>1, <1>4 DEF Kill, LeavesCold, OneFile
  <2> QED BY <1>0, <2>1, <2>2, FitKept
<1>5. CASE SwapOutFails \/ SwapOutPrunes \/ SwapOutCompletes
  <2> DEFINE v == call.victim
             c == mSessions[v].ctx
  <2>1. v \in SessionIds /\ c \in Contexts
    BY <1>0, <1>5 DEF IInv, TypeOK, FrameOK, SwapOutFails, SwapOutPrunes, SwapOutCompletes,
                      ContextsOwned, SessionMeta
  <2>2. cells[c] \in Nat /\ cells[c] <= nCtx
    BY <1>0, <2>1 DEF CellsFit
  <2>3. Written.cells <= nCtx
    BY <2>2 DEF Written, Saved, VictimCells, Victim
  <2>4. CASE SwapOutFails
    <3>1. OneContext /\ OneFile
      BY <1>1, <2>4 DEF SwapOutFails, CutOff, OneContext, OneFile
    <3> QED BY <1>0, <3>1, FitKept
  <2>5. CASE SwapOutPrunes
    <3> DEFINE r == Pruned(mSessions[v].tokens, ToRemove(mSessions[v].tokens))
               less == cells[c] - Smaller(r, cells[c])
    <3>1. cells' = [cells EXCEPT ![c] = less] /\ files' = [files EXCEPT ![v] = Written]
      BY <1>0, <2>1, <2>5 DEF SwapOutPrunes, Victim
    <3>2. r \in Nat
      BY <2>5, PruneIsNat
    <3>3. less <= nCtx
      <4> HIDE DEF r, c
      <4> QED BY <1>0, <2>2, <3>2 DEF Smaller
    <3> HIDE DEF less
    <3>4. OneContext /\ OneFile
      BY <2>3, <3>1, <3>3 DEF OneContext, OneFile
    <3> QED BY <1>0, <3>4, FitKept
  <2>6. CASE SwapOutCompletes
    <3>1. cells' = [cells EXCEPT ![c] = 0] /\ files' = [files EXCEPT ![v] = Written]
      BY <2>6 DEF SwapOutCompletes, GoesCold, llama_free, Victim
    <3>2. OneContext /\ OneFile
      BY <1>0, <2>3, <3>1 DEF OneContext, OneFile
    <3> QED BY <1>0, <3>2, FitKept
  <2> QED BY <1>5, <2>4, <2>5, <2>6
<1>6. ASSUME NEW c \in Contexts, SwapInNew(c) \/ SwapInLoads(c) PROVE CellsFit'
  <2>1. call.id \in SessionIds
    BY <1>6 DEF IInv, FrameOK, SwapInNew, SwapInLoads, SwapInStep
  <2>2. files[call.id].cells <= nCtx
    BY <2>1 DEF CellsFit
  <2>3. OneContext
    BY <1>0, <1>6, <2>2 DEF SwapInNew, SwapInLoads, BecomesHot, OneContext
  <2>4. OneFile
    BY <1>1, <1>6 DEF SwapInNew, SwapInLoads, LeavesCold, OneFile
  <2> QED BY <1>0, <2>3, <2>4, FitKept
<1>7. ASSUME NEW c, NEW n, llama_decode(c, n), files' = files PROVE CellsFit'
  <2>1. OneContext /\ OneFile
    <3> DEFINE more == cells[c] + n
    <3>1. more <= nCtx /\ cells' = [cells EXCEPT ![c] = more]
      BY <1>7 DEF llama_decode
    <3> HIDE DEF more
    <3> QED BY <1>7, <3>1 DEF OneContext, OneFile
  <2> QED BY <1>0, <2>1, FitKept
<1>8. ASSUME NEW id \in SessionIds, NEW n \in 0 .. MaxTokens, NEW d \in 0 .. nCtx,
             DecodeAndRecord(id, n, d)
      PROVE  CellsFit'
  BY <1>7, <1>8 DEF DecodeAndRecord, RecordTokens
<1>9. CASE Destructor \/ Crash
  <2>1. cells' = [c \in Contexts |-> 0] /\ files' = [id \in SessionIds |-> LeftOver(files[id])]
    BY <1>9 DEF Destructor, Crash, ProcessEnds
  <2> QED BY <1>0, <1>1, <2>1 DEF CellsFit
<1> QED
  BY <1>2, <1>3, <1>4, <1>5, <1>6, <1>8, <1>9
  DEF Next, CallStep, Request, Lifecycle, vars, smVars, ActivateHot, ActivateCold,
      SetHotLimit, SetColdLimit, EvictHotPicks, EvictHotReturns, EvictColdReturns,
      KillSession, EvictColdKills, SwapInNoContext, SwapInLoadFails, SwapInDangles, Restart

-----------------------------------------------------------------------------
(* A cold store in which every session fits.                               *)

(* Every limit in use has room for all sessions at their largest.          *)
Ample ==
  /\ IsFiniteSet(SessionIds)
  /\ \A bytes \in ColdLimits \cup {kDefaultColdLimitBytes} :
       Cardinality(SessionIds) * StateSize(nCtx) <= bytes

(* A total is at most its length times its largest summand.                *)
LEMMA TotalIsBounded ==
  ASSUME NEW b \in Seq(Int), NEW m \in Nat, \A i \in 1 .. Len(b) : b[i] <= m
  PROVE  Total(b) <= Len(b) * m
<1> DEFINE n == Len(b)
<1>0. n \in Nat /\ \A i \in 1 .. n : b[i] \in Int /\ b[i] <= m
  OBVIOUS
<1>1. PICK s : IsSum(s, b, n)
  BY SumExists
<1> HIDE DEF n
<1>2. \A i \in 0 .. n : s[i] \in Int
  BY <1>1 DEF IsSum
<1> DEFINE over == {i \in 0 .. n : ~(s[i] <= i * m)}
<1>3. over = {}
  <2>1. SUFFICES ASSUME over # {} PROVE FALSE
    OBVIOUS
  <2>2. over \in SUBSET Nat
    OBVIOUS
  <2>3. PICK k \in over : \A i \in over : k <= i
    BY <2>1, <2>2, LeastExists
  <2>4. k # 0
    BY <1>1, <2>3 DEF IsSum
  <2>5. k \in 1 .. n /\ k - 1 \in 0 .. n /\ k - 1 \notin over
    BY <1>0, <2>3, <2>4
  <2>6. s[k] = s[k - 1] + b[k] /\ s[k - 1] <= (k - 1) * m /\ b[k] <= m
    BY <1>0, <1>1, <2>5 DEF IsSum
  <2>7. s[k] <= ((k - 1) * m) + m
    <3>1. s[k - 1] \in Int /\ b[k] \in Int /\ (k - 1) * m \in Int
      BY <1>0, <1>2, <2>5
    <3> DEFINE p == (k - 1) * m
    <3> HIDE DEF p
    <3> QED BY <2>6, <3>1 DEF p
  <2>8. ((k - 1) * m) + m = k * m
    BY <2>5
  <2> QED BY <2>3, <2>7, <2>8
<1>4. s[n] <= n * m
  <2>1. n \in 0 .. n
    BY <1>0
  <2> QED BY <1>3, <2>1
<1>5. Total(b) = s[n]
  BY <1>1, TotalIsSum DEF n
<1> QED BY <1>4, <1>5 DEF n

(* mColdLru holds each session once at most.                               *)
LEMMA ColdListIsShort ==
  ASSUME IInv, IsFiniteSet(SessionIds)
  PROVE  /\ Len(mColdLru) \in Nat /\ Cardinality(SessionIds) \in Nat
         /\ Len(mColdLru) <= Cardinality(SessionIds)
<1> DEFINE n == Len(mColdLru)
<1>1. /\ n \in Nat /\ DOMAIN mColdLru = 1 .. n
      /\ mColdLru \in [1 .. n -> SessionIds]
  BY DEF IInv, TypeOK
<1>2. \A i, j \in 1 .. n : mColdLru[i] = mColdLru[j] => i = j
  BY <1>1 DEF IInv, LruMirrorsSessions, NoRepeat
<1> HIDE DEF n
<1>3. mColdLru \in Injection(1 .. n, SessionIds)
  BY <1>1, <1>2, Zenon DEF Injection, IsInjective
<1>4. Cardinality(1 .. n) <= Cardinality(SessionIds)
  BY <1>3, FS_Injection
<1>5. Cardinality(1 .. n) = n
  BY <1>1, FS_Interval
<1>6. Cardinality(SessionIds) \in Nat
  BY FS_CardinalityType
<1> QED BY <1>1, <1>4, <1>5, <1>6 DEF n

(* No swap file is larger than that of a full context.                     *)
LEMMA ChargeIsBounded ==
  ASSUME IInv, SwapFilesIntact, CellsFit, NEW id \in SessionIds, IsSwapped(id)
  PROVE  mSessions[id].swapFileBytes <= StateSize(nCtx)
<1>1. /\ files[id].cells \in Nat /\ files[id].cells <= nCtx
      /\ nCtx \in Nat /\ HeaderBytes \in Nat /\ CellBytes \in Nat
  BY ConstantsAssumption DEF IInv, TypeOK, File, CellsFit
<1>2. mSessions[id].swapFileBytes = HeaderBytes + CellBytes * files[id].cells
  BY DEF SwapFilesIntact, StateSize
<1>3. \A c, n, k \in Nat : n <= k => c * n <= c * k
  OBVIOUS
<1>4. CellBytes * files[id].cells <= CellBytes * nCtx
  BY <1>1, <1>3
<1>5. CellBytes * files[id].cells \in Nat /\ CellBytes * nCtx \in Nat
  BY <1>1
<1> DEFINE p == CellBytes * files[id].cells
           q == CellBytes * nCtx
<1>6. HeaderBytes + p <= HeaderBytes + q
  <2> HIDE DEF p, q
  <2> QED BY <1>1, <1>4, <1>5 DEF p, q
<1> QED BY <1>2, <1>6 DEF StateSize
(* The limit that setColdLimit or load() has set.                          *)
LimitKnown == mColdLimitBytes \in ColdLimits \cup {kDefaultColdLimitBytes}

(* What is known of a manager whose cold store is ample.                   *)
AmpleInv == IInv /\ SwapFilesIntact /\ ColdAccounting /\ CellsFit /\ LimitKnown

LEMMA NeverOver ==
  ASSUME Ample, AmpleInv
  PROVE  ~(mColdUsedBytes > mColdLimitBytes)
<1> DEFINE n == Len(mColdLru)
           m == StateSize(nCtx)
           b == Charges(mColdLru, mSessions)
<1>1. /\ mColdLru \in Seq(SessionIds) /\ mSessions \in [SessionIds -> SessionMeta]
      /\ mColdUsedBytes \in Int /\ mColdLimitBytes \in Nat
  BY DEF AmpleInv, IInv, TypeOK
<1>2. b \in Seq(Int) /\ Len(b) = n
      /\ \A i \in 1 .. n : b[i] = mSessions[mColdLru[i]].swapFileBytes
  BY <1>1, ChargesAre
<1>3. \A i \in 1 .. n : mColdLru[i] \in SessionIds /\ IsSwapped(mColdLru[i])
  BY <1>1 DEF AmpleInv, IInv, LruMirrorsSessions, Elems
<1>4. m \in Nat
  BY StateSizeIsNat, ConstantsAssumption
<1>5. \A i \in 1 .. n : b[i] <= m
  <2>1. \A id \in SessionIds : IsSwapped(id) => mSessions[id].swapFileBytes <= m
    BY ChargeIsBounded DEF AmpleInv
  <2> HIDE DEF m, b, n
  <2> QED BY <1>2, <1>3, <2>1
<1>6. mColdUsedBytes = Total(b)
  BY DEF AmpleInv, ColdAccounting, SwappedBytes
<1> HIDE DEF b, m
<1>7. Total(b) <= n * m
  BY <1>2, <1>4, <1>5, TotalIsBounded
<1>8. n \in Nat /\ Cardinality(SessionIds) \in Nat /\ n <= Cardinality(SessionIds)
  BY ColdListIsShort DEF Ample, AmpleInv
<1>9. Cardinality(SessionIds) * m <= mColdLimitBytes
  BY DEF Ample, AmpleInv, LimitKnown, m
<1> HIDE DEF n
<1>10. \A c, k, l \in Nat : k <= l => k * c <= l * c
  OBVIOUS
<1>11. n * m <= Cardinality(SessionIds) * m
  BY <1>4, <1>8, <1>10
<1>12. n * m \in Nat /\ Cardinality(SessionIds) * m \in Nat
  BY <1>4, <1>8
<1> DEFINE p == n * m
           q == Cardinality(SessionIds) * m
<1>13. p \in Nat /\ q \in Nat /\ p <= q /\ q <= mColdLimitBytes /\ mColdUsedBytes <= p
  BY <1>6, <1>7, <1>9, <1>11, <1>12
<1> HIDE DEF p, q
<1> QED BY <1>1, <1>13

LEMMA LimitKnownStep == LimitKnown /\ [Next]_vars => LimitKnown'
<1> SUFFICES ASSUME LimitKnown, [Next]_vars PROVE LimitKnown'
  OBVIOUS
<1> USE DEF LimitKnown
<1>1. CASE Request
  BY <1>1 DEF Request, CreateSession, KillSession, Kill, ActivateHot, ActivateCold,
              DecodeAndRecord, RecordTokens, SetHotLimit, SetColdLimit
<1>2. CASE Lifecycle
  BY <1>2 DEF Lifecycle, Destructor, Crash, Restart, ProcessEnds, smVars
<1>3. CASE CallStep
  BY <1>3 DEF CallStep, EvictHotPicks, EvictHotReturns, SwapOutFails, SwapOutPrunes,
              SwapOutCompletes, GoesCold, EvictColdKills, Kill, EvictColdReturns,
              SwapInDangles, smVars, SwapInNoContext, SwapInLoadFails, SwapInNew,
              SwapInLoads, BecomesHot
<1> QED BY <1>1, <1>2, <1>3 DEF Next, vars, smVars

(* A session that is being activated is still there.                       *)
ActivatedExists ==
  call.op = "activateForInfer" => mSessions[call.id].state # "NONE"

LEMMA ActivatedExistsStep ==
  ASSUME Ample, AmpleInv, ActivatedExists, [Next]_vars
  PROVE  ActivatedExists' /\ ~SwapInDangles
<1>0. IInv /\ call \in Frame /\ mSessions \in [SessionIds -> SessionMeta]
  BY DEF AmpleInv, IInv, TypeOK
<1>1. ~SwapInDangles
  BY <1>0 DEF SwapInDangles, SwapInStep, ActivatedExists, IInv, FrameOK
<1> SUFFICES ActivatedExists'
  BY <1>1
<1>2. ~EvictColdKills
  BY NeverOver DEF EvictColdKills, ColdIsOver
<1>3. ASSUME call' = Idle PROVE ActivatedExists'
  BY <1>3 DEF ActivatedExists, Idle
<1>4. ASSUME call'.op = call.op, call'.id = call.id,
             \A s \in SessionIds : mSessions[s].state # "NONE" => mSessions'[s].state # "NONE"
      PROVE  ActivatedExists'
  BY <1>0, <1>4 DEF ActivatedExists, IInv, FrameOK
<1>5. CASE Request
  <2>1. ASSUME NEW id \in SessionIds, ActivateCold(id) PROVE ActivatedExists'
    BY <2>1 DEF ActivateCold, ActivatedExists
  <2>2. (\E c \in HotLimits : SetHotLimit(c)) \/ (\E c \in ColdLimits : SetColdLimit(c))
          => ActivatedExists'
    BY DEF SetHotLimit, SetColdLimit, ActivatedExists, Idle
  <2>3. ASSUME NEW id \in SessionIds,
               \/ CreateSession(id) \/ KillSession(id) \/ ActivateHot(id)
               \/ \E n \in 0 .. MaxTokens, d \in 0 .. nCtx : DecodeAndRecord(id, n, d)
        PROVE  call' = Idle
    BY <2>3 DEF CreateSession, KillSession, ActivateHot, DecodeAndRecord, RecordTokens, Ready
  <2> QED BY <1>3, <1>5, <2>1, <2>2, <2>3 DEF Request
<1>6. CASE Lifecycle
  <2>1. CASE Restart
    BY <1>4, <2>1 DEF Restart, smVars
  <2> QED BY <1>3, <1>6, <2>1 DEF Lifecycle, Destructor, Crash, ProcessEnds
<1>7. CASE EvictHotPicks
  BY <1>0, <1>4, <1>7 DEF EvictHotPicks, Frame
<1>8. CASE EvictHotReturns \/ EvictColdReturns \/ SwapOutFails
  <2>1. mSessions' = mSessions
    BY <1>8 DEF EvictHotReturns, EvictColdReturns, SwapOutFails
  <2>2. call' = Idle \/ (call'.op = call.op /\ call'.id = call.id)
    BY <1>0, <1>8 DEF EvictHotReturns, EvictColdReturns, SwapOutFails, AfterEvictHot, Frame
  <2> QED BY <1>3, <1>4, <2>1, <2>2
<1>9. CASE SwapOutPrunes
  <2>1. call' = call /\ \A s \in SessionIds : mSessions'[s].state = mSessions[s].state
    BY <1>0, <1>9 DEF SwapOutPrunes, SessionMeta
  <2> QED BY <1>4, <2>1
<1>10. CASE SwapOutCompletes
  <2>1. call'.op = call.op /\ call'.id = call.id
    BY <1>0, <1>10 DEF SwapOutCompletes, GoesCold, Frame
  <2>2. \A s \in SessionIds : mSessions[s].state # "NONE" => mSessions'[s].state # "NONE"
    BY <1>0, <1>10, MovesOneSession
  <2> QED BY <1>4, <2>1, <2>2
<1>11. CASE SwapInNoContext \/ SwapInLoadFails \/ \E c \in Contexts : SwapInNew(c) \/ SwapInLoads(c)
  BY <1>3, <1>11 DEF SwapInNoContext, SwapInLoadFails, SwapInNew, SwapInLoads, BecomesHot
<1>12. CASE UNCHANGED vars
  BY <1>4, <1>12 DEF vars, smVars
<1> QED
  BY <1>1, <1>2, <1>5, <1>6, <1>7, <1>8, <1>9, <1>10, <1>11, <1>12 DEF Next, CallStep

(* The manager has one way into the undefined state.                       *)
LEMMA OnlyDanglingIsUndefined ==
  ASSUME IInv, proc # "undefined", [Next]_vars, ~SwapInDangles
  PROVE  proc' # "undefined"
<1>1. CASE Request
  BY <1>1 DEF Request, CreateSession, KillSession, Kill, ActivateHot, ActivateCold,
              DecodeAndRecord, RecordTokens, SetHotLimit, SetColdLimit
<1>2. CASE Lifecycle
  BY <1>2 DEF Lifecycle, Destructor, Crash, Restart, ProcessEnds
<1>3. CASE CallStep
  BY <1>3 DEF CallStep, EvictHotPicks, EvictHotReturns, SwapOutFails, SwapOutPrunes,
              SwapOutCompletes, GoesCold, EvictColdKills, Kill, EvictColdReturns,
              SwapInNoContext, SwapInLoadFails, SwapInNew, SwapInLoads, BecomesHot
<1> QED BY <1>1, <1>2, <1>3 DEF Next, vars

LEMMA AmpleStep == AmpleInv /\ [Next]_vars => AmpleInv'
  BY NextPreserves, SwapFilesStep, ColdAccountingStep, CellsFitStep, LimitKnownStep
  DEF AmpleInv

LEMMA InitIsAmple == Init => AmpleInv /\ ActivatedExists
<1> SUFFICES ASSUME Init PROVE AmpleInv /\ ActivatedExists
  OBVIOUS
<1>1. CellsFit
  BY ConstantsAssumption DEF Init, NoFile, CellsFit
<1>2. SwapFilesIntact
  BY DEF Init, SwapFilesIntact, IsSwapped, NewMeta
<1> QED BY <1>1, <1>2, InitEstablishes, InitAccounts
        DEF AmpleInv, LimitKnown, Init, ActivatedExists, Idle

(* Only a request or the end of the process takes a session away.          *)
KeepsSessions ==
  call.pc # "idle" /\ proc' # "down" =>
    \A id \in SessionIds : mSessions[id].state # "NONE" => mSessions'[id].state # "NONE"

(* In a cold store that is ample for all sessions, evictColdIfNeeded never *)
(* kills one, so that activateForInfer never uses one it has killed, the   *)
(* flaw of a store that is not.                                            *)
THEOREM AmpleStoreForgetsNothing ==
  ASSUME Ample
  PROVE  Spec => []ActivationSurvivesEviction /\ [][KeepsSessions]_vars
<1>1. Init => AmpleInv /\ ActivatedExists /\ ActivationSurvivesEviction
  BY InitIsAmple DEF Init, ActivationSurvivesEviction
<1>2. AmpleInv /\ [Next]_vars => AmpleInv'
  BY AmpleStep
<1>3. AmpleInv /\ ActivatedExists /\ [Next]_vars => ActivatedExists'
  BY ActivatedExistsStep
<1>4. AmpleInv /\ ActivatedExists /\ ActivationSurvivesEviction /\ [Next]_vars
        => ActivationSurvivesEviction'
  BY ActivatedExistsStep, OnlyDanglingIsUndefined DEF AmpleInv, ActivationSurvivesEviction
<1>5. AmpleInv /\ [Next]_vars => [KeepsSessions]_vars
  <2> SUFFICES ASSUME AmpleInv, [Next]_vars PROVE [KeepsSessions]_vars
    OBVIOUS
  <2>1. [Spares]_vars /\ ~(mColdUsedBytes > mColdLimitBytes)
    BY SparingStep, NeverOver DEF AmpleInv
  <2> QED BY <2>1 DEF Spares, KeepsSessions
<1> QED BY <1>1, <1>2, <1>3, <1>4, <1>5, PTL DEF Spec


=============================================================================
