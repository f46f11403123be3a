----------------------- MODULE SessionManagerProofs -----------------------
(***************************************************************************)
(* Proofs about SessionManager, for every set of session ids, every size   *)
(* of the limits and every combination of failing llama calls.             *)
(***************************************************************************)
EXTENDS SessionManager, WellFoundedInduction, TLAPS

-----------------------------------------------------------------------------
(* A non-empty set of naturals has a least element.                        *)
LEMMA LeastExists ==
  ASSUME NEW T \in SUBSET Nat, T # {}
  PROVE  \E m \in T : \A k \in T : m <= k
<1> DEFINE R == OpToRel(<, Nat)
<1>1. \A x, y \in Nat : x < y => <<x, y>> \in R
  BY DEF OpToRel
<1>2. IsWellFoundedOn(R, Nat)
  BY NatLessThanWellFounded
<1> HIDE DEF R
<1>3. PICK m \in T : \A k \in T : ~ (<<k, m>> \in R)
  BY <1>2, WFMin
<1>4. \A k \in T : ~ (k < m)
  BY <1>1, <1>3
<1> QED BY <1>3, <1>4

-----------------------------------------------------------------------------
(* The two list operations of the LRU lists.                               *)

(* Position finds the id: the iterator lruIt of a member points to it.     *)
LEMMA PositionFinds ==
  ASSUME NEW list, NEW id \in Elems(list)
  PROVE  Position(list, id) \in DOMAIN list /\ list[Position(list, id)] = id
  BY DEF Position, Elems

(* Erasing a member of a list without repetitions removes that member and  *)
(* nothing else.                                                           *)
LEMMA EraseRemoves ==
  ASSUME NEW S, NEW list \in Seq(S), NoRepeat(list), NEW id \in Elems(list)
  PROVE  /\ Erase(list, id) \in Seq(S)
         /\ Len(Erase(list, id)) = Len(list) - 1
         /\ NoRepeat(Erase(list, id))
         /\ Elems(Erase(list, id)) = Elems(list) \ {id}
<1> DEFINE k == Position(list, id)
           n == Len(list)
           e == Erase(list, id)
<1>1. k \in 1 .. n /\ list[k] = id
  BY PositionFinds
<1>2. n \in Nat /\ n >= 1 /\ DOMAIN list = 1 .. n
  BY <1>1
<1>3. e = [i \in 1 .. n - 1 |-> IF i < k THEN list[i] ELSE list[i + 1]]
  BY DEF Erase
<1>4. e \in Seq(S) /\ Len(e) = n - 1 /\ DOMAIN e = 1 .. n - 1
  BY <1>1, <1>2, <1>3
<1>5. \A i \in 1 .. n - 1 : e[i] = IF i < k THEN list[i] ELSE list[i + 1]
  BY <1>3
<1>6. NoRepeat(e)
  <2> DEFINE pos(i) == IF i < k THEN i ELSE i + 1
  <2>1. \A i \in 1 .. n - 1 : pos(i) \in 1 .. n /\ e[i] = list[pos(i)]
    BY <1>1, <1>2, <1>5
  <2>2. ASSUME NEW i \in 1 .. n - 1, NEW j \in 1 .. n - 1, e[i] = e[j]
        PROVE  i = j
    <3>1. pos(i) = pos(j)
      BY <2>1, <2>2, <1>2 DEF NoRepeat
    <3> QED BY <3>1, <1>1, <1>2
  <2> QED BY <2>2, <1>4 DEF NoRepeat
<1>7. Elems(e) = Elems(list) \ {id}
  <2>1. ASSUME NEW x \in Elems(e) PROVE x \in Elems(list) \ {id}
    BY <1>1, <1>2, <1>4, <1>5 DEF NoRepeat, Elems
  <2>2. ASSUME NEW x \in Elems(list) \ {id} PROVE x \in Elems(e)
    <3>1. PICK j \in 1 .. n : list[j] = x
      BY <1>2 DEF Elems
    <3>2. CASE j < k
      BY <3>1, <3>2, <1>1, <1>2, <1>4, <1>5 DEF Elems
    <3>3. CASE j > k
      <4>1. j - 1 \in 1 .. n - 1 /\ e[j - 1] = x
        BY <3>1, <3>3, <1>1, <1>2, <1>5
      <4> QED BY <4>1, <1>4 DEF Elems
    <3>4. j # k
      BY <3>1, <1>1
    <3> QED BY <3>1, <3>2, <3>3, <3>4, <1>1
  <2> QED BY <2>1, <2>2
<1> QED BY <1>4, <1>6, <1>7

(* Appending an id that is not in the list adds it at the end.             *)
LEMMA AppendAdds ==
  ASSUME NEW S, NEW list \in Seq(S), NoRepeat(list),
         NEW id \in S, id \notin Elems(list)
  PROVE  /\ Append(list, id) \in Seq(S)
         /\ Len(Append(list, id)) = Len(list) + 1
         /\ NoRepeat(Append(list, id))
         /\ Elems(Append(list, id)) = Elems(list) \cup {id}
<1> DEFINE n == Len(list)
           a == Append(list, id)
<1>1. /\ a \in Seq(S) /\ Len(a) = n + 1 /\ DOMAIN a = 1 .. n + 1
      /\ \A i \in 1 .. n : a[i] = list[i]
      /\ a[n + 1] = id
      /\ n \in Nat /\ DOMAIN list = 1 .. n
  OBVIOUS
<1>2. NoRepeat(a)
  BY <1>1 DEF NoRepeat, Elems
<1>3. Elems(a) = Elems(list) \cup {id}
  <2>1. ASSUME NEW x \in Elems(a) PROVE x \in Elems(list) \cup {id}
    BY <1>1 DEF Elems
  <2>2. ASSUME NEW x \in Elems(list) \cup {id} PROVE x \in Elems(a)
    BY <1>1 DEF Elems
  <2> QED BY <2>1, <2>2
<1> QED BY <1>1, <1>2, <1>3

-----------------------------------------------------------------------------
(* The inductive invariant.                                                *)

(* What the loops rely on about the frame of the call in progress: the     *)
(* session that is being activated stays COLD until the call makes it HOT, *)
(* the session that is being swapped out is HOT until the save loop ends,  *)
(* setColdLimit runs no other loop and swaps nothing out, and a process    *)
(* that is down has no session.                                            *)
FrameOK ==
  /\ call.op = "activateForInfer" => call.id \in SessionIds /\ ~IsHot(call.id)
  /\ call.op = "setColdLimit" => call.pc = "evictCold" /\ call.victim = -1
  /\ call.pc = "swapIn" => call.op = "activateForInfer"
  /\ call.pc = "swapOut" => call.victim \in SessionIds /\ IsHot(call.victim)
  /\ proc = "down" => \A id \in SessionIds : mSessions[id].state = "NONE"

IInv == TypeOK /\ LruMirrorsSessions /\ ContextsOwned /\ FrameOK

(* No session, no context, no call: the manager as load() constructs it.   *)
LEMMA InitEstablishes == Init => IInv
<1> SUFFICES ASSUME Init PROVE IInv
  OBVIOUS
<1>1. TypeOK
  BY ConstantsAssumption
  DEF Init, TypeOK, SessionMeta, NewMeta, File, NoFile, Frame, Idle
<1>2. LruMirrorsSessions
  BY DEF Init, LruMirrorsSessions, NoRepeat, Elems, IsHot, IsSwapped, NewMeta
<1>3. ContextsOwned
  BY DEF Init, ContextsOwned, IsHot, NewMeta
<1>4. FrameOK
  BY DEF Init, FrameOK, Idle
<1> QED BY <1>1, <1>2, <1>3, <1>4 DEF IInv

(* The steps that only move the frame of the call (and, for the limits,    *)
(* store a new limit).                                                     *)
OnlyCallMoves ==
  \/ \E count \in HotLimits : SetHotLimit(count)
  \/ \E bytes \in ColdLimits : SetColdLimit(bytes)
  \/ \E id \in SessionIds : ActivateCold(id)
  \/ EvictHotPicks \/ EvictHotReturns \/ EvictColdReturns \/ SwapInNoContext

(* evictHotIfNeeded picks a member of mHotLru.                             *)
LEMMA HotVictimIsHot ==
  ASSUME IInv, HotVictim # -1
  PROVE  HotVictim \in SessionIds /\ IsHot(HotVictim)
<1> DEFINE candidates == {i \in DOMAIN mHotLru : mHotLru[i] # HotExclude}
           first == CHOOSE i \in candidates : \A j \in candidates : i <= j
<1>1. mHotLru \in Seq(SessionIds) /\ DOMAIN mHotLru = 1 .. Len(mHotLru)
  BY DEF IInv, TypeOK
<1>2. candidates # {} /\ HotVictim = mHotLru[first]
  BY DEF HotVictim
<1>3. \E i \in candidates : \A j \in candidates : i <= j
  <2>1. candidates \in SUBSET Nat
    BY <1>1
  <2> QED BY <2>1, <1>2, LeastExists
<1>4. first \in DOMAIN mHotLru
  BY <1>3
<1>5. HotVictim \in Elems(mHotLru)
  BY <1>2, <1>4 DEF Elems
<1> QED BY <1>5 DEF IInv, LruMirrorsSessions

(* The frames that control returns to.                                     *)
LEMMA ReturnFrames ==
  ASSUME IInv
  PROVE  Idle \in Frame /\ AfterEvictHot \in Frame
<1>1. Idle \in Frame
  BY DEF Idle, Frame
<1>2. call \in Frame
  BY DEF IInv, TypeOK
<1>3. [call EXCEPT !.pc = "swapIn", !.victim = -1] \in Frame
  BY <1>2 DEF Frame
<1> QED BY <1>1, <1>3 DEF AfterEvictHot

LEMMA OnlyCallMovesPreserves == IInv /\ OnlyCallMoves => IInv'
<1> SUFFICES ASSUME IInv, OnlyCallMoves PROVE IInv'
  OBVIOUS
<1> USE DEF IInv
<1>1. UNCHANGED <<mSessions, mHotLru, mColdLru, mColdUsedBytes, live, cells,
                  files, proc>>
  BY DEF OnlyCallMoves, SetHotLimit, SetColdLimit, ActivateCold, EvictHotPicks,
         EvictHotReturns, EvictColdReturns, SwapInNoContext
<1>2. mHotLimit' \in Nat \ {0} /\ mColdLimitBytes' \in Nat
  BY ConstantsAssumption
  DEF OnlyCallMoves, SetHotLimit, SetColdLimit, ActivateCold, EvictHotPicks,
      EvictHotReturns, EvictColdReturns, SwapInNoContext, TypeOK, LimitFor, Larger
<1>3. LruMirrorsSessions' /\ ContextsOwned'
  BY <1>1 DEF LruMirrorsSessions, ContextsOwned, IsHot, IsSwapped, NoRepeat, Elems
<1>4. call' \in Frame /\ FrameOK'
  <2>0. proc = "up"
    BY DEF OnlyCallMoves, SetHotLimit, SetColdLimit, ActivateCold, Ready,
           EvictHotPicks, EvictHotReturns, EvictColdReturns, SwapInNoContext,
           SwapInStep
  <2>1. CASE (\E count \in HotLimits : SetHotLimit(count))
             \/ (\E bytes \in ColdLimits : SetColdLimit(bytes))
    BY <2>0, <2>1, <1>1 DEF SetHotLimit, SetColdLimit, Idle, Frame, FrameOK
  <2>2. ASSUME NEW id \in SessionIds, ActivateCold(id)
        PROVE  call' \in Frame /\ FrameOK'
    BY <2>0, <2>2, <1>1 DEF ActivateCold, Frame, FrameOK, IsHot
  <2>3. CASE EvictHotPicks
    BY <2>0, <2>3, <1>1, HotVictimIsHot
    DEF EvictHotPicks, TypeOK, Frame, FrameOK, IsHot
  <2>4. CASE EvictHotReturns
    <3>1. call' \in Frame
      BY <2>4, ReturnFrames DEF EvictHotReturns
    <3>2. FrameOK'
      BY <2>0, <2>4, <1>1 DEF EvictHotReturns, AfterEvictHot, Idle, TypeOK, Frame,
                              FrameOK, IsHot
    <3> QED BY <3>1, <3>2
  <2>5. CASE EvictColdReturns
    <3>1. [call EXCEPT !.pc = "evictHot", !.victim = -1] \in Frame
      BY DEF TypeOK, Frame
    <3>2. FrameOK'
      BY <2>0, <2>5, <1>1 DEF EvictColdReturns, Idle, TypeOK, Frame, FrameOK, IsHot
    <3> QED BY <3>1, <3>2, <2>5, ReturnFrames DEF EvictColdReturns
  <2>6. CASE SwapInNoContext
    BY <2>0, <2>6, ReturnFrames DEF SwapInNoContext, Idle, FrameOK
  <2> QED BY <2>1, <2>2, <2>3, <2>4, <2>5, <2>6 DEF OnlyCallMoves
<1>5. TypeOK'
  BY <1>1, <1>2, <1>4 DEF TypeOK
<1> QED BY <1>3, <1>4, <1>5

(* g is f with the tokens of session id set to n.                          *)
TokensOnly(f, g, id, n) ==
  /\ g \in [SessionIds -> SessionMeta]
  /\ \A s \in SessionIds : /\ g[s].state = f[s].state
                           /\ g[s].ctx = f[s].ctx
                           /\ g[s].swapFilePath = f[s].swapFilePath
                           /\ g[s].swapFileBytes = f[s].swapFileBytes
                           /\ s # id => g[s].tokens = f[s].tokens
  /\ g[id].tokens = n

(* Changing the number of tokens of one session changes nothing else.      *)
LEMMA TokensChange ==
  ASSUME NEW f \in [SessionIds -> SessionMeta], NEW id \in SessionIds, NEW n \in Nat,
         NEW g, g = [f EXCEPT ![id].tokens = n]
  PROVE  TokensOnly(f, g, id, n)
<1>1. f[id] \in SessionMeta
  OBVIOUS
<1>2. [f[id] EXCEPT !.tokens = n] \in SessionMeta
  BY <1>1 DEF SessionMeta
<1>3. g = [f EXCEPT ![id] = [f[id] EXCEPT !.tokens = n]]
  OBVIOUS
<1>4. g \in [SessionIds -> SessionMeta]
  BY <1>2, <1>3
<1>5. g[id] = [f[id] EXCEPT !.tokens = n] /\ \A s \in SessionIds : s # id => g[s] = f[s]
  BY <1>3
<1> QED BY <1>1, <1>4, <1>5 DEF SessionMeta, TokensOnly

(* createSession adds a COLD session without a file: neither list changes. *)
LEMMA CreateSessionPreserves ==
  ASSUME NEW id \in SessionIds, IInv, CreateSession(id)
  PROVE  IInv'
<1> USE DEF IInv, CreateSession, Ready
<1>1. TypeOK'
  BY DEF TypeOK, SessionMeta, NewMeta, File, NoFile, LeftOver
<1>2. \A s \in SessionIds : /\ IsHot(s)' <=> IsHot(s)
                            /\ IsSwapped(s)' <=> IsSwapped(s)
                            /\ mSessions'[s].ctx = mSessions[s].ctx
  BY DEF TypeOK, IsHot, IsSwapped, NewMeta, ContextsOwned
<1>3. LruMirrorsSessions' /\ ContextsOwned'
  BY <1>2 DEF LruMirrorsSessions, ContextsOwned, NoRepeat, Elems
<1>4. FrameOK'
  BY DEF FrameOK, Idle
<1> QED BY <1>1, <1>3, <1>4

(* The failing and the aborting steps leave the lists and contexts alone.  *)
LEMMA FailurePreserves ==
  ASSUME IInv, SwapOutFails \/ SwapInLoadFails \/ SwapInDangles \/ Restart
  PROVE  IInv'
<1> USE DEF IInv
<1>1. CASE SwapOutFails
  <2>1. TypeOK'
    <3>1. CutOff \in File
      BY DEF File, NoFile, LeftOver, Saved, CutOff
    <3>2. files' \in [SessionIds -> File]
      BY <1>1, <3>1 DEF SwapOutFails, TypeOK
    <3> QED BY <1>1, <3>2, ReturnFrames DEF SwapOutFails, TypeOK
  <2>2. LruMirrorsSessions' /\ ContextsOwned'
    BY <1>1 DEF SwapOutFails, LruMirrorsSessions, ContextsOwned, IsHot, IsSwapped,
                NoRepeat, Elems
  <2>3. FrameOK'
    BY <1>1 DEF SwapOutFails, AfterEvictHot, Idle, TypeOK, Frame, FrameOK, IsHot
  <2> QED BY <2>1, <2>2, <2>3
<1>2. CASE SwapInLoadFails
  <2>1. TypeOK'
    <3>1. mSessions' \in [SessionIds -> SessionMeta]
      <4>1. mSessions' = [mSessions EXCEPT ![call.id].tokens = nCtx]
            /\ mSessions \in [SessionIds -> SessionMeta]
            /\ call.id \in SessionIds /\ nCtx \in Nat
        BY <1>2, ConstantsAssumption
        DEF SwapInLoadFails, SwapInStep, TypeOK, FrameOK
      <4>2. TokensOnly(mSessions, mSessions', call.id, nCtx)
        BY <4>1, TokensChange, Zenon
      <4> QED BY <4>2 DEF TokensOnly
    <3> QED BY <1>2, <3>1, ReturnFrames DEF SwapInLoadFails, TypeOK
  <2>2. \A s \in SessionIds : /\ IsHot(s)' <=> IsHot(s)
                              /\ IsSwapped(s)' <=> IsSwapped(s)
                              /\ mSessions'[s].ctx = mSessions[s].ctx
    BY <1>2 DEF SwapInLoadFails, TypeOK, SessionMeta, IsHot, IsSwapped
  <2>3. LruMirrorsSessions' /\ ContextsOwned'
    BY <1>2, <2>2 DEF SwapInLoadFails, LruMirrorsSessions, ContextsOwned,
                      NoRepeat, Elems
  <2>4. FrameOK'
    BY <1>2 DEF SwapInLoadFails, SwapInStep, FrameOK, Idle
  <2> QED BY <2>1, <2>3, <2>4
<1>3. CASE SwapInDangles \/ Restart
  <2>1. UNCHANGED smVars /\ proc' \in {"up", "undefined"}
    BY <1>3 DEF SwapInDangles, Restart
  <2>2. TypeOK' /\ LruMirrorsSessions'
    BY <2>1 DEF smVars, TypeOK, LruMirrorsSessions, IsHot, IsSwapped, NoRepeat, Elems
  <2>3. ContextsOwned'
    BY <1>3, <2>1 DEF SwapInDangles, SwapInStep, Restart, smVars, ContextsOwned,
                      FrameOK, IsHot
  <2>4. FrameOK'
    BY <2>1 DEF smVars, FrameOK, IsHot
  <2> QED BY <2>2, <2>3, <2>4
<1> QED BY <1>1, <1>2, <1>3

(* touchHot permutes mHotLru.                                              *)
LEMMA TouchedPermutes ==
  ASSUME IInv, NEW id \in SessionIds, IsHot(id)
  PROVE  /\ Touched(id) \in Seq(SessionIds)
         /\ Len(Touched(id)) = Len(mHotLru)
         /\ NoRepeat(Touched(id))
         /\ Elems(Touched(id)) = Elems(mHotLru)
<1>1. /\ mHotLru \in Seq(SessionIds) /\ NoRepeat(mHotLru)
      /\ id \in Elems(mHotLru)
  BY DEF IInv, TypeOK, LruMirrorsSessions
<1> DEFINE e == Erase(mHotLru, id)
<1>2. /\ e \in Seq(SessionIds) /\ NoRepeat(e)
      /\ Len(e) = Len(mHotLru) - 1
      /\ Elems(e) = Elems(mHotLru) \ {id}
  BY <1>1, EraseRemoves
<1> HIDE DEF e
<1>3. /\ Append(e, id) \in Seq(SessionIds) /\ NoRepeat(Append(e, id))
      /\ Len(Append(e, id)) = Len(e) + 1
      /\ Elems(Append(e, id)) = Elems(e) \cup {id}
  BY <1>2, AppendAdds
<1>4. Len(mHotLru) \in Nat
  BY <1>1
<1> QED BY <1>1, <1>2, <1>3, <1>4 DEF Touched, e

(* A change of tokens, cells and the order of mHotLru only.                *)
LEMMA UsePreserves ==
  ASSUME IInv, TypeOK',
         NoRepeat(mHotLru'), Elems(mHotLru') = Elems(mHotLru),
         UNCHANGED <<mColdLru, live, call, proc>>,
         \A s \in SessionIds : /\ mSessions'[s].state = mSessions[s].state
                               /\ mSessions'[s].ctx = mSessions[s].ctx
                               /\ mSessions'[s].swapFilePath = mSessions[s].swapFilePath
  PROVE  IInv'
<1>1. \A s \in SessionIds : /\ IsHot(s)' <=> IsHot(s)
                            /\ IsSwapped(s)' <=> IsSwapped(s)
  BY DEF IsHot, IsSwapped
<1>2. LruMirrorsSessions'
  BY <1>1 DEF IInv, LruMirrorsSessions, NoRepeat, Elems
<1>3. ContextsOwned'
  BY <1>1 DEF IInv, ContextsOwned
<1>4. FrameOK'
  BY <1>1 DEF IInv, FrameOK
<1> QED BY <1>2, <1>3, <1>4 DEF IInv

(* A HOT hit in activateForInfer.                                          *)
LEMMA ActivateHotPreserves ==
  ASSUME IInv, NEW id \in SessionIds, ActivateHot(id)
  PROVE  IInv'
<1>1. TypeOK'
  BY TouchedPermutes DEF IInv, TypeOK, ActivateHot
<1> QED BY <1>1, TouchedPermutes, UsePreserves DEF ActivateHot

(* An inference step and the recordTokens that follows it.                 *)
LEMMA DecodeAndRecordPreserves ==
  ASSUME IInv, NEW id \in SessionIds, NEW n \in 0 .. MaxTokens, NEW d \in 0 .. nCtx,
         DecodeAndRecord(id, n, d)
  PROVE  IInv'
<1>1. /\ IsHot(id) /\ RecordTokens(id, n)
      /\ cells' = [cells EXCEPT ![mSessions[id].ctx] = @ + d]
  BY DEF DecodeAndRecord, llama_decode
<1>2. mHotLru' = Touched(id)
  BY <1>1 DEF RecordTokens
<1>3. mSessions \in [SessionIds -> SessionMeta]
  BY DEF IInv, TypeOK
<1>4. n \in Nat /\ d \in Nat /\ mSessions[id].tokens \in Nat
  BY <1>3, ConstantsAssumption DEF SessionMeta
<1> DEFINE m == mSessions[id].tokens + n
<1>5. mSessions' = [mSessions EXCEPT ![id].tokens = m]
  BY <1>1, <1>3 DEF RecordTokens
<1>6. m \in Nat
  BY <1>4
<1> HIDE DEF m
<1>7. TokensOnly(mSessions, mSessions', id, m)
  BY <1>3, <1>5, <1>6, TokensChange, Zenon
<1>8. cells' \in [Contexts -> Nat]
  <2>1. cells \in [Contexts -> Nat] /\ mSessions[id].ctx \in Contexts
    BY <1>1, <1>3 DEF IInv, TypeOK, ContextsOwned, SessionMeta
  <2> QED BY <1>1, <1>4, <2>1
<1>9. UNCHANGED <<mColdLru, mHotLimit, mColdLimitBytes, mColdUsedBytes, live,
                  files, call, proc>>
  BY <1>1 DEF RecordTokens
<1>10. TypeOK'
  BY <1>1, <1>2, <1>7, <1>8, <1>9, TouchedPermutes DEF IInv, TypeOK, TokensOnly
<1>11. NoRepeat(mHotLru') /\ Elems(mHotLru') = Elems(mHotLru)
  BY <1>1, <1>2, TouchedPermutes
<1>12. \A s \in SessionIds : /\ mSessions'[s].state = mSessions[s].state
                             /\ mSessions'[s].ctx = mSessions[s].ctx
                             /\ mSessions'[s].swapFilePath = mSessions[s].swapFilePath
  BY <1>7 DEF TokensOnly
<1> QED BY <1>9, <1>10, <1>11, <1>12, UsePreserves

(* One iteration of the save loop prunes the victim, which stays HOT.      *)
LEMMA SwapOutPrunesPreserves ==
  ASSUME IInv, SwapOutPrunes
  PROVE  IInv'
<1> DEFINE v == call.victim
           n == mSessions[v].tokens
           r == Pruned(n, ToRemove(n))
           c == mSessions[v].ctx
<1>1. /\ v \in SessionIds /\ IsHot(v)
      /\ mSessions \in [SessionIds -> SessionMeta]
      /\ cells \in [Contexts -> Nat]
  BY DEF IInv, TypeOK, FrameOK, SwapOutPrunes
<1>2. n \in Nat /\ c \in Contexts /\ cells[c] \in Nat
  BY <1>1 DEF SessionMeta, IInv, ContextsOwned
<1>3. n > kMinKeepTokens
  BY DEF SwapOutPrunes, Victim
<1> DEFINE m == n - r
<1>4. r \in Nat /\ m \in Nat
  BY <1>2, <1>3, ConstantsAssumption DEF Pruned, ToRemove, Smaller, Larger
<1>5. /\ mSessions' = [mSessions EXCEPT ![v].tokens = m]
      /\ cells' = [cells EXCEPT ![c] = cells[c] - Smaller(r, cells[c])]
      /\ files' = [files EXCEPT ![v] = Saved(n, cells[c])]
  BY <1>1 DEF SwapOutPrunes, Victim, VictimCells, Written
<1>6. UNCHANGED <<mHotLru, mColdLru, mHotLimit, mColdLimitBytes, mColdUsedBytes,
                  live, call, proc>>
  BY DEF SwapOutPrunes
<1> HIDE DEF r, m
<1>7. TokensOnly(mSessions, mSessions', v, m)
  BY <1>1, <1>4, <1>5, TokensChange, Zenon
<1>8. cells' \in [Contexts -> Nat]
  BY <1>1, <1>2, <1>4, <1>5 DEF Smaller
<1>9. files' \in [SessionIds -> File]
  BY <1>2, <1>5 DEF IInv, TypeOK, File, Saved
<1>10. TypeOK'
  BY <1>6, <1>7, <1>8, <1>9 DEF IInv, TypeOK, TokensOnly
<1>11. NoRepeat(mHotLru') /\ Elems(mHotLru') = Elems(mHotLru)
  BY <1>6 DEF IInv, LruMirrorsSessions
<1>12. \A s \in SessionIds : /\ mSessions'[s].state = mSessions[s].state
                             /\ mSessions'[s].ctx = mSessions[s].ctx
                             /\ mSessions'[s].swapFilePath = mSessions[s].swapFilePath
  BY <1>7 DEF TokensOnly
<1> QED BY <1>6, <1>10, <1>11, <1>12, UsePreserves

(* evictColdIfNeeded picks a swapped-out session, and not the excluded one *)
(* (which only shields the front of mColdLru, where it has no double).     *)
LEMMA ColdVictimIsSwapped ==
  ASSUME IInv, ColdIsOver
  PROVE  ColdVictim \in SessionIds /\ IsSwapped(ColdVictim) /\ ColdVictim # ColdExclude
<1>1. mColdLru \in Seq(SessionIds) /\ NoRepeat(mColdLru) /\ mColdLru # <<>>
  BY DEF IInv, TypeOK, LruMirrorsSessions, ColdIsOver
<1>2. /\ Head(mColdLru) = mColdLru[1] /\ 1 \in DOMAIN mColdLru
      /\ DOMAIN mColdLru = 1 .. Len(mColdLru) /\ Len(mColdLru) \in Nat \ {0}
  BY <1>1
<1>3. CASE Head(mColdLru) = ColdExclude
  <2>1. 2 \in DOMAIN mColdLru
    <3>1. Len(mColdLru) # 1
      BY <1>3 DEF ColdIsOver
    <3> QED BY <1>2, <3>1
  <2>2. mColdLru[2] # mColdLru[1]
    BY <1>1, <1>2, <2>1 DEF NoRepeat
  <2> QED BY <1>2, <1>3, <2>1, <2>2 DEF ColdVictim, Elems, IInv, LruMirrorsSessions
<1>4. CASE Head(mColdLru) # ColdExclude
  BY <1>2, <1>4 DEF ColdVictim, Elems, IInv, LruMirrorsSessions
<1> QED BY <1>3, <1>4

(* killSession takes the session out of the list it is in, and frees what  *)
(* it owns.                                                                *)
LEMMA KillPreserves ==
  ASSUME IInv, NEW id \in SessionIds, Kill(id), UNCHANGED call,
         call.pc # "swapOut", proc = "up"
  PROVE  IInv'
<1>1. /\ mSessions \in [SessionIds -> SessionMeta]
      /\ mHotLru \in Seq(SessionIds) /\ NoRepeat(mHotLru)
      /\ mColdLru \in Seq(SessionIds) /\ NoRepeat(mColdLru)
      /\ Elems(mHotLru) = {s \in SessionIds : IsHot(s)}
      /\ Elems(mColdLru) = {s \in SessionIds : IsSwapped(s)}
  BY DEF IInv, TypeOK, LruMirrorsSessions
<1>2. /\ mSessions' = [mSessions EXCEPT ![id] = NewMeta("NONE")]
      /\ UNCHANGED <<mHotLimit, mColdLimitBytes, proc>>
  BY DEF Kill
<1>3. NewMeta("NONE") \in SessionMeta
  BY DEF NewMeta, SessionMeta
<1>4. /\ mSessions' \in [SessionIds -> SessionMeta]
      /\ mSessions'[id] = NewMeta("NONE")
      /\ \A s \in SessionIds : s # id => mSessions'[s] = mSessions[s]
  BY <1>1, <1>2, <1>3
<1>5. ~IsHot(id)' /\ ~IsSwapped(id)' /\ mSessions'[id].ctx = NoCtx
  BY <1>4 DEF IsHot, IsSwapped, NewMeta
<1>6. \A s \in SessionIds : s # id => /\ IsHot(s)' <=> IsHot(s)
                                      /\ IsSwapped(s)' <=> IsSwapped(s)
                                      /\ mSessions'[s].ctx = mSessions[s].ctx
  BY <1>4 DEF IsHot, IsSwapped
<1>7. /\ mHotLru' \in Seq(SessionIds) /\ NoRepeat(mHotLru')
      /\ Elems(mHotLru') = Elems(mHotLru) \ {id}
  <2>1. CASE IsHot(id)
    BY <1>1, <2>1, EraseRemoves DEF Kill
  <2>2. CASE ~IsHot(id)
    BY <1>1, <2>2 DEF Kill
  <2> QED BY <2>1, <2>2
<1>8. /\ mColdLru' \in Seq(SessionIds) /\ NoRepeat(mColdLru')
      /\ Elems(mColdLru') = Elems(mColdLru) \ {id}
  <2>1. CASE IsSwapped(id)
    BY <1>1, <2>1, EraseRemoves DEF Kill, LeavesCold
  <2>2. CASE ~IsSwapped(id)
    BY <1>1, <2>2 DEF Kill
  <2> QED BY <2>1, <2>2
<1>9. LruMirrorsSessions'
  <2>1. /\ {s \in SessionIds : IsHot(s)'} = {s \in SessionIds : IsHot(s)} \ {id}
        /\ {s \in SessionIds : IsSwapped(s)'} = {s \in SessionIds : IsSwapped(s)} \ {id}
    BY <1>5, <1>6 DEF IsHot, IsSwapped
  <2> QED BY <1>1, <1>7, <1>8, <2>1, Zenon DEF LruMirrorsSessions, Elems, NoRepeat
<1>10. /\ live' \in SUBSET Contexts /\ cells' \in [Contexts -> Nat]
       /\ live' = live \ (IF IsHot(id) THEN {mSessions[id].ctx} ELSE {})
  BY DEF Kill, llama_free, IInv, TypeOK
<1>11. ContextsOwned'
  <2>1. /\ \A s \in SessionIds : IsHot(s) <=> mSessions[s].ctx # NoCtx
        /\ \A a, b \in SessionIds :
             IsHot(a) /\ mSessions[a].ctx = mSessions[b].ctx => a = b
        /\ live = {mSessions[s].ctx : s \in {t \in SessionIds : IsHot(t)}}
    BY DEF IInv, ContextsOwned
  <2>2. /\ \A s \in SessionIds : IsHot(s)' <=> mSessions'[s].ctx # NoCtx
        /\ \A a, b \in SessionIds :
             IsHot(a)' /\ mSessions'[a].ctx = mSessions'[b].ctx => a = b
    BY <1>5, <1>6, <2>1 DEF IsHot
  <2>3. live' = {mSessions'[s].ctx : s \in {t \in SessionIds : IsHot(t)'}}
    BY <1>5, <1>6, <1>10, <2>1 DEF IsHot
  <2> QED BY <1>2, <2>2, <2>3 DEF ContextsOwned
<1>12. mColdUsedBytes' \in Int /\ files' \in [SessionIds -> File]
  <2>1. mSessions[id].swapFileBytes \in Nat /\ NoFile \in File
    BY <1>1 DEF SessionMeta, NoFile, File
  <2> QED BY <2>1 DEF Kill, LeavesCold, IInv, TypeOK
<1>13. TypeOK'
  BY <1>2, <1>4, <1>7, <1>8, <1>10, <1>12 DEF IInv, TypeOK
<1>14. FrameOK'
  BY <1>2, <1>4 DEF IInv, FrameOK, IsHot, NewMeta
<1> QED BY <1>9, <1>11, <1>13, <1>14 DEF IInv

(* The size of a saved sequence is a natural number.                       *)
LEMMA StateSizeIsNat == \A n \in Nat : StateSize(n) \in Nat
<1>1. \A a, b \in Nat : a * b \in Nat
  OBVIOUS
<1> QED BY <1>1, ConstantsAssumption DEF StateSize

(* The end of swapOut moves the victim from one list to the other.         *)
LEMMA SwapOutCompletesPreserves ==
  ASSUME IInv, SwapOutCompletes
  PROVE  IInv'
<1> DEFINE v == call.victim
           c == mSessions[v].ctx
           meta == [mSessions[v] EXCEPT !.state = "COLD", !.ctx = NoCtx,
                                        !.swapFilePath = TRUE,
                                        !.swapFileBytes = StateSize(cells[c])]
<1>1. /\ mSessions \in [SessionIds -> SessionMeta]
      /\ mHotLru \in Seq(SessionIds) /\ NoRepeat(mHotLru)
      /\ mColdLru \in Seq(SessionIds) /\ NoRepeat(mColdLru)
      /\ Elems(mHotLru) = {s \in SessionIds : IsHot(s)}
      /\ Elems(mColdLru) = {s \in SessionIds : IsSwapped(s)}
      /\ cells \in [Contexts -> Nat] /\ live \in SUBSET Contexts
      /\ call \in Frame
  BY DEF IInv, TypeOK, LruMirrorsSessions
<1>2. v \in SessionIds /\ IsHot(v) /\ c \in Contexts /\ ~IsSwapped(v)
  BY <1>1 DEF IInv, FrameOK, ContextsOwned, SwapOutCompletes, SessionMeta, IsHot, IsSwapped
<1>3. mSessions[v].tokens \in Nat /\ cells[c] \in Nat /\ StateSize(cells[c]) \in Nat
  <2>1. mSessions[v].tokens \in Nat /\ cells[c] \in Nat
    BY <1>1, <1>2 DEF SessionMeta
  <2> QED BY <2>1, StateSizeIsNat
<1>4. /\ mSessions' = [mSessions EXCEPT ![v] = meta]
      /\ mHotLru' = Erase(mHotLru, v)
      /\ mColdLru' = Append(mColdLru, v)
      /\ mColdUsedBytes' = mColdUsedBytes + StateSize(cells[c])
      /\ live' = live \ {c} /\ cells' = [cells EXCEPT ![c] = 0]
      /\ files' = [files EXCEPT ![v] = Saved(mSessions[v].tokens, cells[c])]
      /\ call' = [call EXCEPT !.pc = "evictCold"]
      /\ UNCHANGED <<mHotLimit, mColdLimitBytes, proc>>
  BY <1>1, <1>2
  DEF SwapOutCompletes, GoesCold, Victim, VictimCells, Written, llama_free
<1>5. meta \in SessionMeta
  <2> DEFINE size == StateSize(cells[c])
  <2>1. size \in Nat /\ mSessions[v] \in SessionMeta
    BY <1>1, <1>2, <1>3
  <2> HIDE DEF size
  <2>2. [mSessions[v] EXCEPT !.state = "COLD", !.ctx = NoCtx, !.swapFilePath = TRUE,
                             !.swapFileBytes = size] \in SessionMeta
    BY <2>1 DEF SessionMeta
  <2> QED BY <2>2 DEF size
<1>6. /\ meta.state = "COLD" /\ meta.ctx = NoCtx /\ meta.swapFilePath
  BY <1>1, <1>2 DEF SessionMeta
<1> HIDE DEF meta
<1>7. /\ mSessions' \in [SessionIds -> SessionMeta]
      /\ mSessions'[v] = meta
      /\ \A s \in SessionIds : s # v => mSessions'[s] = mSessions[s]
  BY <1>1, <1>2, <1>4, <1>5
<1>8. /\ mSessions'[v].state = "COLD" /\ mSessions'[v].ctx = NoCtx
      /\ mSessions'[v].swapFilePath
  BY <1>6, <1>7
<1>9. \A s \in SessionIds : s # v => /\ IsHot(s)' <=> IsHot(s)
                                     /\ IsSwapped(s)' <=> IsSwapped(s)
                                     /\ mSessions'[s].ctx = mSessions[s].ctx
  BY <1>7 DEF IsHot, IsSwapped
<1>10. /\ mHotLru' \in Seq(SessionIds) /\ NoRepeat(mHotLru')
       /\ Elems(mHotLru') = Elems(mHotLru) \ {v}
  BY <1>1, <1>2, <1>4, EraseRemoves
<1>11. /\ mColdLru' \in Seq(SessionIds) /\ NoRepeat(mColdLru')
       /\ Elems(mColdLru') = Elems(mColdLru) \cup {v}
  BY <1>1, <1>2, <1>4, AppendAdds
<1>12. LruMirrorsSessions'
  <2>1. /\ {s \in SessionIds : IsHot(s)'} = {s \in SessionIds : IsHot(s)} \ {v}
        /\ {s \in SessionIds : IsSwapped(s)'} = {s \in SessionIds : IsSwapped(s)} \cup {v}
    BY <1>2, <1>8, <1>9 DEF IsHot, IsSwapped
  <2> QED BY <1>1, <1>10, <1>11, <2>1, Zenon DEF LruMirrorsSessions, Elems, NoRepeat
<1>13. ContextsOwned'
  <2>1. /\ \A s \in SessionIds : IsHot(s) <=> mSessions[s].ctx # NoCtx
        /\ \A a, b \in SessionIds :
             IsHot(a) /\ mSessions[a].ctx = mSessions[b].ctx => a = b
        /\ live = {mSessions[s].ctx : s \in {t \in SessionIds : IsHot(t)}}
        /\ proc' = "up"
    BY <1>4 DEF IInv, ContextsOwned, SwapOutCompletes
  <2>2. /\ \A s \in SessionIds : IsHot(s)' <=> mSessions'[s].ctx # NoCtx
        /\ \A a, b \in SessionIds :
             IsHot(a)' /\ mSessions'[a].ctx = mSessions'[b].ctx => a = b
    BY <1>8, <1>9, <2>1 DEF IsHot
  <2>3. live' = {mSessions'[s].ctx : s \in {t \in SessionIds : IsHot(t)'}}
    BY <1>2, <1>4, <1>8, <1>9, <2>1 DEF IsHot
  <2> QED BY <2>1, <2>2, <2>3 DEF ContextsOwned
<1>14. FrameOK'
  <2>1. call'.pc = "evictCold" /\ call'.op = call.op /\ call'.id = call.id /\ proc' = "up"
    BY <1>1, <1>4 DEF Frame, SwapOutCompletes
  <2>2. /\ call.op = "activateForInfer" => call.id # v
        /\ call.op # "setColdLimit"
    BY <1>2 DEF IInv, FrameOK, SwapOutCompletes
  <2> QED BY <1>7, <2>1, <2>2 DEF IInv, FrameOK, IsHot
<1>15. TypeOK'
  <2>1. call' \in Frame
    BY <1>1, <1>4 DEF Frame
  <2>2. files' \in [SessionIds -> File]
    BY <1>3, <1>4 DEF IInv, TypeOK, File, Saved
  <2>3. live' \in SUBSET Contexts /\ cells' \in [Contexts -> Nat]
    BY <1>1, <1>4
  <2>4. mColdUsedBytes' \in Int
    <3>1. mColdUsedBytes \in Int
      BY DEF IInv, TypeOK
    <3> QED BY <3>1, <1>3, <1>4
  <2>5. UNCHANGED <<mHotLimit, mColdLimitBytes, proc>>
    BY <1>4
  <2> QED BY <2>1, <2>2, <2>3, <2>4, <2>5, <1>7, <1>10, <1>11 DEF IInv, TypeOK
<1> QED BY <1>12, <1>13, <1>14, <1>15 DEF IInv

(* The successful endings of activateForInfer: a COLD session leaves       *)
(* mColdLru if it was there, and gets a context nobody else has.           *)
LEMMA SwapInPreserves ==
  ASSUME IInv, NEW c \in Contexts, SwapInNew(c) \/ SwapInLoads(c)
  PROVE  IInv'
<1> DEFINE id == call.id
           tokens == mSessions'[id].tokens
<1>1. /\ mSessions \in [SessionIds -> SessionMeta]
      /\ mHotLru \in Seq(SessionIds) /\ NoRepeat(mHotLru)
      /\ mColdLru \in Seq(SessionIds) /\ NoRepeat(mColdLru)
      /\ Elems(mHotLru) = {s \in SessionIds : IsHot(s)}
      /\ Elems(mColdLru) = {s \in SessionIds : IsSwapped(s)}
      /\ cells \in [Contexts -> Nat] /\ live \in SUBSET Contexts
      /\ files \in [SessionIds -> File]
  BY DEF IInv, TypeOK, LruMirrorsSessions
<1>2. id \in SessionIds /\ ~IsHot(id) /\ mSessions[id] \in SessionMeta /\ proc = "up"
  BY <1>1 DEF IInv, FrameOK, SwapInNew, SwapInLoads, SwapInStep
<1>3. \E t, n \in Nat : BecomesHot(id, c, t, n)
  BY <1>1, <1>2 DEF SwapInNew, SwapInLoads, SessionMeta, File
<1>4. PICK t \in Nat, n \in Nat : BecomesHot(id, c, t, n)
  BY <1>3
<1> DEFINE meta == [mSessions[id] EXCEPT !.state = "HOT", !.ctx = c, !.tokens = t,
                                         !.swapFileBytes = 0]
<1>5. /\ c \notin live /\ live' = live \cup {c}
      /\ cells' = [cells EXCEPT ![c] = n]
      /\ mSessions' = [mSessions EXCEPT ![id] = meta]
      /\ mHotLru' = Append(mHotLru, id)
      /\ call' = Idle
      /\ UNCHANGED <<mHotLimit, mColdLimitBytes, proc>>
  BY <1>1, <1>2, <1>4 DEF BecomesHot
<1>6. meta \in SessionMeta /\ meta.state = "HOT" /\ meta.ctx = c
  BY <1>2 DEF SessionMeta
<1> HIDE DEF meta
<1>7. /\ mSessions' \in [SessionIds -> SessionMeta]
      /\ mSessions'[id].state = "HOT" /\ mSessions'[id].ctx = c
      /\ \A s \in SessionIds : s # id => mSessions'[s] = mSessions[s]
  BY <1>1, <1>2, <1>5, <1>6
<1>8. /\ mHotLru' \in Seq(SessionIds) /\ NoRepeat(mHotLru')
      /\ Elems(mHotLru') = Elems(mHotLru) \cup {id}
  BY <1>1, <1>2, <1>5, AppendAdds
<1>9. /\ mColdLru' \in Seq(SessionIds) /\ NoRepeat(mColdLru')
      /\ Elems(mColdLru') = Elems(mColdLru) \ {id}
      /\ mColdUsedBytes' \in Int /\ files' \in [SessionIds -> File]
  <2>1. CASE SwapInNew(c)
    <3>1. ~IsSwapped(id)
      BY <2>1 DEF SwapInNew, IsSwapped
    <3> QED BY <1>1, <2>1, <3>1 DEF SwapInNew, IInv, TypeOK
  <2>2. CASE SwapInLoads(c)
    <3>1. id \in Elems(mColdLru) /\ LeavesCold(id)
      BY <1>1, <1>2, <2>2 DEF SwapInLoads
    <3>2. mSessions[id].swapFileBytes \in Nat /\ NoFile \in File
      BY <1>2 DEF SessionMeta, NoFile, File
    <3>3. mColdUsedBytes' \in Int /\ files' \in [SessionIds -> File]
      BY <1>1, <3>1, <3>2 DEF LeavesCold, IInv, TypeOK
    <3> QED BY <1>1, <3>1, <3>3, EraseRemoves DEF LeavesCold
  <2> QED BY <2>1, <2>2
<1>10. LruMirrorsSessions'
  <2>1. /\ {s \in SessionIds : IsHot(s)'} = {s \in SessionIds : IsHot(s)} \cup {id}
        /\ {s \in SessionIds : IsSwapped(s)'} = {s \in SessionIds : IsSwapped(s)} \ {id}
    BY <1>2, <1>7 DEF IsHot, IsSwapped
  <2> QED BY <1>1, <1>8, <1>9, <2>1, Zenon DEF LruMirrorsSessions, Elems, NoRepeat
<1>11. ContextsOwned'
  <2>1. /\ \A s \in SessionIds : IsHot(s) <=> mSessions[s].ctx # NoCtx
        /\ \A a, b \in SessionIds :
             IsHot(a) /\ mSessions[a].ctx = mSessions[b].ctx => a = b
        /\ live = {mSessions[s].ctx : s \in {x \in SessionIds : IsHot(x)}}
    BY <1>2 DEF IInv, ContextsOwned
  <2>2. c # NoCtx
    BY ConstantsAssumption
  <2>3. \A s \in SessionIds : mSessions[s].ctx # c
    BY <1>5, <2>1, <2>2
  <2>4. \A s \in SessionIds : IsHot(s)' <=> mSessions'[s].ctx # NoCtx
    BY <1>7, <2>1, <2>2 DEF IsHot
  <2>5. \A a, b \in SessionIds :
          IsHot(a)' /\ mSessions'[a].ctx = mSessions'[b].ctx => a = b
    BY <1>7, <2>1, <2>3 DEF IsHot
  <2>6. live' = {mSessions'[s].ctx : s \in {x \in SessionIds : IsHot(x)'}}
    BY <1>2, <1>5, <1>7, <2>1 DEF IsHot
  <2> QED BY <1>2, <1>5, <2>4, <2>5, <2>6 DEF ContextsOwned
<1>12. FrameOK'
  BY <1>2, <1>5 DEF FrameOK, Idle
<1>13. TypeOK'
  BY <1>1, <1>5, <1>7, <1>8, <1>9, ReturnFrames DEF IInv, TypeOK
<1> QED BY <1>10, <1>11, <1>12, <1>13 DEF IInv

(* A process that ends, in an orderly way or not, leaves no context.       *)
LEMMA EndPreserves ==
  ASSUME IInv, Destructor \/ Crash
  PROVE  IInv'
<1>1. ProcessEnds /\ live' = {}
  BY DEF Destructor, Crash, Ready, IInv, ContextsOwned
<1>2. TypeOK'
  <2>1. NewMeta("NONE") \in SessionMeta
    BY DEF NewMeta, SessionMeta
  <2>2. \A f \in File : LeftOver(f) \in File
    BY DEF LeftOver, NoFile, File
  <2>3. files' \in [SessionIds -> File]
    BY <1>1, <2>2 DEF ProcessEnds, IInv, TypeOK
  <2> QED BY <1>1, <2>1, <2>3, ReturnFrames, ConstantsAssumption
          DEF ProcessEnds, IInv, TypeOK
<1>3. LruMirrorsSessions'
  BY <1>1 DEF ProcessEnds, LruMirrorsSessions, NoRepeat, Elems, IsHot, IsSwapped, NewMeta
<1>4. ContextsOwned'
  BY <1>1 DEF ProcessEnds, ContextsOwned, IsHot, NewMeta
<1>5. FrameOK'
  BY <1>1 DEF ProcessEnds, FrameOK, Idle, NewMeta
<1> QED BY <1>2, <1>3, <1>4, <1>5 DEF IInv

(* Every step preserves the invariant.                                     *)
LEMMA NextPreserves == IInv /\ [Next]_vars => IInv'
<1> SUFFICES ASSUME IInv, [Next]_vars PROVE IInv'
  OBVIOUS
<1>1. CASE OnlyCallMoves
  BY <1>1, OnlyCallMovesPreserves
<1>2. ASSUME NEW id \in SessionIds,
             CreateSession(id) \/ KillSession(id) \/ ActivateHot(id)
      PROVE  IInv'
  <2>1. CASE KillSession(id)
    BY <2>1, KillPreserves DEF KillSession, Ready, Idle
  <2> QED BY <1>2, <2>1, CreateSessionPreserves, ActivateHotPreserves
<1>3. ASSUME NEW id \in SessionIds, NEW n \in 0 .. MaxTokens, NEW d \in 0 .. nCtx,
             DecodeAndRecord(id, n, d)
      PROVE  IInv'
  BY <1>3, DecodeAndRecordPreserves
<1>4. CASE SwapOutFails \/ SwapInLoadFails \/ SwapInDangles \/ Restart
  BY <1>4, FailurePreserves
<1>5. CASE SwapOutPrunes
  BY <1>5, SwapOutPrunesPreserves
<1>6. CASE SwapOutCompletes
  BY <1>6, SwapOutCompletesPreserves
<1>7. CASE EvictColdKills
  BY <1>7, ColdVictimIsSwapped, KillPreserves DEF EvictColdKills
<1>8. ASSUME NEW c \in Contexts, SwapInNew(c) \/ SwapInLoads(c)
      PROVE  IInv'
  BY <1>8, SwapInPreserves
<1>9. CASE Destructor \/ Crash
  BY <1>9, EndPreserves
<1>10. CASE UNCHANGED vars
  BY <1>10 DEF vars, smVars, IInv, TypeOK, LruMirrorsSessions, ContextsOwned,
               FrameOK, IsHot, IsSwapped, NoRepeat, Elems
<1> QED
  BY <1>1, <1>2, <1>3, <1>4, <1>5, <1>6, <1>7, <1>8, <1>9, <1>10
  DEF Next, CallStep, Request, Lifecycle, OnlyCallMoves

-----------------------------------------------------------------------------
(* IInv is invariant.                                                      *)
LEMMA InvariantHolds == Spec => []IInv
  BY InitEstablishes, NextPreserves, PTL DEF Spec

(* Every variable of the manager keeps its type, whatever fails: in        *)
(* particular the limits stay positive and no step reads a session or a    *)
(* context outside its set.                                                *)
THEOREM TypeCorrect == Spec => []TypeOK
<1>1. IInv => TypeOK
  BY DEF IInv
<1> QED BY <1>1, InvariantHolds, PTL

(* The LRU lists mirror the session map in every reachable state, for any  *)
(* number of sessions: no erase(lruIt) of session_manager.cpp ever uses an *)
(* iterator of the wrong list.                                             *)
THEOREM LruListsMirrorSessions == Spec => []LruMirrorsSessions
<1>1. IInv => LruMirrorsSessions
  BY DEF IInv
<1> QED BY <1>1, InvariantHolds, PTL

(* No llama_context is leaked, freed twice or shared by two sessions, on   *)
(* any path of swapOut, activateForInfer, killSession and the destructor.  *)
THEOREM ContextsAreOwned == Spec => []ContextsOwned
<1>1. IInv => ContextsOwned
  BY DEF IInv
<1> QED BY <1>1, InvariantHolds, PTL

-----------------------------------------------------------------------------
(* The cold store.                                                         *)

(* A session that leaves the cold store gives back its bytes and its place.*)
LEMMA LeavesColdShrinks ==
  ASSUME IInv, NEW id \in SessionIds, IsSwapped(id), LeavesCold(id)
  PROVE  mColdUsedBytes' <= mColdUsedBytes /\ Len(mColdLru') = Len(mColdLru) - 1
<1>1. /\ mColdLru \in Seq(SessionIds) /\ NoRepeat(mColdLru) /\ id \in Elems(mColdLru)
      /\ mColdUsedBytes \in Int /\ mSessions[id].swapFileBytes \in Nat
  BY DEF IInv, TypeOK, LruMirrorsSessions, SessionMeta
<1>2. mColdUsedBytes' <= mColdUsedBytes
  BY <1>1 DEF LeavesCold
<1>3. Len(mColdLru') = Len(mColdLru) - 1
  BY <1>1, EraseRemoves DEF LeavesCold
<1> QED BY <1>2, <1>3

LEMMA ColdLimitStep == IInv /\ ColdLimitHolds /\ [Next]_vars => ColdLimitHolds'
<1> SUFFICES ASSUME IInv, ColdLimitHolds, [Next]_vars PROVE ColdLimitHolds'
  OBVIOUS
<1> USE DEF ColdLimitHolds
<1>0. mColdUsedBytes \in Int /\ mColdLimitBytes \in Nat /\ Len(mColdLru) \in Nat
  BY DEF IInv, TypeOK
<1>1. CASE UNCHANGED <<mColdUsedBytes, mColdLimitBytes, mColdLru>> /\ call.pc # "evictCold"
  BY <1>1
<1>2. CASE call'.pc = "evictCold"
  BY <1>2
<1>3. CASE EvictColdReturns
  <2>1. /\ ~ColdIsOver
        /\ UNCHANGED <<mColdUsedBytes, mColdLimitBytes, mColdLru>>
    BY <1>3 DEF EvictColdReturns
  <2>2. mColdUsedBytes <= mColdLimitBytes \/ mColdLru = <<>> \/ Len(mColdLru) = 1
    BY <1>0, <2>1 DEF ColdIsOver
  <2>3. mColdLru = <<>> => Len(mColdLru) = 0
    OBVIOUS
  <2>4. mColdUsedBytes <= mColdLimitBytes \/ Len(mColdLru) = 0 \/ Len(mColdLru) = 1
    BY <2>2, <2>3, Zenon
  <2> DEFINE length == Len(mColdLru)
  <2>5. length \in Nat /\ (mColdUsedBytes <= mColdLimitBytes \/ length = 0 \/ length = 1)
    BY <1>0, <2>4
  <2> HIDE DEF length
  <2>6. mColdUsedBytes <= mColdLimitBytes \/ length <= 1
    BY <1>0, <2>5
  <2> QED BY <2>1, <2>6 DEF length
<1>4. ASSUME NEW id \in SessionIds, KillSession(id)
      PROVE  ColdLimitHolds'
  <2>1. call.pc # "evictCold" /\ mColdLimitBytes' = mColdLimitBytes
    BY <1>4 DEF KillSession, Kill, Ready, Idle
  <2>2. CASE IsSwapped(id)
    <3>1. mColdUsedBytes' <= mColdUsedBytes /\ Len(mColdLru') = Len(mColdLru) - 1
          /\ mColdUsedBytes' \in Int
      BY <1>4, <2>2, LeavesColdShrinks, NextPreserves DEF KillSession, Kill, IInv, TypeOK
    <3> QED BY <1>0, <2>1, <3>1
  <2>3. CASE ~IsSwapped(id)
    BY <1>4, <2>1, <2>3 DEF KillSession, Kill
  <2> QED BY <2>2, <2>3
<1>5. ASSUME NEW c \in Contexts, SwapInLoads(c)
      PROVE  ColdLimitHolds'
  <2>1. /\ call.pc # "evictCold" /\ mColdLimitBytes' = mColdLimitBytes
        /\ call.id \in SessionIds
    BY <1>5 DEF SwapInLoads, SwapInStep, BecomesHot, IInv, FrameOK
  <2>2. mColdUsedBytes' <= mColdUsedBytes /\ Len(mColdLru') = Len(mColdLru) - 1
        /\ mColdUsedBytes' \in Int
    BY <1>5, <2>1, LeavesColdShrinks, NextPreserves DEF SwapInLoads, IInv, TypeOK
  <2> QED BY <1>0, <2>1, <2>2
<1>6. CASE Destructor \/ Crash
  BY <1>6, ConstantsAssumption DEF Destructor, Crash, ProcessEnds
<1>7. CASE OnlyCallMoves
  <2>1. CASE \E bytes \in ColdLimits : SetColdLimit(bytes)
    BY <2>1, <1>2 DEF SetColdLimit, Idle
  <2> QED BY <1>7, <1>1, <1>3, <2>1
          DEF OnlyCallMoves, SetHotLimit, ActivateCold, EvictHotPicks,
              EvictHotReturns, SwapInNoContext, SwapInStep, Ready, Idle
<1>8. ASSUME NEW id \in SessionIds, CreateSession(id) \/ ActivateHot(id)
      PROVE  ColdLimitHolds'
  BY <1>8, <1>1 DEF CreateSession, ActivateHot, Ready, Idle
<1>9. ASSUME NEW id \in SessionIds, NEW n \in 0 .. MaxTokens, NEW d \in 0 .. nCtx,
             DecodeAndRecord(id, n, d)
      PROVE  ColdLimitHolds'
  BY <1>9, <1>1 DEF DecodeAndRecord, RecordTokens, Ready, Idle
<1>10. CASE SwapOutFails \/ SwapInLoadFails \/ SwapOutPrunes
  BY <1>10, <1>1 DEF SwapOutFails, SwapInLoadFails, SwapOutPrunes, SwapInStep
<1>11. CASE SwapInDangles \/ Restart
  BY <1>11 DEF SwapInDangles, Restart, smVars
<1>12. CASE SwapOutCompletes \/ EvictColdKills
  BY <1>12, <1>2 DEF SwapOutCompletes, GoesCold, EvictColdKills, IInv, TypeOK, Frame
<1>13. ASSUME NEW c \in Contexts, SwapInNew(c)
       PROVE  ColdLimitHolds'
  BY <1>13, <1>1 DEF SwapInNew, SwapInStep, BecomesHot
<1>14. CASE UNCHANGED vars
  BY <1>14 DEF vars, smVars
<1> QED
  BY <1>4, <1>5, <1>6, <1>7, <1>8, <1>9, <1>10, <1>11, <1>12, <1>13, <1>14
  DEF Next, CallStep, Request, Lifecycle, OnlyCallMoves

(* Outside the eviction loop the swap files stay within the cold limit, or *)
(* a single session exceeds it alone: evictColdIfNeeded leaves no other    *)
(* way out, whatever limits are set and however large the sessions are.    *)
THEOREM ColdLimitIsKept == Spec => []ColdLimitHolds
<1>1. Init => ColdLimitHolds
  BY ConstantsAssumption DEF Init, ColdLimitHolds
<1> QED BY <1>1, ColdLimitStep, InvariantHolds, PTL DEF Spec

-----------------------------------------------------------------------------
(* The swap files.                                                         *)

(* What is enough for SwapFilesIntact to survive a step.                   *)
LEMMA FilesKept ==
  ASSUME SwapFilesIntact,
         \A s \in SessionIds : IsSwapped(s)' =>
            /\ IsSwapped(s)
            /\ files'[s] = files[s]
            /\ mSessions'[s].swapFileBytes = mSessions[s].swapFileBytes
  PROVE  SwapFilesIntact'
  BY DEF SwapFilesIntact

LEMMA SwapFilesStep == IInv /\ SwapFilesIntact /\ [Next]_vars => SwapFilesIntact'
<1> SUFFICES ASSUME IInv, SwapFilesIntact, [Next]_vars PROVE SwapFilesIntact'
  OBVIOUS
<1>0. /\ mSessions \in [SessionIds -> SessionMeta]
      /\ files \in [SessionIds -> File]
  BY DEF IInv, TypeOK
<1>1. CASE UNCHANGED <<mSessions, files>>
  BY <1>1 DEF SwapFilesIntact, IsSwapped
<1>2. ASSUME NEW id \in SessionIds, CreateSession(id)
      PROVE  SwapFilesIntact'
  BY <1>0, <1>2, FilesKept DEF CreateSession, NewMeta, IsSwapped
<1>3. ASSUME NEW id \in SessionIds, Kill(id)
      PROVE  SwapFilesIntact'
  BY <1>0, <1>3, FilesKept DEF Kill, LeavesCold, NewMeta, IsSwapped
<1>4. ASSUME NEW id \in SessionIds, NEW n \in 0 .. MaxTokens, NEW d \in 0 .. nCtx,
             DecodeAndRecord(id, n, d)
      PROVE  SwapFilesIntact'
  <2>1. /\ mSessions' = [mSessions EXCEPT ![id].tokens = @ + n]
        /\ files' = files
    BY <1>4 DEF DecodeAndRecord, RecordTokens
  <2>2. \A s \in SessionIds :
          /\ mSessions'[s].state = mSessions[s].state
          /\ mSessions'[s].swapFilePath = mSessions[s].swapFilePath
          /\ mSessions'[s].swapFileBytes = mSessions[s].swapFileBytes
    BY <1>0, <2>1 DEF SessionMeta
  <2> QED BY <2>1, <2>2, FilesKept DEF IsSwapped
<1>5. CASE SwapInLoadFails
  <2>1. /\ mSessions' = [mSessions EXCEPT ![call.id].tokens = nCtx]
        /\ files' = files
    BY <1>5 DEF SwapInLoadFails
  <2>2. \A s \in SessionIds :
          /\ mSessions'[s].state = mSessions[s].state
          /\ mSessions'[s].swapFilePath = mSessions[s].swapFilePath
          /\ mSessions'[s].swapFileBytes = mSessions[s].swapFileBytes
    BY <1>0, <2>1 DEF SessionMeta
  <2> QED BY <2>1, <2>2, FilesKept DEF IsSwapped
<1>6. CASE SwapOutFails
  <2>1. /\ call.victim \in SessionIds /\ mSessions[call.victim].state = "HOT"
        /\ mSessions' = mSessions
        /\ \A s \in SessionIds : s # call.victim => files'[s] = files[s]
    BY <1>0, <1>6 DEF SwapOutFails, IInv, FrameOK, IsHot
  <2> QED BY <2>1, FilesKept DEF IsSwapped
<1>7. CASE SwapOutPrunes
  <2>1. /\ call.victim \in SessionIds /\ mSessions[call.victim].state = "HOT"
        /\ \A s \in SessionIds : s # call.victim => files'[s] = files[s]
        /\ \A s \in SessionIds : s # call.victim => mSessions'[s] = mSessions[s]
        /\ mSessions'[call.victim].state = "HOT"
    BY <1>0, <1>7 DEF SwapOutPrunes, IInv, FrameOK, IsHot, SessionMeta
  <2> QED BY <2>1, FilesKept DEF IsSwapped
<1>8. CASE SwapOutCompletes
  <2> DEFINE v == call.victim
             n == VictimCells
  <2>1. /\ v \in SessionIds
        /\ \A s \in SessionIds : s # v => files'[s] = files[s] /\ mSessions'[s] = mSessions[s]
        /\ files'[v] = Saved(mSessions[v].tokens, n)
        /\ mSessions'[v].swapFileBytes = StateSize(n)
    BY <1>0, <1>8
    DEF SwapOutCompletes, GoesCold, Victim, Written, IInv, FrameOK, SessionMeta
  <2>2. files'[v].kind = "valid" /\ mSessions'[v].swapFileBytes = StateSize(files'[v].cells)
    BY <2>1 DEF Saved
  <2> HIDE DEF v
  <2> QED BY <2>1, <2>2 DEF SwapFilesIntact, IsSwapped
<1>9. ASSUME NEW c \in Contexts, SwapInNew(c) \/ SwapInLoads(c)
      PROVE  SwapFilesIntact'
  <2>1. /\ call.id \in SessionIds
        /\ mSessions'[call.id].state = "HOT"
        /\ \A s \in SessionIds : s # call.id => mSessions'[s] = mSessions[s]
        /\ \A s \in SessionIds : s # call.id => files'[s] = files[s]
    <3>1. call.id \in SessionIds
      BY <1>9 DEF SwapInNew, SwapInLoads, SwapInStep, IInv, FrameOK
    <3>2. PICK t, n : BecomesHot(call.id, c, t, n)
      BY <1>9 DEF SwapInNew, SwapInLoads
    <3>3. /\ mSessions'[call.id].state = "HOT"
          /\ \A s \in SessionIds : s # call.id => mSessions'[s] = mSessions[s]
      BY <1>0, <3>1, <3>2 DEF BecomesHot, SessionMeta
    <3>4. \A s \in SessionIds : s # call.id => files'[s] = files[s]
      BY <1>0, <1>9 DEF SwapInNew, SwapInLoads, LeavesCold
    <3> QED BY <3>1, <3>3, <3>4
  <2> QED BY <2>1, FilesKept DEF IsSwapped
<1>10. CASE Destructor \/ Crash
  BY <1>10 DEF Destructor, Crash, ProcessEnds, NewMeta, SwapFilesIntact, IsSwapped
<1>11. CASE EvictColdKills
  BY <1>3, <1>11, ColdVictimIsSwapped DEF EvictColdKills
<1> QED
  BY <1>1, <1>2, <1>3, <1>4, <1>5, <1>6, <1>7, <1>8, <1>9, <1>10, <1>11
  DEF Next, CallStep, Request, Lifecycle, vars, smVars, KillSession, ActivateHot,
      ActivateCold, SetHotLimit, SetColdLimit, EvictHotPicks, EvictHotReturns,
      EvictColdReturns, SwapInNoContext, SwapInDangles, Restart

(* A swapped-out session always finds its own, whole file under its path,  *)
(* of the size it was charged for, whatever files earlier sessions or      *)
(* processes left behind and whichever saves fail.                         *)
THEOREM SwapFilesAreIntact == Spec => []SwapFilesIntact
<1>1. Init => SwapFilesIntact
  BY DEF Init, SwapFilesIntact, IsSwapped, NewMeta
<1> QED BY <1>1, SwapFilesStep, InvariantHolds, PTL DEF Spec

-----------------------------------------------------------------------------
(* Eviction.                                                               *)

(* What the two moves between the levels do to the states of the sessions. *)
LEMMA MovesOneSession ==
  ASSUME IInv
  PROVE  /\ SwapOutCompletes =>
              /\ call.victim \in SessionIds => mSessions'[call.victim].state = "COLD"
              /\ \A s \in SessionIds : s # call.victim => mSessions'[s] = mSessions[s]
         /\ \A c \in Contexts : SwapInNew(c) \/ SwapInLoads(c) =>
              /\ call.id \in SessionIds => mSessions'[call.id].state = "HOT"
              /\ \A s \in SessionIds : s # call.id => mSessions'[s] = mSessions[s]
<1>0. mSessions \in [SessionIds -> SessionMeta]
  BY DEF IInv, TypeOK
<1>1. ASSUME SwapOutCompletes
      PROVE  /\ call.victim \in SessionIds => mSessions'[call.victim].state = "COLD"
             /\ \A s \in SessionIds : s # call.victim => mSessions'[s] = mSessions[s]
  <2> DEFINE size == StateSize(VictimCells)
  <2>1. mSessions' = [mSessions EXCEPT
          ![call.victim] = [@ EXCEPT !.state = "COLD", !.ctx = NoCtx,
                                     !.swapFilePath = TRUE, !.swapFileBytes = size]]
    BY <1>1 DEF SwapOutCompletes, GoesCold
  <2> HIDE DEF size
  <2> QED BY <1>0, <2>1 DEF SessionMeta
<1>2. ASSUME NEW c \in Contexts, SwapInNew(c) \/ SwapInLoads(c)
      PROVE  /\ call.id \in SessionIds => mSessions'[call.id].state = "HOT"
             /\ \A s \in SessionIds : s # call.id => mSessions'[s] = mSessions[s]
  <2>1. PICK t, n : BecomesHot(call.id, c, t, n)
    BY <1>2 DEF SwapInNew, SwapInLoads
  <2> QED BY <1>0, <2>1 DEF BecomesHot, SessionMeta
<1> QED BY <1>1, <1>2

(* evictColdIfNeeded takes the front of mColdLru, or what follows the      *)
(* excluded one there.                                                     *)
LEMMA ColdVictimIsOldest ==
  ASSUME IInv, ColdIsOver
  PROVE  OldestBut(ColdVictim, ColdExclude)
<1> SUFFICES ASSUME NEW i \in DOMAIN mColdLru, NEW j \in DOMAIN mColdLru,
                    mColdLru[i] = ColdVictim, j < i
             PROVE  mColdLru[j] = ColdExclude
  BY DEF OldestBut
<1>1. mColdLru \in Seq(SessionIds) /\ NoRepeat(mColdLru) /\ mColdLru # <<>>
  BY DEF IInv, TypeOK, LruMirrorsSessions, ColdIsOver
<1>2. /\ Head(mColdLru) = mColdLru[1] /\ 1 \in DOMAIN mColdLru
      /\ DOMAIN mColdLru = 1 .. Len(mColdLru) /\ Len(mColdLru) \in Nat \ {0}
  BY <1>1
<1>3. CASE Head(mColdLru) = ColdExclude
  <2>1. 2 \in DOMAIN mColdLru
    <3>1. Len(mColdLru) # 1
      BY <1>3 DEF ColdIsOver
    <3> QED BY <1>2, <3>1
  <2>2. i = 2
    BY <1>1, <1>3, <2>1 DEF NoRepeat, ColdVictim
  <2> QED BY <1>2, <1>3, <2>2
<1>4. CASE Head(mColdLru) # ColdExclude
  <2>1. i = 1
    BY <1>1, <1>2, <1>4 DEF NoRepeat, ColdVictim
  <2> QED BY <1>2, <2>1
<1> QED BY <1>3, <1>4

(* What a step must do to be one that spares: see EvictionSparesNewest.    *)
Spares ==
  \A id \in SessionIds :
    (/\ proc' # "down" /\ call.pc # "idle"
     /\ mSessions[id].state # "NONE" /\ mSessions'[id].state = "NONE")
       => /\ IsSwapped(id) /\ mColdUsedBytes > mColdLimitBytes
          /\ id # call.victim /\ OldestBut(id, call.victim)

LEMMA SparingStep == IInv /\ [Next]_vars => [Spares]_vars
<1> SUFFICES ASSUME IInv, Next, NEW id \in SessionIds,
                    proc' # "down", call.pc # "idle",
                    mSessions[id].state # "NONE", mSessions'[id].state = "NONE"
             PROVE  /\ IsSwapped(id) /\ mColdUsedBytes > mColdLimitBytes
                    /\ id # call.victim /\ OldestBut(id, call.victim)
  BY DEF Spares
<1>0. mSessions \in [SessionIds -> SessionMeta]
  BY DEF IInv, TypeOK
<1>1. ~Request
  BY DEF Request, Ready, Idle, CreateSession, KillSession, ActivateHot, ActivateCold,
         DecodeAndRecord, RecordTokens, SetHotLimit, SetColdLimit
<1>2. ~Lifecycle
  BY DEF Lifecycle, Destructor, Crash, Restart, ProcessEnds, smVars
<1>3. ~(SwapOutPrunes \/ SwapInLoadFails)
  BY <1>0 DEF SwapOutPrunes, SwapInLoadFails, SessionMeta
<1>4. ~SwapOutCompletes
  BY MovesOneSession
<1>5. \A c \in Contexts : ~(SwapInNew(c) \/ SwapInLoads(c))
  BY MovesOneSession
<1>6. EvictColdKills
  BY <1>1, <1>2, <1>3, <1>4, <1>5
  DEF Next, CallStep, EvictHotPicks, EvictHotReturns, SwapOutFails,
      EvictColdReturns, SwapInDangles, SwapInNoContext, smVars
<1>7. id = ColdVictim /\ ColdIsOver
  BY <1>0, <1>6 DEF EvictColdKills, Kill
<1>8. IsSwapped(id) /\ id # ColdExclude
  BY <1>7, ColdVictimIsSwapped
<1>9. ColdExclude = call.victim
  BY DEF ColdExclude, IInv, FrameOK
<1>10. OldestBut(id, ColdExclude)
  BY <1>7, ColdVictimIsOldest
<1> QED BY <1>7, <1>8, <1>9, <1>10 DEF ColdIsOver

(* evictColdIfNeeded takes away no session but the oldest of those that    *)
(* are swapped out, only while the cold store is over its limit, and never *)
(* the session that is being swapped out.                                  *)
THEOREM EvictionIsSparing == Spec => EvictionSparesNewest
<1>1. [][Spares]_vars => EvictionSparesNewest
  BY DEF Spares, EvictionSparesNewest
<1> QED BY <1>1, SparingStep, InvariantHolds, PTL DEF Spec

(* What a step must do to prune no further than it may: see                *)
(* PruningKeepsMinimum.                                                    *)
KeepsMinimum ==
  \A id \in SessionIds :
    IsHot(id) /\ IsHot(id)' /\ mSessions'[id].tokens < mSessions[id].tokens
      => mSessions'[id].tokens >= kMinKeepTokens

LEMMA PruningStep == IInv /\ [Next]_vars => [KeepsMinimum]_vars
<1> SUFFICES ASSUME IInv, Next, NEW id \in SessionIds,
                    mSessions[id].state = "HOT", mSessions'[id].state = "HOT",
                    mSessions'[id].tokens < mSessions[id].tokens
             PROVE  mSessions'[id].tokens >= kMinKeepTokens
  BY DEF IsHot, KeepsMinimum
<1>0. mSessions \in [SessionIds -> SessionMeta] /\ mSessions[id].tokens \in Nat
  BY DEF IInv, TypeOK, SessionMeta
<1>1. mSessions'[id] # mSessions[id]
  BY <1>0
<1>2. \A s \in SessionIds : ~CreateSession(s)
  BY <1>0 DEF CreateSession, NewMeta
<1>3. \A s \in SessionIds : ~Kill(s)
  BY <1>0, <1>1 DEF Kill, NewMeta
<1>4. \A s \in SessionIds, n \in 0 .. MaxTokens, d \in 0 .. nCtx : ~DecodeAndRecord(s, n, d)
  <2>1. SUFFICES ASSUME NEW s \in SessionIds, NEW n \in 0 .. MaxTokens, RecordTokens(s, n)
                 PROVE  FALSE
    BY DEF DecodeAndRecord
  <2>2. mSessions' = [mSessions EXCEPT ![s].tokens = @ + n] /\ n \in Nat
    BY <2>1, ConstantsAssumption DEF RecordTokens
  <2> QED BY <1>0, <2>2 DEF SessionMeta
<1>5. ~SwapInLoadFails
  BY <1>0, <1>1 DEF SwapInLoadFails, SwapInStep, IInv, FrameOK, IsHot
<1>6. ~SwapOutCompletes
  BY <1>1, MovesOneSession
<1>7. \A c \in Contexts : ~(SwapInNew(c) \/ SwapInLoads(c))
  BY <1>0, <1>1 DEF SwapInNew, SwapInLoads, SwapInStep, BecomesHot, IInv, FrameOK, IsHot
<1>8. ~(Destructor \/ Crash)
  BY DEF Destructor, Crash, ProcessEnds, NewMeta
<1>9. ~EvictColdKills
  BY <1>3, ColdVictimIsSwapped DEF EvictColdKills
<1>10. SwapOutPrunes
  BY <1>1, <1>2, <1>3, <1>4, <1>5, <1>6, <1>7, <1>8, <1>9
  DEF Next, CallStep, Request, Lifecycle, smVars, KillSession, ActivateHot,
      ActivateCold, SetHotLimit, SetColdLimit, EvictHotPicks, EvictHotReturns,
      EvictColdReturns, SwapOutFails, SwapInNoContext, SwapInDangles, Restart
<1> DEFINE n == mSessions[id].tokens
           r == Pruned(n, ToRemove(n))
<1>11. id = call.victim
  BY <1>0, <1>1, <1>10 DEF SwapOutPrunes
<1>12. mSessions' = [mSessions EXCEPT ![id].tokens = @ - r] /\ n > kMinKeepTokens
  BY <1>0, <1>10, <1>11 DEF SwapOutPrunes, Victim
<1>13. mSessions'[id].tokens = n - r
  BY <1>0, <1>12 DEF SessionMeta
<1>14. r \in Nat /\ r <= n - kMinKeepTokens
  BY <1>0, <1>12, ConstantsAssumption DEF Pruned, ToRemove, Smaller, Larger
<1> QED BY <1>0, <1>13, <1>14, ConstantsAssumption

(* Pruning never takes a session below kMinKeepTokens.                     *)
THEOREM PruningIsBounded == Spec => PruningKeepsMinimum
<1>1. [][KeepsMinimum]_vars => PruningKeepsMinimum
  BY DEF KeepsMinimum, PruningKeepsMinimum
<1> QED BY <1>1, PruningStep, InvariantHolds, PTL DEF Spec

-----------------------------------------------------------------------------
(* The HOT limit.                                                          *)

(* The strengthening of HotLimitHolds: evictHotIfNeeded returns with a     *)
(* free place, which activateForInfer then takes; setColdLimit does not    *)
(* touch mHotLru.                                                          *)
HotLimitInv ==
  /\ call.pc = "idle" => Len(mHotLru) <= mHotLimit
  /\ call.op = "setColdLimit" => Len(mHotLru) <= mHotLimit
  /\ call.pc = "swapIn" => Len(mHotLru) < mHotLimit

(* evictHotIfNeeded returns only with a free place.                        *)
LEMMA EvictHotMakesRoom ==
  ASSUME IInv, -1 \notin SessionIds, EvictHotReturns
  PROVE  Len(mHotLru) < mHotLimit
<1>1. /\ mHotLru \in Seq(SessionIds) /\ DOMAIN mHotLru = 1 .. Len(mHotLru)
      /\ mHotLimit \in Nat \ {0}
  BY DEF IInv, TypeOK
<1>2. mHotLru = <<>> => Len(mHotLru) < mHotLimit
  BY <1>1
<1>3. CASE ~HotIsFull
  <2>1. ~(Len(mHotLru) >= mHotLimit) \/ mHotLru = <<>>
    BY <1>3 DEF HotIsFull
  <2> QED BY <1>1, <1>2, <2>1
<1>4. CASE HotVictim = -1
  <2> DEFINE candidates == {i \in DOMAIN mHotLru : mHotLru[i] # HotExclude}
             first == CHOOSE i \in candidates : \A j \in candidates : i <= j
  <2>1. candidates = {}
    <3>1. SUFFICES ASSUME candidates # {} PROVE FALSE
      OBVIOUS
    <3>2. candidates \in SUBSET Nat
      BY <1>1
    <3>3. first \in DOMAIN mHotLru
      BY <3>1, <3>2, LeastExists
    <3>4. mHotLru[first] \in SessionIds /\ HotVictim = mHotLru[first]
      BY <1>1, <3>1, <3>3 DEF HotVictim
    <3> QED BY <1>4, <3>4
  <2>2. HotExclude \notin Elems(mHotLru)
    BY DEF HotExclude, IInv, LruMirrorsSessions, FrameOK
  <2>3. DOMAIN mHotLru = {}
    BY <2>1, <2>2 DEF Elems
  <2>4. mHotLru = <<>>
    BY <1>1, <2>3
  <2> QED BY <1>2, <2>4
<1> QED BY <1>3, <1>4 DEF EvictHotReturns

LEMMA HotLimitStep ==
  ASSUME -1 \notin SessionIds, "save" \notin Faults
  PROVE  IInv /\ HotLimitInv /\ [Next]_vars => HotLimitInv'
<1> SUFFICES ASSUME IInv, HotLimitInv, [Next]_vars PROVE HotLimitInv'
  OBVIOUS
<1> DEFINE length == Len(mHotLru)
           length1 == Len(mHotLru')
<1>0. /\ length \in Nat /\ mHotLimit \in Nat \ {0} /\ call \in Frame
      /\ mHotLru \in Seq(SessionIds)
  BY DEF IInv, TypeOK
<1>1. CASE UNCHANGED <<mHotLru, mHotLimit, call>>
  BY <1>1 DEF HotLimitInv
<1>2. CASE call'.pc \notin {"idle", "swapIn"} /\ call'.op # "setColdLimit"
  BY <1>2 DEF HotLimitInv
<1>3. CASE length1 <= mHotLimit' /\ call'.pc # "swapIn"
  BY <1>3 DEF HotLimitInv
<1>4. \A id \in SessionIds : ~CreateSession(id) \/ HotLimitInv'
  BY <1>1 DEF CreateSession
<1>5. ASSUME NEW id \in SessionIds, KillSession(id)
      PROVE  HotLimitInv'
  <2>1. call = Idle /\ UNCHANGED <<call, mHotLimit>>
    BY <1>5 DEF KillSession, Kill, Ready
  <2>2. length <= mHotLimit
    BY <2>1 DEF HotLimitInv, Idle
  <2>3. CASE IsHot(id)
    <3>1. length1 = length - 1
      BY <1>5, <2>3, EraseRemoves DEF KillSession, Kill, IInv, TypeOK, LruMirrorsSessions
    <3> HIDE DEF length, length1
    <3>2. length1 <= mHotLimit
      BY <1>0, <2>2, <3>1
    <3> QED BY <1>3, <2>1, <3>2 DEF Idle
  <2>4. CASE ~IsHot(id)
    BY <1>1, <1>5, <2>1, <2>4 DEF KillSession, Kill
  <2> QED BY <2>3, <2>4
<1>6. ASSUME NEW id \in SessionIds, IsHot(id), mHotLru' = Touched(id),
             UNCHANGED <<mHotLimit, call>>
      PROVE  HotLimitInv'
  <2>1. length1 = length
    BY <1>6, TouchedPermutes
  <2> QED BY <1>6, <2>1 DEF HotLimitInv
<1>7. ASSUME NEW id \in SessionIds, ActivateHot(id)
      PROVE  HotLimitInv'
  BY <1>6, <1>7 DEF ActivateHot
<1>8. ASSUME NEW id \in SessionIds, NEW n \in 0 .. MaxTokens, NEW d \in 0 .. nCtx,
             DecodeAndRecord(id, n, d)
      PROVE  HotLimitInv'
  BY <1>6, <1>8 DEF DecodeAndRecord, RecordTokens
<1>9. ASSUME NEW id \in SessionIds, ActivateCold(id)
      PROVE  HotLimitInv'
  BY <1>2, <1>9 DEF ActivateCold
<1>10. ASSUME NEW count \in HotLimits, SetHotLimit(count)
       PROVE  HotLimitInv'
  BY <1>2, <1>10 DEF SetHotLimit, Idle
<1>11. ASSUME NEW bytes \in ColdLimits, SetColdLimit(bytes)
       PROVE  HotLimitInv'
  BY <1>11, <1>3 DEF SetColdLimit, Ready, Idle, HotLimitInv
<1>12. CASE EvictHotPicks \/ SwapOutPrunes \/ SwapOutCompletes
  <2>1. call.op # "setColdLimit"
    BY <1>12 DEF EvictHotPicks, SwapOutPrunes, SwapOutCompletes, IInv, FrameOK
  <2> QED BY <1>0, <1>2, <1>12, <2>1
          DEF EvictHotPicks, SwapOutPrunes, SwapOutCompletes, GoesCold, Frame
<1>13. CASE EvictHotReturns
  <2>1. length < mHotLimit /\ UNCHANGED <<mHotLru, mHotLimit>> /\ call.op # "setColdLimit"
    BY <1>13, EvictHotMakesRoom DEF EvictHotReturns, IInv, FrameOK
  <2>2. length <= mHotLimit
    <3> HIDE DEF length
    <3> QED BY <1>0, <2>1
  <2> QED BY <2>1, <2>2 DEF HotLimitInv
<1>14. CASE EvictColdReturns
  <2>1. CASE call.op = "setColdLimit"
    BY <1>3, <1>14, <2>1 DEF EvictColdReturns, HotLimitInv, Idle
  <2>2. CASE call.op # "setColdLimit"
    BY <1>0, <1>2, <1>14, <2>2 DEF EvictColdReturns, Frame
  <2> QED BY <2>1, <2>2
<1>15. CASE EvictColdKills
  <2>1. ColdVictim \in SessionIds /\ IsSwapped(ColdVictim)
    BY <1>15, ColdVictimIsSwapped DEF EvictColdKills
  <2> QED BY <1>1, <1>15, <2>1 DEF EvictColdKills, Kill, IsHot, IsSwapped
<1>16. CASE SwapInNoContext \/ SwapInLoadFails
  <2>1. /\ length < mHotLimit /\ UNCHANGED <<mHotLru, mHotLimit>> /\ call' = Idle
    BY <1>16 DEF SwapInNoContext, SwapInLoadFails, SwapInStep, HotLimitInv
  <2>2. length <= mHotLimit
    <3> HIDE DEF length
    <3> QED BY <1>0, <2>1
  <2> QED BY <1>3, <2>1, <2>2 DEF Idle
<1>17. ASSUME NEW c \in Contexts, SwapInNew(c) \/ SwapInLoads(c)
       PROVE  HotLimitInv'
  <2>1. length < mHotLimit
    BY <1>17 DEF SwapInNew, SwapInLoads, SwapInStep, HotLimitInv
  <2>2. mHotLru' = Append(mHotLru, call.id) /\ mHotLimit' = mHotLimit /\ call' = Idle
        /\ call.id \in SessionIds
    BY <1>17 DEF SwapInNew, SwapInLoads, SwapInStep, BecomesHot, IInv, FrameOK
  <2>3. length1 = length + 1
    BY <1>0, <2>2
  <2>4. length1 <= mHotLimit'
    <3> HIDE DEF length, length1
    <3> QED BY <1>0, <2>1, <2>2, <2>3
  <2> QED BY <1>3, <2>2, <2>4 DEF Idle
<1>18. CASE Destructor \/ Crash
  <2>1. mHotLru' = <<>> /\ call' = Idle /\ mHotLimit' = kDefaultHotLimit
    BY <1>18 DEF Destructor, Crash, ProcessEnds
  <2>2. length1 <= mHotLimit'
    BY <2>1, ConstantsAssumption
  <2> QED BY <1>3, <2>1, <2>2 DEF Idle
<1> QED
  BY <1>1, <1>4, <1>5, <1>7, <1>8, <1>9, <1>10, <1>11, <1>12, <1>13, <1>14, <1>15,
     <1>16, <1>17, <1>18
  DEF Next, CallStep, Request, Lifecycle, SwapInDangles, Restart, SwapOutFails, vars, smVars

(* Between two calls at most mHotLimit sessions own a context, provided    *)
(* that every save works and that -1 is not used as a session id: the two  *)
(* conditions that evictHotIfNeeded silently depends on.                   *)
THEOREM HotLimitIsKept ==
  ASSUME -1 \notin SessionIds, "save" \notin Faults
  PROVE  Spec => []HotLimitHolds
<1>1. Init => HotLimitInv
  BY ConstantsAssumption DEF Init, HotLimitInv, Idle
<1>2. IInv /\ HotLimitInv /\ [Next]_vars => HotLimitInv'
  BY HotLimitStep
<1>3. HotLimitInv => HotLimitHolds
  BY DEF HotLimitInv, HotLimitHolds
<1> QED BY <1>1, <1>2, <1>3, InvariantHolds, PTL DEF Spec

=============================================================================
