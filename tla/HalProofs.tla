----------------------------- MODULE HalProofs -----------------------------
(***************************************************************************)
(* Proofs about HalService and about HalClient, for every number of        *)
(* requests and sessions, every maxTokens and every size of the buffer.    *)
(*                                                                         *)
(* First the service alone.  The cancellation and the stream properties    *)
(* are not inductive.  Progress adds what ties them to the position of the *)
(* thread: which positions have a token behind them, how many iterations   *)
(* are left, and that a thread past its check of the flag has sent no late *)
(* token yet.                                                              *)
(*                                                                         *)
(* Then the service in the company of clients: it keeps its promises, and  *)
(* what a client prints is what was sent to it.                            *)
(***************************************************************************)
EXTENDS HalClient, SequenceTheorems, TLAPS

(* The flag was clear when the thread passed the check, so the token it is *)
(* about to send is the first that can be late.                            *)
LateInv ==
  \A r \in Requests :
    /\ late[r] <= 1
    /\ late[r] > 0 => flag[r]
    /\ req[r].pc = "sampled" => late[r] = 0

(* Tokens sent and iterations left, by position.                           *)
StreamInv ==
  \A r \in Requests :
    /\ sent[r].tokens <= MaxNew
    /\ req[r].pc \in {"none", "registered", "started", "loop", "sampled"}
         => sent[r].tokens + req[r].left <= MaxNew
    /\ req[r].pc = "sampled" => req[r].left > 0
    /\ req[r].pc \in {"none", "registered", "started"} => sent[r].tokens = 0
    /\ req[r].pc \in {"ended", "erased", "done"} /\ ~req[r].ok
         => sent[r].tokens = 0
    /\ sent[r].last # "none" => req[r].pc = "done"
    /\ sent[r].last = "error" => ~req[r].ok

HalInv == HalTypeOK /\ FlagMapIsCurrent /\ LateInv /\ StreamInv

(* Initially no request has begun.                                         *)
LEMMA InitHolds == HalInit => HalInv
<1> SUFFICES ASSUME HalInit PROVE HalInv
  OBVIOUS
<1>0. /\ req \in [Requests -> Request]
      /\ \A r \in Requests : req[r].pc = "none" /\ req[r].left \in 0 .. MaxNew
  <2>1. req \in [Requests ->
               {q \in Request : q.pc = "none" /\ ~q.ok /\ q.left \in MaxNews}]
    BY DEF HalInit
  <2>2. \A q \in Request : q.left \in 0 .. MaxNew
    BY DEF Request
  <2> QED
    BY <2>1, <2>2, Zenon
<1>1. HalTypeOK
  BY <1>0, HalAssumption DEF HalInit, HalTypeOK
<1>2. FlagMapIsCurrent
  BY DEF HalInit, FlagMapIsCurrent
<1>3. LateInv
  <2>1. \A r \in Requests : late[r] = 0
    BY DEF HalInit
  <2>2. ASSUME NEW r \in Requests PROVE late[r] <= 1 /\ ~(late[r] > 0)
    BY <2>1
  <2> QED
    BY <2>1, <2>2, Zenon DEF LateInv
<1>4. StreamInv
  <2>1. \A r \in Requests : sent[r].tokens = 0 /\ sent[r].last = "none"
    BY DEF HalInit
  <2>2. ASSUME NEW r \in Requests PROVE sent[r].tokens + req[r].left <= MaxNew
    BY <1>0, <2>1, HalAssumption
  <2>3. ASSUME NEW r \in Requests PROVE sent[r].tokens <= MaxNew
    BY <2>1, HalAssumption
  <2> QED
    BY <1>0, <2>1, <2>2, <2>3, Zenon DEF StreamInv
<1> QED
  BY <1>1, <1>2, <1>3, <1>4 DEF HalInv

(* A request that has ended is a request.                                  *)
LEMMA EndedIsRequest ==
  ASSUME NEW q \in Request
  PROVE  [q EXCEPT !.pc = "ended", !.ok = TRUE] \in Request
  BY DEF Request

(* Every step keeps the types.  The iterations left stay in range because  *)
(* a thread only samples while there are some.                             *)
LEMMA TypeKept == HalInv /\ [HalNext]_halVars => HalTypeOK'
<1> SUFFICES ASSUME HalInv, [HalNext]_halVars PROVE HalTypeOK'
  OBVIOUS
<1>0. MaxNew \in Nat
  BY HalAssumption
<1> USE <1>0 DEF HalInv, HalTypeOK, Request
<1>1. ASSUME NEW r \in Requests, Refuse(r) PROVE HalTypeOK'
  BY <1>1 DEF Refuse
<1>2. ASSUME NEW r \in Requests, Register(r) PROVE HalTypeOK'
  BY <1>2 DEF Register
<1>3. ASSUME NEW r \in Requests, BinderStep(r) PROVE HalTypeOK'
  <2>1. CASE Detach(r)
    BY <2>1 DEF Detach
  <2>2. CASE Accept(r)
    BY <2>2 DEF Accept
  <2> QED
    BY <1>3, <2>1, <2>2 DEF BinderStep
<1>4. ASSUME NEW r \in Requests, ThreadStep(r) PROVE HalTypeOK'
  <2>0. CASE InferFails(r)
    BY <2>0 DEF InferFails
  <2>1. CASE InferStarts(r)
    BY <2>1 DEF InferStarts
  <2>2. CASE LoopChecks(r)
    <3>1. [req[r] EXCEPT !.pc = "ended", !.ok = TRUE] \in Request
      <4>1. req[r] \in Request
        BY Zenon
      <4> HIDE DEF Request
      <4> QED
        BY <4>1, EndedIsRequest, Zenon
    <3>2. [req[r] EXCEPT !.pc = "sampled"] \in Request
      OBVIOUS
    <3>3. req' \in [Requests -> Request]
      BY <2>2, <3>1, <3>2, Zenon DEF LoopChecks
    <3> QED
      BY <2>2, <3>3 DEF LoopChecks
  <2>3. CASE EndOfGeneration(r)
    <3>1. [req[r] EXCEPT !.pc = "ended", !.ok = TRUE] \in Request
      <4>1. req[r] \in Request
        BY Zenon
      <4> HIDE DEF Request
      <4> QED
        BY <4>1, EndedIsRequest, Zenon
    <3>2. req' \in [Requests -> Request]
      BY <2>3, <3>1, Zenon DEF EndOfGeneration
    <3> QED
      BY <2>3, <3>2 DEF EndOfGeneration
  <2>4. CASE SendToken(r)
    <3>1. req[r].left - 1 \in 0 .. MaxNew
      BY <2>4 DEF SendToken, StreamInv
    <3>2. late' \in [Requests -> Nat]
      BY <2>4 DEF SendToken
    <3>a. [sent[r] EXCEPT !.tokens = @ + 1]
            \in [tokens : Nat, last : {"none", "complete", "error"}]
      <4>1. sent[r] \in [tokens : Nat, last : {"none", "complete", "error"}]
        BY Zenon
      <4> QED
        BY <4>1
    <3>3. sent' \in [Requests -> [tokens : Nat, last : {"none", "complete", "error"}]]
      BY <2>4, <3>a, Zenon DEF SendToken
    <3>4. req' \in [Requests -> Request]
      BY <2>4, <3>1 DEF SendToken
    <3> QED
      BY <2>4, <3>2, <3>3, <3>4 DEF SendToken
  <2>5. CASE EraseFlag(r)
    BY <2>5 DEF EraseFlag
  <2>6. CASE Answer(r)
    BY <2>6 DEF Answer
  <2> QED
    BY <1>4, <2>0, <2>1, <2>2, <2>3, <2>4, <2>5, <2>6 DEF ThreadStep
<1>5. ASSUME NEW id \in SessionIds, Cancel(id) PROVE HalTypeOK'
  BY <1>5 DEF Cancel
<1>6. CASE Finished \/ UNCHANGED halVars
  BY <1>6 DEF Finished, halVars
<1> QED
  BY <1>1, <1>2, <1>3, <1>4, <1>5, <1>6 DEF HalNext

(* The map: Register enters a request that is in flight from then on, and  *)
(* a request stops being in flight only in its own EraseFlag, which clears *)
(* the entry of its session.                                               *)
LEMMA MapKept == HalInv /\ [HalNext]_halVars => FlagMapIsCurrent'
<1> SUFFICES ASSUME HalInv, [HalNext]_halVars PROVE FlagMapIsCurrent'
  OBVIOUS
<1> USE DEF HalInv, HalTypeOK, Request, FlagMapIsCurrent, InFlight
<1>1. ASSUME NEW r \in Requests, Refuse(r) PROVE FlagMapIsCurrent'
  BY <1>1 DEF Refuse
<1>2. ASSUME NEW r \in Requests, Register(r) PROVE FlagMapIsCurrent'
  BY <1>2 DEF Register
<1>3. ASSUME NEW r \in Requests, BinderStep(r) PROVE FlagMapIsCurrent'
  <2>1. CASE Detach(r)
    BY <2>1 DEF Detach
  <2>2. CASE Accept(r)
    BY <2>2 DEF Accept
  <2> QED
    BY <1>3, <2>1, <2>2 DEF BinderStep
<1>4. ASSUME NEW r \in Requests, ThreadStep(r) PROVE FlagMapIsCurrent'
  <2>0. CASE InferFails(r)
    BY <2>0 DEF InferFails
  <2>1. CASE InferStarts(r)
    BY <2>1 DEF InferStarts
  <2>2. CASE LoopChecks(r)
    BY <2>2 DEF LoopChecks
  <2>3. CASE EndOfGeneration(r)
    BY <2>3 DEF EndOfGeneration
  <2>4. CASE SendToken(r)
    <3>1. \A q \in Requests : req'[q].id = req[q].id
      BY <2>4 DEF SendToken
    <3>2. \A q \in Requests : InFlight(q) => InFlight(q)'
      BY <2>4 DEF SendToken
    <3>3. gCancelFlags' = gCancelFlags
      BY <2>4 DEF SendToken
    <3>4. \A id \in SessionIds :
            gCancelFlags[id] # NoFlag => gCancelFlags[id] \in Requests
      OBVIOUS
    <3> HIDE DEF InFlight, Request, HalTypeOK
    <3> QED
      BY <3>1, <3>2, <3>3, <3>4
  <2>5. CASE EraseFlag(r)
    <3>1. NoFlag \notin Requests
      BY HalAssumption
    <3> QED
      BY <2>5, <3>1 DEF EraseFlag
  <2>6. CASE Answer(r)
    BY <2>6 DEF Answer
  <2> QED
    BY <1>4, <2>0, <2>1, <2>2, <2>3, <2>4, <2>5, <2>6 DEF ThreadStep
<1>5. ASSUME NEW id \in SessionIds, Cancel(id) PROVE FlagMapIsCurrent'
  BY <1>5 DEF Cancel
<1>6. CASE Finished \/ UNCHANGED halVars
  BY <1>6 DEF Finished, halVars
<1> QED
  BY <1>1, <1>2, <1>3, <1>4, <1>5, <1>6 DEF HalNext

(* Late tokens: flags are only ever set, and a thread that sees its flag   *)
(* set at the check does not sample.                                       *)
LEMMA LateKept == HalInv /\ [HalNext]_halVars => LateInv'
<1> SUFFICES ASSUME HalInv, [HalNext]_halVars PROVE LateInv'
  OBVIOUS
<1> USE DEF HalInv, HalTypeOK, Request, LateInv
<1>1. ASSUME NEW r \in Requests, Refuse(r) PROVE LateInv'
  BY <1>1 DEF Refuse
<1>2. ASSUME NEW r \in Requests, Register(r) PROVE LateInv'
  BY <1>2 DEF Register
<1>3. ASSUME NEW r \in Requests, BinderStep(r) PROVE LateInv'
  <2>1. CASE Detach(r)
    BY <2>1 DEF Detach
  <2>2. CASE Accept(r)
    BY <2>2 DEF Accept
  <2> QED
    BY <1>3, <2>1, <2>2 DEF BinderStep
<1>4. ASSUME NEW r \in Requests, ThreadStep(r) PROVE LateInv'
  <2>0. CASE InferFails(r)
    BY <2>0 DEF InferFails
  <2>1. CASE InferStarts(r)
    BY <2>1 DEF InferStarts
  <2>2. CASE LoopChecks(r)
    BY <2>2 DEF LoopChecks
  <2>3. CASE EndOfGeneration(r)
    BY <2>3 DEF EndOfGeneration
  <2>4. CASE SendToken(r)
    BY <2>4 DEF SendToken
  <2>5. CASE EraseFlag(r)
    BY <2>5 DEF EraseFlag
  <2>6. CASE Answer(r)
    BY <2>6 DEF Answer
  <2> QED
    BY <1>4, <2>0, <2>1, <2>2, <2>3, <2>4, <2>5, <2>6 DEF ThreadStep
<1>5. ASSUME NEW id \in SessionIds, Cancel(id) PROVE LateInv'
  BY <1>5, HalAssumption DEF Cancel
<1>6. CASE Finished \/ UNCHANGED halVars
  BY <1>6 DEF Finished, halVars
<1> QED
  BY <1>1, <1>2, <1>3, <1>4, <1>5, <1>6 DEF HalNext

(* The stream: infer's result is FALSE only when it never reached its loop.*)
LEMMA StreamKept == HalInv /\ [HalNext]_halVars => StreamInv'
<1> SUFFICES ASSUME HalInv, [HalNext]_halVars PROVE StreamInv'
  OBVIOUS
<1>0. MaxNew \in Nat
  BY HalAssumption
<1> USE <1>0 DEF HalInv, HalTypeOK, Request, StreamInv
<1>1. ASSUME NEW r \in Requests, Refuse(r) PROVE StreamInv'
  BY <1>1 DEF Refuse
<1>2. ASSUME NEW r \in Requests, Register(r) PROVE StreamInv'
  BY <1>2 DEF Register
<1>3. ASSUME NEW r \in Requests, BinderStep(r) PROVE StreamInv'
  <2>1. CASE Detach(r)
    BY <2>1 DEF Detach
  <2>2. CASE Accept(r)
    BY <2>2 DEF Accept
  <2> QED
    BY <1>3, <2>1, <2>2 DEF BinderStep
<1>4. ASSUME NEW r \in Requests, ThreadStep(r) PROVE StreamInv'
  <2>0. CASE InferFails(r)
    BY <2>0 DEF InferFails
  <2>1. CASE InferStarts(r)
    BY <2>1 DEF InferStarts
  <2>2. CASE LoopChecks(r)
    BY <2>2 DEF LoopChecks
  <2>3. CASE EndOfGeneration(r)
    BY <2>3 DEF EndOfGeneration
  <2>4. CASE SendToken(r)
    BY <2>4 DEF SendToken
  <2>5. CASE EraseFlag(r)
    BY <2>5 DEF EraseFlag
  <2>6. CASE Answer(r)
    BY <2>6 DEF Answer
  <2> QED
    BY <1>4, <2>0, <2>1, <2>2, <2>3, <2>4, <2>5, <2>6 DEF ThreadStep
<1>5. ASSUME NEW id \in SessionIds, Cancel(id) PROVE StreamInv'
  BY <1>5 DEF Cancel
<1>6. CASE Finished \/ UNCHANGED halVars
  BY <1>6 DEF Finished, halVars
<1> QED
  BY <1>1, <1>2, <1>3, <1>4, <1>5, <1>6 DEF HalNext

(* The inductive invariant of HalService.                                  *)
LEMMA HalInvKept == HalInv /\ [HalNext]_halVars => HalInv'
  BY TypeKept, MapKept, LateKept, StreamKept DEF HalInv

LEMMA HalInvariance == HalSpec => []HalInv
  BY InitHolds, HalInvKept, PTL DEF HalSpec

(* Type correctness of the HAL service.                                    *)
THEOREM HalTypeCorrect == HalSpec => []HalTypeOK
<1>1. HalInv => HalTypeOK
  BY DEF HalInv
<1> QED
  BY HalInvariance, <1>1, PTL

(* gCancelFlags never holds the flag of a request that is past its erase,  *)
(* or of another session, however requests overlap.                        *)
THEOREM FlagMapStaysCurrent == HalSpec => []FlagMapIsCurrent
<1>1. HalInv => FlagMapIsCurrent
  BY DEF HalInv
<1> QED
  BY HalInvariance, <1>1, PTL

(* A cancel that finds the flag lets at most one more token through.       *)
THEOREM CancelTakesEffect == HalSpec => []CancelIsPrompt
<1>1. HalInv => CancelIsPrompt
  BY DEF HalInv, LateInv, CancelIsPrompt
<1> QED
  BY HalInvariance, <1>1, PTL

(* onError is never sent after a token, and no stream exceeds maxTokens.   *)
THEOREM ErrorsComeAlone == HalSpec => []ErrorComesAlone
<1>1. HalInv => ErrorComesAlone
  BY DEF HalInv, HalTypeOK, Request, StreamInv, ErrorComesAlone
<1> QED
  BY HalInvariance, <1>1, PTL

(* A session whose requests do not overlap keeps the entry of its request. *)
LEMMA CancellableKept ==
  HalInv /\ InFlightIsCancellable /\ [HalNext]_halVars => InFlightIsCancellable'
<1> SUFFICES ASSUME HalInv, InFlightIsCancellable, [HalNext]_halVars
             PROVE  InFlightIsCancellable'
  OBVIOUS
<1> USE DEF HalInv, HalTypeOK, Request, InFlightIsCancellable, InFlight
<1>1. ASSUME NEW r \in Requests, Refuse(r) PROVE InFlightIsCancellable'
  BY <1>1 DEF Refuse
<1>2. ASSUME NEW r \in Requests, Register(r) PROVE InFlightIsCancellable'
  BY <1>2 DEF Register
<1>3. ASSUME NEW r \in Requests, BinderStep(r) PROVE InFlightIsCancellable'
  <2>1. CASE Detach(r)
    BY <2>1 DEF Detach
  <2>2. CASE Accept(r)
    BY <2>2 DEF Accept
  <2> QED
    BY <1>3, <2>1, <2>2 DEF BinderStep
<1>4. ASSUME NEW r \in Requests, ThreadStep(r) PROVE InFlightIsCancellable'
  <2>0. CASE InferFails(r)
    BY <2>0 DEF InferFails
  <2>1. CASE InferStarts(r)
    BY <2>1 DEF InferStarts
  <2>2. CASE LoopChecks(r)
    BY <2>2 DEF LoopChecks
  <2>3. CASE EndOfGeneration(r)
    BY <2>3 DEF EndOfGeneration
  <2>4. CASE SendToken(r)
    BY <2>4 DEF SendToken
  <2>5. CASE EraseFlag(r)
    BY <2>5 DEF EraseFlag
  <2>6. CASE Answer(r)
    BY <2>6 DEF Answer
  <2> QED
    BY <1>4, <2>0, <2>1, <2>2, <2>3, <2>4, <2>5, <2>6 DEF ThreadStep
<1>5. ASSUME NEW id \in SessionIds, Cancel(id) PROVE InFlightIsCancellable'
  BY <1>5 DEF Cancel
<1>6. CASE Finished \/ UNCHANGED halVars
  BY <1>6 DEF Finished, halVars
<1> QED
  BY <1>1, <1>2, <1>3, <1>4, <1>5, <1>6 DEF HalNext

(* If the framework waits for each answer before its next request for a    *)
(* session, cancel finds every request of it that is in flight, whatever   *)
(* the other sessions do: the erase of one request never takes away the    *)
(* flag of another.                                                        *)
THEOREM SequentialRequestsAreCancellable == HalSpec => []InFlightIsCancellable
<1>1. HalInit => InFlightIsCancellable
  BY DEF HalInit, InFlightIsCancellable, InFlight
<1> QED
  BY <1>1, CancellableKept, HalInvariance, PTL DEF HalSpec

-----------------------------------------------------------------------------
(* To the service, clients and their callbacks are stuttering.             *)
LEMMA ClientsStutter == [HalClientNext]_allHalVars => [HalNext]_halVars
<1> SUFFICES ASSUME [HalClientNext]_allHalVars PROVE [HalNext]_halVars
  OBVIOUS
<1>1. ASSUME NEW r \in Requests, Begin(r) \/ Binder(r) \/ ServiceStep(r) PROVE HalNext
  BY <1>1 DEF Begin, Binder, ServiceStep, HalNext, BinderStep, ThreadStep
<1>2. ASSUME NEW r \in Requests, ClientStep(r) \/ ClientDies(r) PROVE UNCHANGED halVars
  BY <1>2 DEF ClientStep, CallReturned, Deliver, WaitEnds, ClientDies
<1>3. ASSUME NEW id \in SessionIds, Cancel(id) PROVE HalNext
  BY <1>3 DEF HalNext
<1>4. CASE AllQuiet \/ UNCHANGED allHalVars
  BY <1>4 DEF AllQuiet, allHalVars
<1> QED BY <1>1, <1>2, <1>3, <1>4 DEF HalClientNext

LEMMA ServiceInvariance == HalClientSpec => []HalInv
<1>1. HalClientInit => HalInit
  BY DEF HalClientInit
<1> QED BY <1>1, InitHolds, HalInvKept, ClientsStutter, PTL DEF HalClientSpec

(* The service with its clients is the service: no client, dead or alive,  *)
(* makes it do what it would not do without it.                            *)
THEOREM ServiceIsItself == HalClientSpec => HalInit /\ [][HalNext]_halVars
<1>1. HalClientInit => HalInit
  BY DEF HalClientInit
<1> QED BY <1>1, ClientsStutter, PTL DEF HalClientSpec

-----------------------------------------------------------------------------
(* The stream of one client.                                               *)

Kinds == {"token", "complete", "error"}

(* Tokens among the callbacks under way: all but a last one that is none.  *)
TokensIn(ch) == IF ch # <<>> /\ ch[Len(ch)] # "token" THEN Len(ch) - 1 ELSE Len(ch)

ClientTypeOK ==
  /\ client \in [Requests -> {"framework", "calling", "waiting", "exited", "dead"}]
  /\ chan \in [Requests -> Seq(Kinds)]
  /\ mDone \in [Requests -> BOOLEAN]
  /\ printed \in [Requests -> Nat]
  /\ lost \in [Requests -> SUBSET Kinds]

(* Printed, under way and lost make up what was sent; the last callback is *)
(* the last; a client ends well only after it.                             *)
StreamOK(r) ==
  /\ \A i \in 1 .. Len(chan[r]) :
       i < Len(chan[r]) \/ sent[r].last = "none" => chan[r][i] = "token"
  /\ "token" \notin lost[r] => printed[r] + TokensIn(chan[r]) = sent[r].tokens
  /\ mDone[r] => chan[r] = <<>> /\ sent[r].last # "none"
  /\ client[r] \in {"waiting", "exited"} => ret[r] # "none"
  /\ client[r] = "exited" /\ ret[r] = "0" => mDone[r]

ClientInv ==
  /\ ClientTypeOK
  /\ \A r \in Requests : IF r \in Tools THEN StreamOK(r) ELSE client[r] = "framework"

(* A step that neither sends to a client nor is one of its own leaves its  *)
(* stream alone; inferStream may return.                                   *)
Aside(r) ==
  /\ client'[r] = client[r] /\ chan'[r] = chan[r] /\ mDone'[r] = mDone[r]
  /\ printed'[r] = printed[r] /\ lost'[r] = lost[r] /\ sent'[r] = sent[r]
  /\ ret'[r] = ret[r] \/ ret[r] = "none"

LEMMA AsideKept == ASSUME NEW r, StreamOK(r), Aside(r) PROVE StreamOK(r)'
  BY DEF StreamOK, Aside

(* One callback more at the end, or the first one gone.                    *)
LEMMA TokensAppended ==
  ASSUME NEW ch \in Seq(Kinds), NEW kind \in Kinds,
         \A i \in 1 .. Len(ch) : ch[i] = "token"
  PROVE  /\ Append(ch, kind) \in Seq(Kinds)
         /\ TokensIn(ch) = Len(ch)
         /\ TokensIn(Append(ch, kind)) = IF kind = "token" THEN Len(ch) + 1 ELSE Len(ch)
         /\ \A i \in 1 .. Len(Append(ch, kind)) :
              i < Len(Append(ch, kind)) \/ kind = "token" => Append(ch, kind)[i] = "token"
<1> DEFINE new == Append(ch, kind)
<1> HIDE DEF Kinds
<1>1. /\ Len(ch) \in Nat /\ new \in Seq(Kinds) /\ Len(new) = Len(ch) + 1 /\ new[Len(ch) + 1] = kind
      /\ \A i \in 1 .. Len(ch) : new[i] = ch[i]
  OBVIOUS
<1>2. ch # <<>> => Len(ch) \in 1 .. Len(ch)
  BY EmptySeq
<1>3. TokensIn(ch) = Len(ch)
  BY <1>2 DEF TokensIn
<1> HIDE DEF new
<1>4. new # <<>>
  BY <1>1, EmptySeq
<1>5. TokensIn(new) = IF kind = "token" THEN Len(ch) + 1 ELSE Len(ch)
  BY <1>1, <1>4 DEF TokensIn
<1>6. ASSUME NEW i \in 1 .. Len(new), i < Len(new) \/ kind = "token" PROVE new[i] = "token"
  BY <1>1, <1>6
<1> QED BY <1>1, <1>3, <1>5, <1>6 DEF new

LEMMA TokenDelivered ==
  ASSUME NEW ch \in Seq(Kinds), ch # <<>>,
         \A i \in 1 .. Len(ch) : i < Len(ch) => ch[i] = "token"
  PROVE  /\ Tail(ch) \in Seq(Kinds) /\ TokensIn(ch) \in Nat /\ TokensIn(<<>>) = 0
         /\ \A i \in 1 .. Len(Tail(ch)) :
              Tail(ch)[i] = ch[i + 1] /\ i + 1 \in 1 .. Len(ch)
              /\ (i < Len(Tail(ch)) => i + 1 < Len(ch))
         /\ Head(ch) = "token" => TokensIn(ch) = TokensIn(Tail(ch)) + 1
         /\ Head(ch) # "token" => Tail(ch) = <<>> /\ TokensIn(ch) = 0
<1> DEFINE new == Tail(ch)
<1> HIDE DEF Kinds
<1>1. Len(ch) \in Nat \ {0}
  BY EmptySeq
<1>2. /\ new \in Seq(Kinds) /\ Len(new) = Len(ch) - 1 /\ Head(ch) = ch[1]
      /\ \A i \in 1 .. Len(ch) - 1 : new[i] = ch[i + 1]
  BY <1>1
<1> HIDE DEF new
<1>3. TokensIn(ch) = IF ch[Len(ch)] # "token" THEN Len(ch) - 1 ELSE Len(ch)
  BY DEF TokensIn
<1>4. TokensIn(<<>>) = 0
  BY EmptySeq DEF TokensIn
<1>5. CASE Len(ch) = 1
  <2>1. new = <<>>
    BY <1>2, <1>5, EmptySeq
  <2>2. Len(new) = 0
    BY <1>2, <1>5
  <2>3. ch[Len(ch)] = Head(ch)
    BY <1>2, <1>5
  <2>4. Head(ch) = "token" => TokensIn(ch) = 1
    BY <1>3, <1>5, <2>3
  <2>5. Head(ch) # "token" => TokensIn(ch) = 0
    BY <1>3, <1>5, <2>3
  <2>6. \A i \in 1 .. Len(new) : FALSE
    BY <2>2
  <2>7. TokensIn(ch) \in Nat /\ (Head(ch) = "token" => TokensIn(ch) = TokensIn(new) + 1)
    BY <1>4, <2>1, <2>4, <2>5
  <2> QED BY <1>2, <1>4, <2>1, <2>5, <2>6, <2>7 DEF new
<1>6. CASE Len(ch) # 1
  <2>1. ch[1] = "token" /\ new # <<>> /\ Len(new) \in Nat \ {0}
    BY <1>1, <1>2, <1>6, EmptySeq
  <2>2. new[Len(new)] = ch[Len(ch)]
    <3>1. Len(new) \in 1 .. Len(ch) - 1 /\ Len(new) + 1 = Len(ch)
      BY <1>1, <1>2, <2>1
    <3> QED BY <1>2, <3>1
  <2>3. TokensIn(new) = IF ch[Len(ch)] # "token" THEN Len(new) - 1 ELSE Len(new)
    BY <2>1, <2>2 DEF TokensIn
  <2>4. TokensIn(ch) = TokensIn(new) + 1 /\ TokensIn(ch) \in Nat
    BY <1>1, <1>2, <1>3, <2>1, <2>3
  <2>5. ASSUME NEW i \in 1 .. Len(new)
        PROVE  new[i] = ch[i + 1] /\ i + 1 \in 1 .. Len(ch) /\ (i < Len(new) => i + 1 < Len(ch))
    BY <1>1, <1>2
  <2> QED BY <1>2, <1>4, <2>1, <2>4, <2>5 DEF new
<1> QED BY <1>5, <1>6

(* The service calls back: the callback is queued, or its loss recorded.   *)
LEMMA CallbackKept ==
  ASSUME ClientInv, NEW r \in Requests, NEW kind \in Kinds, Callback(r, kind),
         sent[r].tokens \in Nat, sent[r].last = "none", UNCHANGED ret,
         \A q \in Requests : q # r => sent'[q] = sent[q],
         \/ kind = "token" /\ sent'[r].tokens = sent[r].tokens + 1 /\ sent'[r].last = "none"
         \/ kind # "token" /\ sent'[r].tokens = sent[r].tokens /\ sent'[r].last # "none"
  PROVE  ClientInv'
<1>0. ClientTypeOK /\ chan[r] \in Seq(Kinds) /\ printed[r] \in Nat
  BY DEF ClientInv, ClientTypeOK
<1>1. UNCHANGED <<client, mDone, printed>>
  BY DEF Callback
<1>2. CASE r \notin Tools
  <2>1. UNCHANGED <<chan, lost>>
    BY <1>2 DEF Callback
  <2>2. ClientTypeOK'
    BY <1>0, <1>1, <2>1 DEF ClientTypeOK
  <2>3. ASSUME NEW q \in Requests, q \in Tools PROVE StreamOK(q)'
    <3>1. Aside(q)
      BY <1>1, <1>2, <2>1, <2>3 DEF Aside
    <3> QED BY <2>3, <3>1, AsideKept DEF ClientInv
  <2> QED BY <1>1, <2>2, <2>3 DEF ClientInv
<1>3. CASE r \in Tools
  <2>0. StreamOK(r) /\ ~mDone[r] /\ \A i \in 1 .. Len(chan[r]) : chan[r][i] = "token"
    BY <1>3 DEF ClientInv, StreamOK
  <2>1. \/ chan' = [chan EXCEPT ![r] = Append(@, kind)] /\ UNCHANGED lost
        \/ lost' = [lost EXCEPT ![r] = @ \cup {kind}] /\ UNCHANGED chan
    BY <1>3 DEF Callback
  <2>2. /\ Append(chan[r], kind) \in Seq(Kinds) /\ TokensIn(chan[r]) = Len(chan[r])
        /\ TokensIn(Append(chan[r], kind)) = IF kind = "token" THEN Len(chan[r]) + 1 ELSE Len(chan[r])
        /\ \A i \in 1 .. Len(Append(chan[r], kind)) :
             i < Len(Append(chan[r], kind)) \/ kind = "token" => Append(chan[r], kind)[i] = "token"
        /\ Len(chan[r]) \in Nat
    BY <1>0, <2>0, TokensAppended, LenProperties
  <2> HIDE DEF Kinds
  <2>3. ClientTypeOK'
    <3>1. chan' \in [Requests -> Seq(Kinds)]
      BY <1>0, <2>1, <2>2 DEF ClientTypeOK
    <3>2. lost' \in [Requests -> SUBSET Kinds]
      <4>1. lost[r] \cup {kind} \in SUBSET Kinds
        BY <1>0 DEF ClientTypeOK
      <4> QED BY <1>0, <2>1, <4>1 DEF ClientTypeOK
    <3> QED BY <1>0, <1>1, <3>1, <3>2 DEF ClientTypeOK
  <2>4. ASSUME NEW q \in Requests, q \in Tools, q # r PROVE StreamOK(q)'
    <3>1. Aside(q)
      BY <1>0, <1>1, <2>1, <2>4 DEF Aside, ClientTypeOK
    <3> QED BY <2>4, <3>1, AsideKept DEF ClientInv
  <2>5. /\ client'[r] = client[r] /\ mDone'[r] = mDone[r] /\ printed'[r] = printed[r]
        /\ ret'[r] = ret[r]
    BY <1>1
  <2>6. CASE chan' = [chan EXCEPT ![r] = Append(@, kind)] /\ UNCHANGED lost
    <3>1. chan'[r] = Append(chan[r], kind) /\ lost'[r] = lost[r]
      BY <1>0, <2>6 DEF ClientTypeOK
    <3>2. "token" \notin lost'[r] => printed'[r] + TokensIn(chan'[r]) = sent'[r].tokens
      <4> SUFFICES ASSUME "token" \notin lost[r]
                   PROVE  printed[r] + TokensIn(chan'[r]) = sent'[r].tokens
        BY <2>5, <3>1
      <4>1. printed[r] + Len(chan[r]) = sent[r].tokens
        BY <2>0, <2>2 DEF StreamOK
      <4>2. kind = "token" => TokensIn(chan'[r]) = Len(chan[r]) + 1
        BY <2>2, <3>1
      <4>3. kind # "token" => TokensIn(chan'[r]) = Len(chan[r])
        BY <2>2, <3>1
      <4> QED BY <1>0, <2>2, <4>1, <4>2, <4>3
    <3>3. \A i \in 1 .. Len(chan'[r]) :
            i < Len(chan'[r]) \/ sent'[r].last = "none" => chan'[r][i] = "token"
      BY <2>2, <3>1
    <3> QED BY <2>0, <2>4, <2>3, <2>5, <3>2, <3>3, <1>1 DEF StreamOK, ClientInv
  <2>7. CASE lost' = [lost EXCEPT ![r] = @ \cup {kind}] /\ UNCHANGED chan
    <3>1. chan'[r] = chan[r] /\ lost'[r] = lost[r] \cup {kind}
      BY <1>0, <2>7 DEF ClientTypeOK
    <3>2. "token" \notin lost'[r] => printed'[r] + TokensIn(chan'[r]) = sent'[r].tokens
      BY <2>0, <2>5, <3>1 DEF StreamOK
    <3> QED BY <2>0, <2>4, <2>3, <2>5, <3>1, <3>2, <1>1 DEF StreamOK, ClientInv
  <2> QED BY <2>1, <2>6, <2>7
<1> QED BY <1>2, <1>3

(* The steps of the service, with their callbacks.                         *)
LEMMA ServiceStepKept ==
  ASSUME HalInv, ClientInv, NEW r \in Requests, ServiceStep(r)
  PROVE  ClientInv'
<1>1. /\ sent \in [Requests -> [tokens : Nat, last : {"none", "complete", "error"}]]
      /\ req[r].pc # "done" => sent[r].last = "none"
  BY DEF HalInv, HalTypeOK, StreamInv
<1>2. CASE SendToken(r) /\ Callback(r, "token")
  <2>1. /\ sent' = [sent EXCEPT ![r].tokens = @ + 1] /\ UNCHANGED ret /\ sent[r].last = "none"
    BY <1>1, <1>2 DEF SendToken
  <2>2. /\ sent'[r].tokens = sent[r].tokens + 1 /\ sent'[r].last = sent[r].last
        /\ \A q \in Requests : q # r => sent'[q] = sent[q]
    BY <1>1, <2>1
  <2>3. "token" \in Kinds /\ sent[r].tokens \in Nat
    BY <1>1 DEF Kinds
  <2> QED BY <1>2, <2>1, <2>2, <2>3, CallbackKept
<1>3. CASE Answer(r) /\ Callback(r, IF req[r].ok THEN "complete" ELSE "error")
  <2> DEFINE kind == IF req[r].ok THEN "complete" ELSE "error"
  <2>1. /\ sent' = [sent EXCEPT ![r].last = kind] /\ UNCHANGED ret /\ sent[r].last = "none"
        /\ kind \in Kinds /\ kind # "token" /\ kind # "none"
    BY <1>1, <1>3 DEF Answer, Kinds
  <2> HIDE DEF kind
  <2>2. /\ sent'[r].tokens = sent[r].tokens /\ sent'[r].last = kind
        /\ \A q \in Requests : q # r => sent'[q] = sent[q]
    BY <1>1, <2>1
  <2>3. sent[r].tokens \in Nat
    BY <1>1
  <2>4. Callback(r, kind)
    BY <1>3 DEF kind
  <2> QED BY <2>1, <2>2, <2>3, <2>4, CallbackKept
<1>4. CASE /\ \/ InferFails(r) \/ InferStarts(r) \/ LoopChecks(r)
              \/ EndOfGeneration(r) \/ EraseFlag(r)
           /\ UNCHANGED clientVars
  <2>1. UNCHANGED <<sent, ret, client, chan, mDone, printed, lost>>
    BY <1>4 DEF InferFails, InferStarts, LoopChecks, EndOfGeneration, EraseFlag, clientVars
  <2> QED BY <2>1, AsideKept DEF ClientInv, ClientTypeOK, Aside
<1> QED BY <1>2, <1>3, <1>4 DEF ServiceStep

(* Calls, cancels and stuttering do not touch a stream.                    *)
LEMMA OthersKept ==
  ASSUME ClientInv, HalInv, UNCHANGED clientVars,
         \/ \E r \in Requests : Refuse(r) \/ Register(r) \/ BinderStep(r)
         \/ \E id \in SessionIds : Cancel(id)
         \/ UNCHANGED halVars
  PROVE  ClientInv'
<1>1. /\ UNCHANGED <<sent, client, chan, mDone, printed, lost>>
      /\ \A q \in Requests : ret'[q] = ret[q] \/ ret[q] = "none"
  BY DEF HalInv, HalTypeOK, Refuse, Register, BinderStep, Detach, Accept, Cancel, halVars, clientVars
<1> QED BY <1>1, AsideKept DEF ClientInv, ClientTypeOK, Aside

(* The client's own steps.                                                 *)
LEMMA DeliverKept ==
  ASSUME ClientInv, HalInv, NEW r \in Requests, Deliver(r)
  PROVE  ClientInv'
<1>0. /\ ClientTypeOK /\ r \in Tools /\ StreamOK(r) /\ chan[r] \in Seq(Kinds) /\ chan[r] # <<>>
      /\ printed[r] \in Nat /\ sent[r].tokens \in Nat
  BY DEF ClientInv, ClientTypeOK, Deliver, Alive, HalInv, HalTypeOK
<1>1. /\ chan' = [chan EXCEPT ![r] = Tail(chan[r])]
      /\ UNCHANGED <<client, lost, sent, ret>>
  BY DEF Deliver, halVars
<1>2. /\ Head(chan[r]) = "token" => printed' = [printed EXCEPT ![r] = @ + 1] /\ mDone' = mDone
      /\ Head(chan[r]) # "token" => mDone' = [mDone EXCEPT ![r] = TRUE] /\ printed' = printed
  BY DEF Deliver
<1>3. \A i \in 1 .. Len(chan[r]) : i < Len(chan[r]) => chan[r][i] = "token"
  BY <1>0 DEF StreamOK
<1>4. /\ Tail(chan[r]) \in Seq(Kinds) /\ TokensIn(chan[r]) \in Nat /\ TokensIn(<<>>) = 0
      /\ \A i \in 1 .. Len(Tail(chan[r])) :
           Tail(chan[r])[i] = chan[r][i + 1] /\ i + 1 \in 1 .. Len(chan[r])
           /\ (i < Len(Tail(chan[r])) => i + 1 < Len(chan[r]))
      /\ Head(chan[r]) = "token" => TokensIn(chan[r]) = TokensIn(Tail(chan[r])) + 1
      /\ Head(chan[r]) # "token" => Tail(chan[r]) = <<>> /\ TokensIn(chan[r]) = 0
  BY <1>0, <1>3, TokenDelivered
<1> HIDE DEF Kinds
<1>5. ClientTypeOK'
  <2>1. chan' \in [Requests -> Seq(Kinds)]
    BY <1>0, <1>1, <1>4 DEF ClientTypeOK
  <2>2. printed' \in [Requests -> Nat]
    BY <1>0, <1>2 DEF ClientTypeOK
  <2>3. mDone' \in [Requests -> BOOLEAN]
    BY <1>0, <1>2, Zenon DEF ClientTypeOK
  <2> QED BY <1>0, <1>1, <2>1, <2>2, <2>3 DEF ClientTypeOK
<1>6. ASSUME NEW q \in Requests, q # r PROVE Aside(q)
  BY <1>0, <1>1, <1>2, <1>6 DEF Aside, ClientTypeOK
<1>7. chan'[r] = Tail(chan[r]) /\ ~mDone[r]
  BY <1>0, <1>1 DEF ClientTypeOK, StreamOK
<1>8. ASSUME NEW i \in 1 .. Len(chan'[r]), i < Len(chan'[r]) \/ sent'[r].last = "none"
      PROVE  chan'[r][i] = "token"
  BY <1>0, <1>1, <1>4, <1>7, <1>8 DEF StreamOK
<1>9. CASE Head(chan[r]) = "token"
  <2>1. printed'[r] = printed[r] + 1 /\ mDone'[r] = mDone[r]
    BY <1>0, <1>2, <1>9 DEF ClientTypeOK
  <2>2. TokensIn(Tail(chan[r])) \in Int
    BY EmptySeq, <1>4 DEF TokensIn
  <2>3. "token" \notin lost'[r] => printed'[r] + TokensIn(chan'[r]) = sent'[r].tokens
    <3> SUFFICES ASSUME "token" \notin lost[r]
                 PROVE  printed'[r] + TokensIn(Tail(chan[r])) = sent[r].tokens
      BY <1>1, <1>7
    <3>1. printed[r] + TokensIn(chan[r]) = sent[r].tokens
      BY <1>0 DEF StreamOK
    <3>2. TokensIn(chan[r]) = TokensIn(Tail(chan[r])) + 1
      BY <1>4, <1>9
    <3> QED BY <1>0, <2>1, <2>2, <3>1, <3>2
  <2>4. StreamOK(r)'
    BY <1>0, <1>1, <1>7, <1>8, <2>1, <2>3 DEF StreamOK
  <2> QED BY <1>0, <1>1, <1>5, <1>6, <2>4, AsideKept DEF ClientInv
<1>10. CASE Head(chan[r]) # "token"
  <2>1. printed'[r] = printed[r] /\ mDone'[r] = TRUE /\ chan'[r] = <<>>
    BY <1>0, <1>2, <1>4, <1>7, <1>10 DEF ClientTypeOK
  <2>2. sent[r].last # "none"
    <3>1. Len(chan[r]) \in Nat \ {0} /\ Head(chan[r]) = chan[r][1]
      BY <1>0, EmptySeq
    <3> QED BY <1>0, <1>10, <3>1 DEF StreamOK
  <2>3. "token" \notin lost'[r] => printed'[r] + TokensIn(chan'[r]) = sent'[r].tokens
    BY <1>0, <1>1, <1>4, <1>10, <2>1 DEF StreamOK
  <2>4. StreamOK(r)'
    BY <1>0, <1>1, <1>8, <2>1, <2>2, <2>3 DEF StreamOK
  <2> QED BY <1>0, <1>1, <1>5, <1>6, <2>4, AsideKept DEF ClientInv
<1> QED BY <1>9, <1>10

LEMMA MainThreadKept ==
  ASSUME ClientInv, NEW r \in Requests, CallReturned(r) \/ WaitEnds(r)
  PROVE  ClientInv'
<1>0. ClientTypeOK /\ r \in Tools /\ StreamOK(r)
  BY DEF ClientInv, ClientTypeOK, CallReturned, WaitEnds
<1>1. /\ UNCHANGED <<chan, mDone, printed, lost, sent, ret>>
      /\ client'[r] \in {"waiting", "exited"} /\ \A q \in Requests : q # r => client'[q] = client[q]
      /\ client' \in [Requests -> {"framework", "calling", "waiting", "exited", "dead"}]
  BY <1>0 DEF CallReturned, WaitEnds, ClientTypeOK, halVars
<1>2. ret[r] # "none"
  BY <1>0 DEF CallReturned, WaitEnds, StreamOK
<1>3. client'[r] = "exited" /\ ret[r] = "0" => mDone[r]
  BY <1>0 DEF CallReturned, WaitEnds, ClientTypeOK
<1>4. StreamOK(r)'
  BY <1>0, <1>1, <1>2, <1>3 DEF StreamOK
<1>5. ASSUME NEW q \in Requests, q # r PROVE Aside(q)
  BY <1>1, <1>5 DEF Aside
<1>6. ClientTypeOK'
  BY <1>0, <1>1 DEF ClientTypeOK
<1> QED BY <1>0, <1>1, <1>4, <1>5, <1>6, AsideKept DEF ClientInv

LEMMA DeathKept ==
  ASSUME ClientInv, HalInv, NEW r \in Requests, ClientDies(r)
  PROVE  ClientInv'
<1>0. /\ ClientTypeOK /\ r \in Tools /\ StreamOK(r) /\ chan[r] \in Seq(Kinds)
      /\ Len(chan[r]) \in Nat /\ printed[r] \in Nat
  BY LenProperties DEF ClientInv, ClientTypeOK, ClientDies, Alive
<1> DEFINE gone == {chan[r][i] : i \in DOMAIN chan[r]}
<1>1. /\ client' = [client EXCEPT ![r] = "dead"] /\ chan' = [chan EXCEPT ![r] = <<>>]
      /\ lost' = [lost EXCEPT ![r] = @ \cup gone]
      /\ UNCHANGED <<mDone, printed, sent, ret>>
  BY DEF ClientDies, halVars
<1>2. gone \subseteq Kinds /\ DOMAIN chan[r] = 1 .. Len(chan[r])
  BY <1>0
<1>3. "token" \notin gone => TokensIn(chan[r]) = 0
  <2> SUFFICES ASSUME "token" \notin gone PROVE TokensIn(chan[r]) = 0
    OBVIOUS
  <2>1. \A i \in 1 .. Len(chan[r]) : chan[r][i] # "token"
    BY <1>2
  <2>2. Len(chan[r]) <= 1
    <3> SUFFICES ASSUME Len(chan[r]) > 1 PROVE FALSE
      BY <1>0
    <3>1. 1 \in 1 .. Len(chan[r]) /\ 1 < Len(chan[r])
      BY <1>0
    <3> QED BY <1>0, <2>1, <3>1 DEF StreamOK
  <2>3. CASE chan[r] = <<>>
    BY <2>3, EmptySeq DEF TokensIn
  <2>4. CASE chan[r] # <<>>
    <3>1. Len(chan[r]) = 1
      <4>1. Len(chan[r]) \in Nat \ {0}
        BY <1>0, <2>4, EmptySeq
      <4>2. \A n \in Nat \ {0} : n <= 1 => n = 1
        OBVIOUS
      <4> QED BY <2>2, <4>1, <4>2, Zenon
    <3> QED BY <2>1, <2>4, <3>1 DEF TokensIn
  <2> QED BY <2>3, <2>4
<1> HIDE DEF gone, Kinds
<1>4. /\ client'[r] = "dead" /\ chan'[r] = <<>> /\ lost'[r] = lost[r] \cup gone
      /\ Len(chan'[r]) = 0
  BY <1>0, <1>1, EmptySeq DEF ClientTypeOK
<1>5. ClientTypeOK'
  <2>1. chan' \in [Requests -> Seq(Kinds)]
    BY <1>0, <1>1, EmptySeq DEF ClientTypeOK
  <2>2. lost' \in [Requests -> SUBSET Kinds]
    <3>1. lost[r] \cup gone \in SUBSET Kinds
      BY <1>0, <1>2 DEF ClientTypeOK
    <3> QED BY <1>0, <1>1, <3>1 DEF ClientTypeOK
  <2> QED BY <1>0, <1>1, <2>1, <2>2 DEF ClientTypeOK
<1>6. ASSUME NEW q \in Requests, q # r PROVE Aside(q)
  BY <1>0, <1>1, <1>6 DEF Aside, ClientTypeOK
<1>7. StreamOK(r)'
  <2>1. TokensIn(chan'[r]) = 0
    BY <1>4 DEF TokensIn
  <2>2. "token" \notin lost'[r] => printed'[r] + TokensIn(chan'[r]) = sent'[r].tokens
    BY <1>0, <1>1, <1>3, <1>4, <2>1 DEF StreamOK
  <2>3. \A i \in 1 .. Len(chan'[r]) : FALSE
    BY <1>4
  <2> QED BY <1>0, <1>1, <1>4, <2>2, <2>3 DEF StreamOK
<1> QED BY <1>0, <1>1, <1>5, <1>6, <1>7, AsideKept DEF ClientInv, ClientTypeOK

LEMMA ClientInvKept == HalInv /\ ClientInv /\ [HalClientNext]_allHalVars => ClientInv'
<1> SUFFICES ASSUME HalInv, ClientInv, [HalClientNext]_allHalVars PROVE ClientInv'
  OBVIOUS
<1>1. ASSUME NEW r \in Requests, Begin(r) \/ Binder(r) PROVE ClientInv'
  BY <1>1, OthersKept DEF Begin, Binder
<1>2. ASSUME NEW r \in Requests, ServiceStep(r) PROVE ClientInv'
  BY <1>2, ServiceStepKept
<1>3. ASSUME NEW r \in Requests, ClientStep(r) \/ ClientDies(r) PROVE ClientInv'
  BY <1>3, DeliverKept, MainThreadKept, DeathKept DEF ClientStep
<1>4. ASSUME NEW id \in SessionIds, Cancel(id), UNCHANGED clientVars PROVE ClientInv'
  BY <1>4, OthersKept
<1>5. CASE AllQuiet \/ UNCHANGED allHalVars
  BY <1>5, OthersKept DEF AllQuiet, allHalVars
<1> QED BY <1>1, <1>2, <1>3, <1>4, <1>5 DEF HalClientNext

(* A client that ends after its last callback has printed every token sent *)
(* to it, whatever the buffer holds and whenever callbacks arrive, unless  *)
(* the buffer lost one.                                                    *)
THEOREM StreamsArrive == HalClientSpec => []StreamArrives
<1>1. HalClientInit => ClientInv
  <2> SUFFICES ASSUME HalClientInit PROVE ClientInv
    OBVIOUS
  <2>1. ClientTypeOK
    BY EmptySeq DEF HalClientInit, ClientTypeOK
  <2>2. ASSUME NEW r \in Requests, r \in Tools PROVE StreamOK(r)
    <3>1. /\ chan[r] = <<>> /\ Len(chan[r]) = 0 /\ ~mDone[r] /\ printed[r] = 0
          /\ client[r] = "calling" /\ sent[r].tokens = 0
      BY <2>2, EmptySeq DEF HalClientInit, HalInit
    <3>2. TokensIn(chan[r]) = 0
      BY <3>1 DEF TokensIn
    <3> QED BY <3>1, <3>2 DEF StreamOK
  <2>3. \A r \in Requests : r \notin Tools => client[r] = "framework"
    BY DEF HalClientInit
  <2> QED BY <2>1, <2>2, <2>3 DEF ClientInv
<1>2. HalInv /\ ClientInv => StreamArrives
  <2> SUFFICES ASSUME HalInv, ClientInv, NEW r \in Requests,
                      client[r] = "exited", ret[r] = "0", "token" \notin lost[r]
               PROVE  printed[r] = sent[r].tokens
    BY DEF StreamArrives
  <2>1. r \in Tools /\ StreamOK(r) /\ printed[r] \in Nat
    BY DEF ClientInv, ClientTypeOK
  <2>2. chan[r] = <<>>
    BY <2>1 DEF StreamOK
  <2>3. TokensIn(chan[r]) = 0
    BY <2>2, EmptySeq DEF TokensIn
  <2> QED BY <2>1, <2>3 DEF StreamOK
<1> QED BY <1>1, <1>2, ClientInvKept, ServiceInvariance, PTL DEF HalClientSpec

-----------------------------------------------------------------------------
(* What the service promises alone it promises with its clients.           *)

(* The flag map stays current, a cancel takes effect and finds a request   *)
(* that does not overlap, and an error comes alone, also when clients die  *)
(* at any point and callbacks are lost.                                    *)
THEOREM PromisesHoldWithClients ==
  HalClientSpec =>
    [](FlagMapIsCurrent /\ CancelIsPrompt /\ ErrorComesAlone /\ InFlightIsCancellable)
<1>1. HalClientInit => InFlightIsCancellable
  BY DEF HalClientInit, HalInit, InFlightIsCancellable, InFlight
<1>2. HalInv => FlagMapIsCurrent /\ CancelIsPrompt
  BY DEF HalInv, LateInv, CancelIsPrompt
<1>3. HalInv => ErrorComesAlone
  BY DEF HalInv, HalTypeOK, Request, StreamInv, ErrorComesAlone
<1> QED
  BY <1>1, <1>2, <1>3, CancellableKept, ClientsStutter, ServiceInvariance, PTL DEF HalClientSpec

=============================================================================
