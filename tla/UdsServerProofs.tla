-------------------------- MODULE UdsServerProofs --------------------------
(***************************************************************************)
(* Proofs about UdsServer and the NPU engine behind it: for any number of  *)
(* clients, any prompts, any size of the context and any order of loads.   *)
(***************************************************************************)
EXTENDS UdsServer, SequenceTheorems, TLAPS

-----------------------------------------------------------------------------
(* The NPU engine.                                                         *)

(* A context is always that of the last load that got so far: one that     *)
(* has a model and a context has both, and the sampler, from one load.     *)
NpuOK ==
  /\ mModel \in Nat /\ mCtx \in Nat /\ mSampler \in Nat /\ loads \in Nat
  /\ mModel # 0 /\ mCtx # 0 => mModel = mCtx /\ mCtx = mSampler
  /\ at = "NPU_LOOP" => mModel # 0 /\ mCtx # 0

(* While a question is answered the cache is a run of its own tokens.      *)
QuestionOK ==
  /\ asked \in Nat /\ left \in Int
  /\ at = "NPU_LOOP" => nPast \in Nat \ {0} /\ OnlyThisQuestion

(* What a step does to the engine and to the place in HandleClient.        *)
LEMMA NpuSteps ==
  ASSUME [UdsNext]_allVars
  PROVE  \/ UNCHANGED npuVars /\ (at' = "NPU_LOOP" => at = "NPU_LOOP")
         \/ (LoadSucceeds \/ LoadNoModel \/ LoadNoContext) /\ at' = "command"
         \/ NpuInferFails /\ at' = "command"
         \/ NpuPrefill /\ isReady
         \/ (NpuGenerates \/ NpuDecodeFails) /\ at = "NPU_LOOP"
         \/ NpuLoopEnds /\ at' = "command"
<1>1. ASSUME NEW c \in Clients, Connect(c) \/ ClientStep(c) \/ Leave(c)
      PROVE  UNCHANGED <<npuVars, at>>
  BY <1>1 DEF Connect, ClientStep, Send, ReceiveAnswer, ReceiveStream, Leave, serverVars
<1>2. CASE ReceiveEof \/ Quiet
  BY <1>2 DEF ReceiveEof, Quiet, serverVars, allVars, udsVars
<1>3. CASE Accept \/ Close
  BY <1>3 DEF Accept, Close
<1>4. ASSUME NEW line \in Lines, SessionCommand(line) \/ Hello(line)
      PROVE  UNCHANGED npuVars /\ (at' = "NPU_LOOP" => at = "NPU_LOOP")
  BY <1>4 DEF SessionCommand, Hello, Write
<1>5. ASSUME NEW line \in Lines, NpuLoad(line)
      PROVE  (LoadSucceeds \/ LoadNoModel \/ LoadNoContext) /\ at' = "command"
  BY <1>5 DEF NpuLoad, Write
<1>6. ASSUME NEW line \in Lines, NoCommand(line) \/ StreamCommand(line)
      PROVE  UNCHANGED npuVars /\ (at' = "NPU_LOOP" => at = "NPU_LOOP")
  BY <1>6 DEF NoCommand, StreamCommand
<1>7. ASSUME NEW line \in Lines, ReadPrompt(line)
      PROVE  UNCHANGED npuVars /\ (at' = "NPU_LOOP" => at = "NPU_LOOP")
  BY <1>7 DEF ReadPrompt, EngineFor
<1>8. CASE NotReady \/ Infer
  BY <1>8 DEF NotReady, Infer, Write, Dies
<1>9. CASE NpuInfer
  BY <1>9 DEF NpuInfer, Write, Dies
<1>10. CASE UNCHANGED allVars
  BY <1>10 DEF allVars, udsVars
<1> QED
  BY <1>1, <1>2, <1>3, <1>4, <1>5, <1>6, <1>7, <1>8, <1>9, <1>10
  DEF UdsNext, ServerStep

LEMMA NpuKept == NpuOK /\ [UdsNext]_allVars => NpuOK'
<1> SUFFICES ASSUME NpuOK, [UdsNext]_allVars PROVE NpuOK'
  OBVIOUS
<1>1. CASE UNCHANGED npuVars /\ (at' = "NPU_LOOP" => at = "NPU_LOOP")
  BY <1>1 DEF NpuOK, npuVars
<1>2. CASE (LoadSucceeds \/ LoadNoModel \/ LoadNoContext) /\ at' = "command"
  BY <1>2 DEF NpuOK, LoadSucceeds, LoadNoModel, LoadNoContext
<1>3. CASE \/ (NpuInferFails \/ NpuLoopEnds) /\ at' = "command"
           \/ NpuPrefill /\ isReady
           \/ (NpuGenerates \/ NpuDecodeFails) /\ at = "NPU_LOOP"
  BY <1>3 DEF NpuOK, NpuInferFails, NpuLoopEnds, NpuPrefill, isReady, NpuGenerates,
              NpuDecodeFails
<1> QED BY <1>1, <1>2, <1>3, NpuSteps

(* A load that fails half way leaves nothing behind that a later question  *)
(* could use: no question runs on parts of two loads.                      *)
THEOREM OneLoadAtATime == UdsSpec => []OneLoad
<1>1. UdsInit => NpuOK
  BY DEF UdsInit, NpuInit, NpuOK
<1>2. NpuOK => OneLoad
  BY DEF NpuOK, OneLoad
<1> QED BY <1>1, <1>2, NpuKept, PTL DEF UdsSpec

-----------------------------------------------------------------------------
(* The cells of a question.                                                *)

Run(question, n) == {Cell(p, question) : p \in 0 .. n - 1}

(* The largest position of a run, and of nothing.                          *)
LEMMA RunEnds ==
  ASSUME NEW question, NEW n \in Nat
  PROVE  seq_pos_max(Run(question, n)) = n - 1
<1> DEFINE run == Run(question, n)
           P == {x.pos : x \in run}
<1>1. CASE n = 0
  <2>1. run = {}
    BY <1>1 DEF Run
  <2> QED BY <1>1, <2>1 DEF seq_pos_max
<1>2. CASE n # 0
  <2>1. Cell(n - 1, question) \in run /\ \A x \in run : x.pos \in 0 .. n - 1
    BY <1>2 DEF Run, Cell
  <2>2. n - 1 \in P /\ \A x \in run : x.pos <= n - 1
    <3>1. Cell(n - 1, question).pos = n - 1
      BY DEF Cell
    <3> QED BY <2>1, <3>1
  <2>3. \A p \in P : (\A x \in run : x.pos <= p) => p = n - 1
    <3>1. Cell(n - 1, question).pos = n - 1
      BY DEF Cell
    <3> QED BY <2>1, <2>2, <3>1
  <2>4. seq_pos_max(run) = CHOOSE p \in P : \A x \in run : x.pos <= p
    BY <2>1 DEF seq_pos_max
  <2> HIDE DEF run, P
  <2>5. seq_pos_max(run) = n - 1
    BY <2>2, <2>3, <2>4
  <2> QED BY <2>5 DEF run
<1> QED BY <1>1, <1>2

(* Decoding m more tokens of the question makes the run that much longer.  *)
LEMMA RunGrows ==
  ASSUME NEW question, NEW n \in Nat, NEW m \in Nat
  PROVE  Decoded(Run(question, n), TokensOf(question, m)) = Run(question, n + m)
<1> DEFINE toks == TokensOf(question, m)
           new == {Cell((n - 1) + i, toks[i]) : i \in 1 .. m}
<1>1. Len(toks) = m /\ \A i \in 1 .. m : toks[i] = question
  BY DEF TokensOf
<1>2. Decoded(Run(question, n), toks) = Run(question, n) \cup new
  BY <1>1, RunEnds DEF Decoded
<1>3. new = {Cell((n - 1) + i, question) : i \in 1 .. m}
  BY <1>1
<1> HIDE DEF new, toks
<1>4. Run(question, n) \cup new = Run(question, n + m)
  <2>1. ASSUME NEW x \in Run(question, n) \cup new PROVE x \in Run(question, n + m)
    <3>1. CASE x \in Run(question, n)
      BY <3>1 DEF Run
    <3>2. CASE x \in new
      <4>1. PICK i \in 1 .. m : x = Cell((n - 1) + i, question)
        BY <1>3, <3>2
      <4>2. (n - 1) + i \in 0 .. (n + m) - 1
        OBVIOUS
      <4> QED BY <4>1, <4>2 DEF Run
    <3> QED BY <2>1, <3>1, <3>2
  <2>2. ASSUME NEW x \in Run(question, n + m) PROVE x \in Run(question, n) \cup new
    <3>1. PICK p \in 0 .. (n + m) - 1 : x = Cell(p, question)
      BY DEF Run
    <3>2. CASE p < n
      BY <3>1, <3>2 DEF Run
    <3>3. CASE p >= n
      <4>1. (p - n) + 1 \in 1 .. m /\ (n - 1) + ((p - n) + 1) = p
        BY <3>3
      <4>2. Cell((n - 1) + ((p - n) + 1), question) \in new
        BY <1>3, <4>1
      <4> QED BY <3>1, <4>1, <4>2
    <3> QED BY <3>2, <3>3
  <2> QED BY <2>1, <2>2
<1> QED BY <1>2, <1>4 DEF toks

LEMMA QuestionKept == QuestionOK /\ [UdsNext]_allVars => QuestionOK'
<1> SUFFICES ASSUME QuestionOK, [UdsNext]_allVars PROVE QuestionOK'
  OBVIOUS
<1>1. CASE UNCHANGED npuVars /\ (at' = "NPU_LOOP" => at = "NPU_LOOP")
  BY <1>1 DEF QuestionOK, OnlyThisQuestion, npuVars
<1>2. CASE \/ (LoadSucceeds \/ LoadNoModel \/ LoadNoContext) /\ at' = "command"
           \/ (NpuInferFails \/ NpuLoopEnds) /\ at' = "command"
  BY <1>2 DEF QuestionOK, LoadSucceeds, LoadNoModel, LoadNoContext, NpuInferFails, NpuLoopEnds
<1>3. CASE NpuPrefill
  <2>1. PICK n \in 1 .. MaxPrompt, max \in 0 .. MaxNew :
          /\ cache' = Decoded(Cleared, TokensOf(asked', n))
          /\ nPast' = n /\ left' = max
    BY <1>3 DEF NpuPrefill
  <2>2. Cleared = Run(asked', 0) /\ n \in Nat \ {0}
    BY NpuAssumption DEF Cleared, kv_cache_clear, Run
  <2>3. cache' = Run(asked', 0 + n)
    BY <2>1, <2>2, RunGrows
  <2>4. asked' \in Nat
    BY <1>3 DEF NpuPrefill, QuestionOK
  <2>5. cache' = {Cell(p, asked') : p \in 0 .. nPast' - 1}
    BY <2>1, <2>2, <2>3 DEF Run
  <2> QED BY <2>1, <2>2, <2>4, <2>5 DEF QuestionOK, OnlyThisQuestion
<1>4. CASE NpuGenerates /\ at = "NPU_LOOP"
  <2>1. /\ nPast \in Nat \ {0} /\ asked \in Nat /\ left \in Int
        /\ cache = Run(asked, nPast)
    BY <1>4 DEF QuestionOK, OnlyThisQuestion, Run
  <2>2. /\ cache' = Decoded(cache, TokensOf(asked, 1)) /\ nPast' = nPast + 1
        /\ asked' = asked /\ left' = left - 1
    BY <1>4 DEF NpuGenerates
  <2>3. cache' = Run(asked, nPast + 1)
    BY <2>1, <2>2, RunGrows
  <2> QED BY <2>1, <2>2, <2>3 DEF QuestionOK, OnlyThisQuestion, Run
<1>5. CASE NpuDecodeFails /\ at = "NPU_LOOP"
  BY <1>5 DEF QuestionOK, OnlyThisQuestion, NpuDecodeFails
<1> QED BY <1>1, <1>2, <1>3, <1>4, <1>5, NpuSteps

(* The tokens in the context are those of the question being answered, at  *)
(* consecutive positions from 0, however many questions and loads came     *)
(* before, whatever their length: the position passed on is the true one.  *)
THEOREM OnlyThisQuestionIsSeen == UdsSpec => []OnlyThisQuestion
<1>1. UdsInit => QuestionOK
  BY DEF UdsInit, NpuInit, QuestionOK
<1>2. QuestionOK => OnlyThisQuestion
  BY DEF QuestionOK, OnlyThisQuestion
<1> QED BY <1>1, <1>2, QuestionKept, PTL DEF UdsSpec

-----------------------------------------------------------------------------
(* Commands, prompts and answers: the types first.                         *)

Places  == {"accept", "command", "prompt", "INFER", "NPU_INFER", "CPU_LOOP", "NPU_LOOP"}
Answers == {"OK", "ERROR", "HELLO", "TOKEN", "DONE"}

ServerTypeOK ==
  /\ up \in BOOLEAN /\ cpuReady \in BOOLEAN
  /\ backlog \in Seq(Clients) /\ conn \in Clients \cup {Nobody}
  /\ at \in Places /\ (at = "accept" <=> conn = Nobody)
  /\ cmd \in Simple \cup Streaming /\ (at = "prompt" => cmd \in Streaming)
  /\ at \in {"INFER", "CPU_LOOP"} => cmd \in Streaming \ {"NPU_INFER"}
  /\ at = "CPU_LOOP" => cpuReady
  /\ at \in {"NPU_INFER", "NPU_LOOP"} => cmd = "NPU_INFER"
  /\ prompt \in Seq(Lines)

ClientTypeOK ==
  /\ state \in [Clients -> {"idle", "sending", "waiting", "done", "gone"}]
  /\ job \in [Clients -> Jobs]
  /\ unsent \in [Clients -> Seq(Lines)] /\ wire \in [Clients -> Seq(Lines)]
  /\ reply \in [Clients -> Seq(Answers)] /\ written \in [Clients -> Seq(Answers)]
  /\ \A c \in Clients : state[c] = "sending" => unsent[c] # <<>>

UdsTypeOK == ServerTypeOK /\ ClientTypeOK

LEMMA ClientsAreSomebody == Clients \subseteq Nat \ {Nobody}
  BY UdsAssumption DEF Clients, Nobody

(* A message is its command, then its prompt and END if it streams.        *)
LEMMA MessageIs ==
  ASSUME NEW j \in Jobs
  PROVE  /\ Message(j) \in Seq(Lines) /\ Message(j)[1] = j.cmd
         /\ j.cmd \in Simple \cup Streaming /\ j.prompt \in Seq(Lines)
         /\ j.cmd \in Simple => Len(Message(j)) = 1 /\ j.cmd \notin Streaming
         /\ j.cmd \in Streaming =>
              /\ Len(Message(j)) = Len(j.prompt) + 2
              /\ \A i \in 1 .. Len(j.prompt) : Message(j)[1 + i] = j.prompt[i]
              /\ Message(j)[Len(j.prompt) + 2] = "END"
<1>1. /\ j.cmd \in Simple \cup Streaming /\ j.prompt \in Seq(Lines) /\ j.cmd \in Lines
      /\ "END" \in Lines /\ (j.cmd \in Simple => j.cmd \notin Streaming)
  <2>1. <<>> \in Seq(Lines)
    OBVIOUS
  <2> QED BY <2>1, UdsAssumption DEF Jobs, Lines, Simple, Streaming
<1>2. CASE j.cmd \in Simple
  BY <1>1, <1>2 DEF Message
<1>3. CASE j.cmd \notin Simple
  <2>1. <<j.cmd>> \in Seq(Lines) /\ <<"END">> \in Seq(Lines)
    BY <1>1
  <2>2. Message(j) = (<<j.cmd>> \o j.prompt) \o <<"END">>
    BY <1>3 DEF Message
  <2> HIDE DEF Lines
  <2> DEFINE front == <<j.cmd>> \o j.prompt
  <2>3. /\ front \in Seq(Lines) /\ Len(front) = 1 + Len(j.prompt) /\ front[1] = j.cmd
        /\ \A i \in 1 .. Len(j.prompt) : front[1 + i] = j.prompt[i]
    BY <1>1, <2>1
  <2> HIDE DEF front
  <2>4. /\ front \o <<"END">> \in Seq(Lines) /\ Len(front \o <<"END">>) = Len(front) + 1
        /\ \A i \in 1 .. Len(front) : (front \o <<"END">>)[i] = front[i]
        /\ (front \o <<"END">>)[Len(front) + 1] = "END"
    BY <2>1, <2>3
  <2>5. Len(j.prompt) \in Nat
    BY <1>1
  <2>6. Message(j) = front \o <<"END">>
    BY <2>2 DEF front
  <2> QED BY <1>1, <1>3, <2>3, <2>4, <2>5, <2>6
<1> QED BY <1>2, <1>3

(* What one client may do to the types.                                    *)
LEMMA ConnectTyped == ASSUME UdsTypeOK, NEW c \in Clients, Connect(c) PROVE UdsTypeOK'
<1>1. PICK j \in Jobs : job' = [job EXCEPT ![c] = j] /\ unsent' = [unsent EXCEPT ![c] = Message(j)]
  BY DEF Connect
<1>2. Message(j) \in Seq(Lines) /\ Message(j) # <<>>
  <2>1. Message(j) \in Seq(Lines) /\ Len(Message(j)) # 0
    BY MessageIs
  <2> QED BY <2>1
<1>3. Append(backlog, c) \in Seq(Clients)
  BY DEF UdsTypeOK, ServerTypeOK
<1>4. ServerTypeOK'
  BY <1>3 DEF UdsTypeOK, ServerTypeOK, Connect
<1>5. ClientTypeOK'
  BY <1>1, <1>2 DEF UdsTypeOK, ClientTypeOK, Connect
<1> QED BY <1>4, <1>5 DEF UdsTypeOK

LEMMA SendTyped == ASSUME UdsTypeOK, NEW c \in Clients, Send(c) PROVE UdsTypeOK'
<1>1. unsent[c] \in Seq(Lines) /\ unsent[c] # <<>> /\ wire[c] \in Seq(Lines)
  BY DEF UdsTypeOK, ClientTypeOK, Send
<1>2. Head(unsent[c]) \in Lines /\ Tail(unsent[c]) \in Seq(Lines)
  BY <1>1
<1>3. Append(wire[c], Head(unsent[c])) \in Seq(Lines)
  BY <1>1, <1>2
<1>4. Len(unsent[c]) # 1 => Tail(unsent[c]) # <<>>
  <2>1. Len(unsent[c]) \in Nat \ {0} /\ Len(Tail(unsent[c])) = Len(unsent[c]) - 1
    BY <1>1
  <2>2. Len(Tail(unsent[c])) = 0 => Len(unsent[c]) = 1
    BY <2>1
  <2>3. Tail(unsent[c]) = <<>> => Len(Tail(unsent[c])) = 0
    BY <1>2, EmptySeq, Zenon
  <2> QED BY <2>2, <2>3, Zenon
<1>5. ServerTypeOK'
  BY DEF UdsTypeOK, ServerTypeOK, Send, serverVars
<1> HIDE DEF Lines
<1>6. ClientTypeOK'
  BY <1>2, <1>3, <1>4 DEF UdsTypeOK, ClientTypeOK, Send
<1> QED BY <1>5, <1>6 DEF UdsTypeOK

LEMMA OtherClientStepsTyped ==
  ASSUME UdsTypeOK, NEW c \in Clients, ReceiveAnswer(c) \/ ReceiveStream(c) \/ Leave(c)
  PROVE  UdsTypeOK'
<1>1. ServerTypeOK'
  BY DEF UdsTypeOK, ServerTypeOK, ReceiveAnswer, ReceiveStream, Leave, serverVars
<1>2. reply[c] # <<>> => Tail(reply[c]) \in Seq(Answers)
  BY DEF UdsTypeOK, ClientTypeOK
<1>3. CASE ReceiveAnswer(c)
  BY <1>1, <1>2, <1>3 DEF UdsTypeOK, ClientTypeOK, ReceiveAnswer
<1>4. CASE ReceiveStream(c)
  BY <1>1, <1>2, <1>4 DEF UdsTypeOK, ClientTypeOK, ReceiveStream
<1>5. CASE Leave(c)
  BY <1>1, <1>5 DEF UdsTypeOK, ClientTypeOK, Leave
<1> QED BY <1>3, <1>4, <1>5

LEMMA EofTyped == UdsTypeOK /\ (ReceiveEof \/ UNCHANGED allVars) => UdsTypeOK'
<1>1. ServerTypeOK /\ (ReceiveEof \/ UNCHANGED allVars) => ServerTypeOK'
  BY DEF ServerTypeOK, ReceiveEof, serverVars, allVars, udsVars
<1>2. ClientTypeOK /\ ReceiveEof => ClientTypeOK'
  BY DEF ClientTypeOK, ReceiveEof
<1>3. ClientTypeOK /\ UNCHANGED allVars => ClientTypeOK'
  BY DEF ClientTypeOK, allVars, udsVars
<1> QED BY <1>1, <1>2, <1>3 DEF UdsTypeOK

(* What the daemon writes, reads and forgets is of its type.               *)
LEMMA WriteTyped ==
  ASSUME UdsTypeOK, conn # Nobody, NEW line \in Answers, NEW next \in Places,
         Write(<<line>>, next)
  PROVE  /\ up' \in BOOLEAN /\ at' = next
         /\ reply' \in [Clients -> Seq(Answers)] /\ written' \in [Clients -> Seq(Answers)]
<1>1. reply[conn] \in Seq(Answers) /\ written[conn] \in Seq(Answers) /\ <<line>> \in Seq(Answers)
  BY DEF UdsTypeOK, ServerTypeOK, ClientTypeOK
<1> HIDE DEF Answers
<1>2. reply[conn] \o <<line>> \in Seq(Answers) /\ written[conn] \o <<line>> \in Seq(Answers)
  BY <1>1
<1> QED BY <1>2 DEF UdsTypeOK, ServerTypeOK, ClientTypeOK, Write

LEMMA ReadsTyped ==
  ASSUME UdsTypeOK, conn # Nobody, NEW line, Reads(line)
  PROVE  line \in Lines /\ wire' \in [Clients -> Seq(Lines)]
<1> HIDE DEF Lines
<1>1. conn \in Clients /\ wire[conn] \in Seq(Lines) /\ wire[conn] # <<>>
  BY DEF UdsTypeOK, ServerTypeOK, ClientTypeOK, Reads
<1>2. Head(wire[conn]) \in Lines /\ Tail(wire[conn]) \in Seq(Lines)
  BY <1>1
<1> QED BY <1>1, <1>2 DEF UdsTypeOK, ClientTypeOK, Reads

LEMMA ForgetTyped ==
  ASSUME UdsTypeOK, NEW c \in Clients, Forget(c)
  PROVE  ClientTypeOK'
<1>1. NoJob \in Jobs
  BY DEF NoJob, Jobs, Simple
<1>2. <<>> \in Seq(Lines) /\ <<>> \in Seq(Answers)
  OBVIOUS
<1> HIDE DEF NoJob
<1> QED BY <1>1, <1>2 DEF UdsTypeOK, ClientTypeOK, Forget

LEMMA AcceptTyped == UdsTypeOK /\ Accept => UdsTypeOK'
<1> SUFFICES ASSUME UdsTypeOK, Accept PROVE UdsTypeOK'
  OBVIOUS
<1>1. backlog \in Seq(Clients) /\ backlog # <<>>
  BY DEF UdsTypeOK, ServerTypeOK, Accept
<1>2. Head(backlog) \in Clients /\ Tail(backlog) \in Seq(Clients)
  BY <1>1
<1>3. Head(backlog) # Nobody
  BY <1>2, ClientsAreSomebody
<1>4. CASE conn' = Head(backlog) /\ at' = "command" /\ UNCHANGED <<clientVars, wire, reply, written>>
  <2>1. ServerTypeOK'
    BY <1>2, <1>3, <1>4 DEF UdsTypeOK, ServerTypeOK, Accept, Places
  <2>2. ClientTypeOK'
    BY <1>4 DEF UdsTypeOK, ClientTypeOK, clientVars
  <2> QED BY <2>1, <2>2 DEF UdsTypeOK
<1>5. CASE Forget(Head(backlog)) /\ UNCHANGED <<conn, at>>
  <2>1. ServerTypeOK'
    BY <1>2, <1>5 DEF UdsTypeOK, ServerTypeOK, Accept
  <2>2. ClientTypeOK'
    BY <1>2, <1>5, ForgetTyped
  <2> QED BY <2>1, <2>2 DEF UdsTypeOK
<1> QED BY <1>4, <1>5 DEF Accept

(* The steps that serve a connection.                                      *)
Serves(line) ==
  \/ SessionCommand(line) \/ NpuLoad(line) \/ Hello(line)
  \/ NoCommand(line) \/ StreamCommand(line) \/ ReadPrompt(line)

LEMMA ServesTyped == ASSUME UdsTypeOK, NEW line \in Lines, Serves(line) PROVE UdsTypeOK'
<1>0. at \in {"command", "prompt"} /\ conn # Nobody
  BY DEF UdsTypeOK, ServerTypeOK, Serves, SessionCommand, NpuLoad, Hello, NoCommand,
         StreamCommand, ReadPrompt
<1>1. ASSUME NEW answer \in Answers, at = "command", Reads(line), Write(<<answer>>, "command"),
             UNCHANGED <<cpuReady, setup, backlog, conn, cmd, prompt, clientVars>>
      PROVE  UdsTypeOK'
  <2>1. /\ up' \in BOOLEAN /\ at' = "command"
        /\ reply' \in [Clients -> Seq(Answers)] /\ written' \in [Clients -> Seq(Answers)]
    BY <1>0, <1>1, WriteTyped DEF Places
  <2>2. wire' \in [Clients -> Seq(Lines)]
    BY <1>0, <1>1, ReadsTyped
  <2>3. ServerTypeOK'
    BY <1>1, <2>1 DEF UdsTypeOK, ServerTypeOK, Places
  <2>4. ClientTypeOK'
    BY <1>1, <2>1, <2>2 DEF UdsTypeOK, ClientTypeOK, clientVars
  <2> QED BY <2>3, <2>4 DEF UdsTypeOK
<1>2. ASSUME Reads(line) \/ UNCHANGED wire, UNCHANGED <<clientVars, reply, written>>
      PROVE  ClientTypeOK'
  <2>1. wire' \in [Clients -> Seq(Lines)]
    BY <1>0, <1>2, ReadsTyped DEF UdsTypeOK, ClientTypeOK
  <2> QED BY <1>2, <2>1 DEF UdsTypeOK, ClientTypeOK, clientVars
<1>3. CASE SessionCommand(line)
  <2>1. CASE line \in Unguarded /\ ~cpuReady
    <3>1. up' = FALSE /\ UNCHANGED <<at, reply, written>>
      BY <1>3, <2>1 DEF SessionCommand
    <3>2. ClientTypeOK'
      BY <1>2, <1>3, <3>1 DEF SessionCommand
    <3>3. ServerTypeOK'
      BY <1>3, <3>1 DEF UdsTypeOK, ServerTypeOK, SessionCommand
    <3> QED BY <3>2, <3>3 DEF UdsTypeOK
  <2>2. CASE ~(line \in Unguarded /\ ~cpuReady)
    <3>1. PICK answer \in {"OK", "ERROR"} : Write(<<answer>>, "command")
      BY <1>3, <2>2 DEF SessionCommand
    <3> QED BY <1>1, <1>3, <3>1 DEF SessionCommand, Answers
  <2> QED BY <2>1, <2>2
<1>4. CASE NpuLoad(line)
  BY <1>1, <1>4 DEF NpuLoad, Answers
<1>5. CASE Hello(line)
  BY <1>1, <1>5 DEF Hello, Answers
<1>6. CASE NoCommand(line)
  <2>1. ServerTypeOK'
    BY <1>6 DEF UdsTypeOK, ServerTypeOK, NoCommand
  <2> QED BY <1>2, <1>6, <2>1 DEF UdsTypeOK, NoCommand
<1>7. CASE StreamCommand(line)
  <2>1. <<>> \in Seq(Lines)
    OBVIOUS
  <2>2. ServerTypeOK'
    BY <1>0, <1>7, <2>1 DEF UdsTypeOK, ServerTypeOK, StreamCommand, Places
  <2> QED BY <1>2, <1>7, <2>2 DEF UdsTypeOK, StreamCommand
<1>8. CASE ReadPrompt(line)
  <2>1. Append(prompt, line) \in Seq(Lines)
    BY DEF UdsTypeOK, ServerTypeOK
  <2>2. \/ prompt' = Append(prompt, line) /\ UNCHANGED at
        \/ at' = EngineFor(cmd) /\ UNCHANGED prompt
    BY <1>8 DEF ReadPrompt, Collected
  <2>3. ServerTypeOK'
    BY <1>0, <1>8, <2>1, <2>2 DEF UdsTypeOK, ServerTypeOK, ReadPrompt, Places, EngineFor
  <2>4. Reads(line) \/ UNCHANGED wire
    BY <1>8 DEF ReadPrompt, PromptEnds
  <2> QED BY <1>2, <1>8, <2>3, <2>4 DEF UdsTypeOK, ReadPrompt
<1> QED BY <1>3, <1>4, <1>5, <1>6, <1>7, <1>8 DEF Serves

(* An engine goes from the prompt to its answer.                           *)
InLoop == \/ at = "INFER" /\ at' = "CPU_LOOP" /\ cpuReady
          \/ at = "NPU_INFER" /\ at' = "NPU_LOOP"

LEMMA RunsTyped == UdsTypeOK /\ (NotReady \/ Infer \/ NpuInfer) => UdsTypeOK'
<1> SUFFICES ASSUME UdsTypeOK, NotReady \/ Infer \/ NpuInfer PROVE UdsTypeOK'
  OBVIOUS
<1>0. /\ at \in {"INFER", "CPU_LOOP", "NPU_INFER", "NPU_LOOP"} /\ conn # Nobody
      /\ UNCHANGED <<cpuReady, setup, backlog, conn, cmd, prompt, clientVars, wire>>
  BY DEF UdsTypeOK, ServerTypeOK, NotReady, Infer, NpuInfer, InferDies, NpuInferDies
<1>1. \/ \E answer \in Answers : \E next \in {"command", at} : Write(<<answer>>, next)
      \/ InLoop /\ UNCHANGED <<up, reply, written>>
      \/ Dies
  BY DEF NotReady, Infer, NpuInfer, Answers, InLoop
<1>2. /\ up' \in BOOLEAN /\ (at' \in {"command", at} \/ InLoop)
      /\ reply' \in [Clients -> Seq(Answers)] /\ written' \in [Clients -> Seq(Answers)]
  <2>1. CASE \E answer \in Answers : \E next \in {"command", at} : Write(<<answer>>, next)
    <3>1. "command" \in Places /\ at \in Places
      BY DEF Places, UdsTypeOK, ServerTypeOK
    <3> QED BY <1>0, <2>1, <3>1, WriteTyped
  <2>2. CASE InLoop /\ UNCHANGED <<up, reply, written>>
    BY <2>2 DEF UdsTypeOK, ServerTypeOK, ClientTypeOK
  <2>3. CASE Dies
    BY <2>3 DEF UdsTypeOK, ServerTypeOK, ClientTypeOK, Dies
  <2> QED BY <1>1, <2>1, <2>2, <2>3
<1>3. ServerTypeOK'
  BY <1>0, <1>2 DEF UdsTypeOK, ServerTypeOK, Places, InLoop
<1>4. ClientTypeOK'
  BY <1>0, <1>2 DEF UdsTypeOK, ClientTypeOK, clientVars
<1> QED BY <1>3, <1>4 DEF UdsTypeOK

LEMMA CloseTyped == UdsTypeOK /\ Close => UdsTypeOK'
<1> SUFFICES ASSUME UdsTypeOK, Close PROVE UdsTypeOK'
  OBVIOUS
<1>1. conn \in Clients
  BY DEF UdsTypeOK, ServerTypeOK, Close
<1>2. <<>> \in Seq(Lines)
  OBVIOUS
<1>3. ServerTypeOK'
  BY <1>2 DEF UdsTypeOK, ServerTypeOK, Close, Places, Simple
<1>4. ClientTypeOK'
  BY <1>1, ForgetTyped DEF Close
<1> QED BY <1>3, <1>4 DEF UdsTypeOK

LEMMA UdsTyped == UdsTypeOK /\ [UdsNext]_allVars => UdsTypeOK'
  BY ConnectTyped, SendTyped, OtherClientStepsTyped, EofTyped, AcceptTyped, ServesTyped,
     RunsTyped, CloseTyped
  DEF UdsNext, ServerStep, ClientStep, Quiet, Serves

-----------------------------------------------------------------------------
(* What of message m is under way (w) and unsent (u) once k chunks of it   *)
(* have been read.                                                         *)
LeftOver(w, u, m, k) ==
  /\ k + (Len(w) + Len(u)) = Len(m)
  /\ \A i \in 1 .. Len(w) : w[i] = m[k + i]
  /\ \A i \in 1 .. Len(u) : u[i] = m[k + (Len(w) + i)]

Left(c, k) == LeftOver(wire[c], unsent[c], Message(job[c]), k)

(* Nothing has been written to the client, so it is still there or killed. *)
Silent(c) == /\ written[c] = <<>> /\ reply[c] = <<>>
             /\ state[c] \in {"sending", "waiting", "gone"}

(* Nothing of its message has been read.                                   *)
Fresh(c) == Silent(c) /\ Left(c, 0)

(* All of its message has been read.                                       *)
Spent(c) == wire[c] = <<>> /\ unsent[c] = <<>>

(* Its prompt has been read so far, and no END.                            *)
Reading(c) ==
  /\ Silent(c) /\ cmd = job[c].cmd /\ job[c].cmd \in Streaming
  /\ Left(c, 1 + Len(prompt))
  /\ \A i \in 1 .. Len(prompt) : prompt[i] = Message(job[c])[1 + i] /\ prompt[i] # "END"

(* Its prompt has been read, up to the END or to where the client died.    *)
Asked(c) ==
  /\ cmd = job[c].cmd /\ job[c].cmd \in Streaming
  /\ (Spent(c) /\ prompt = job[c].prompt) \/ (unsent[c] # <<>> /\ state[c] = "gone")

(* It is being sent tokens, and nothing else yet.                          *)
Streams(c) ==
  /\ \A i \in 1 .. Len(written[c]) : written[c][i] = "TOKEN"
  /\ \A i \in 1 .. Len(reply[c]) : reply[c][i] = "TOKEN"
  /\ state[c] \in {"sending", "waiting", "gone"}

(* Where HandleClient is and what has become of the message agree, except  *)
(* for a prompt with an END in it.                                         *)
Phase(c) ==
  /\ at = "command" => Fresh(c) \/ Spent(c)
  /\ at = "prompt" => Reading(c)
  /\ at \in {"INFER", "NPU_INFER"} => Asked(c) /\ Silent(c)
  /\ at \in {"CPU_LOOP", "NPU_LOOP"} => Asked(c) /\ Streams(c)

InBacklog(c) == \E i \in 1 .. Len(backlog) : backlog[i] = c

ClientOK(c) ==
  /\ state[c] = "idle" => /\ c # conn /\ ~InBacklog(c)
                          /\ wire[c] = <<>> /\ reply[c] = <<>> /\ written[c] = <<>>
  /\ InBacklog(c) => c # conn /\ Fresh(c)
  /\ c = conn /\ ~HasEnd(c) => Phase(c)

OnceInBacklog ==
  \A i, j \in 1 .. Len(backlog) : backlog[i] = backlog[j] => i = j

Answered(c) ==
  ~HasEnd(c) => \A i \in 1 .. Len(written[c]) :
                  /\ i < Len(written[c]) => written[c][i] = "TOKEN"
                  /\ written[c][i] = "TOKEN" => job[c].cmd \in Streaming

UdsInv ==
  /\ UdsTypeOK
  /\ up => OnceInBacklog /\ \A c \in Clients : ClientOK(c)
  /\ \A c \in Clients : Answered(c)
  /\ ~up => conn # Nobody /\ DownHasReason

(* A chunk sent goes from one part to the other; a chunk read is the next. *)
LEMMA SentLeft ==
  ASSUME NEW w \in Seq(Lines), NEW u \in Seq(Lines), u # <<>>, NEW m, NEW k \in Nat,
         LeftOver(w, u, m, k)
  PROVE  LeftOver(Append(w, Head(u)), Tail(u), m, k)
<1> HIDE DEF Lines
<1> DEFINE ww == Append(w, Head(u))
           uu == Tail(u)
<1>1. Len(u) \in Nat \ {0} /\ Len(w) \in Nat
  BY EmptySeq
<1>2. /\ Len(ww) = Len(w) + 1 /\ Len(uu) = Len(u) - 1
      /\ \A i \in 1 .. Len(w) : ww[i] = w[i]
      /\ ww[Len(w) + 1] = u[1]
      /\ \A i \in 1 .. Len(u) - 1 : uu[i] = u[i + 1]
  BY <1>1
<1> HIDE DEF ww, uu
<1>3. k + (Len(ww) + Len(uu)) = Len(m)
  <2>1. k + (Len(w) + Len(u)) = Len(m)
    BY DEF LeftOver
  <2>2. Len(ww) + Len(uu) = Len(w) + Len(u)
    BY <1>1, <1>2
  <2> QED BY <2>1, <2>2
<1>4. ASSUME NEW i \in 1 .. Len(ww) PROVE ww[i] = m[k + i]
  <2>1. CASE i <= Len(w)
    BY <1>1, <1>2, <2>1 DEF LeftOver
  <2>2. CASE i = Len(w) + 1
    <3>1. u[1] = m[k + (Len(w) + 1)]
      BY <1>1 DEF LeftOver
    <3> QED BY <1>2, <2>2, <3>1
  <2> QED BY <1>1, <1>2, <2>1, <2>2
<1>5. ASSUME NEW i \in 1 .. Len(uu) PROVE uu[i] = m[k + (Len(ww) + i)]
  <2>1. i \in 1 .. Len(u) - 1 /\ i + 1 \in 1 .. Len(u) /\ Len(w) + (i + 1) = Len(ww) + i
    BY <1>1, <1>2
  <2>2. uu[i] = u[i + 1] /\ u[i + 1] = m[k + (Len(w) + (i + 1))]
    BY <1>2, <2>1 DEF LeftOver
  <2> QED BY <2>1, <2>2
<1>6. LeftOver(ww, uu, m, k)
  BY <1>3, <1>4, <1>5 DEF LeftOver
<1> QED BY <1>6 DEF ww, uu

LEMMA ReadLeft ==
  ASSUME NEW w \in Seq(Lines), NEW u \in Seq(Lines), w # <<>>, NEW m, NEW k \in Nat,
         LeftOver(w, u, m, k)
  PROVE  /\ Head(w) = m[k + 1] /\ k + 1 <= Len(m)
         /\ LeftOver(Tail(w), u, m, k + 1)
         /\ k + 1 = Len(m) => Tail(w) = <<>> /\ u = <<>>
<1> HIDE DEF Lines
<1> DEFINE ww == Tail(w)
<1>1. Len(w) \in Nat \ {0} /\ Len(u) \in Nat
  BY EmptySeq
<1>2. /\ ww \in Seq(Lines) /\ Len(ww) = Len(w) - 1 /\ Head(w) = w[1]
      /\ \A i \in 1 .. Len(w) - 1 : ww[i] = w[i + 1]
  BY <1>1
<1> HIDE DEF ww
<1>3. Head(w) = m[k + 1]
  BY <1>1, <1>2 DEF LeftOver
<1>4. (k + 1) + (Len(ww) + Len(u)) = Len(m)
  <2>1. k + (Len(w) + Len(u)) = Len(m)
    BY DEF LeftOver
  <2>2. (k + 1) + (Len(ww) + Len(u)) = k + (Len(w) + Len(u))
    BY <1>1, <1>2
  <2> QED BY <2>1, <2>2
<1>5. ASSUME NEW i \in 1 .. Len(ww) PROVE ww[i] = m[(k + 1) + i]
  <2>1. i \in 1 .. Len(w) - 1 /\ i + 1 \in 1 .. Len(w) /\ k + (i + 1) = (k + 1) + i
    BY <1>1, <1>2
  <2>2. ww[i] = w[i + 1] /\ w[i + 1] = m[k + (i + 1)]
    BY <1>2, <2>1 DEF LeftOver
  <2> QED BY <2>1, <2>2
<1>6. ASSUME NEW i \in 1 .. Len(u) PROVE u[i] = m[(k + 1) + (Len(ww) + i)]
  <2>1. k + (Len(w) + i) = (k + 1) + (Len(ww) + i)
    BY <1>1, <1>2
  <2>2. u[i] = m[k + (Len(w) + i)]
    BY DEF LeftOver
  <2> QED BY <2>1, <2>2
<1>7. LeftOver(ww, u, m, k + 1)
  BY <1>4, <1>5, <1>6 DEF LeftOver
<1>8. k + 1 <= Len(m) /\ (k + 1 = Len(m) => Len(ww) = 0 /\ Len(u) = 0)
  BY <1>1, <1>2, <1>4
<1>9. (Len(ww) = 0 => ww = <<>>) /\ (Len(u) = 0 => u = <<>>)
  BY <1>2, EmptySeq
<1> QED BY <1>3, <1>7, <1>8, <1>9 DEF ww

(* A client that a step does not touch is as it was.                       *)
Untouched(c) ==
  /\ state'[c] = state[c] /\ job'[c] = job[c] /\ unsent'[c] = unsent[c]
  /\ wire'[c] = wire[c] /\ reply'[c] = reply[c] /\ written'[c] = written[c]

LEMMA BystanderKept ==
  ASSUME NEW c, ClientOK(c), Untouched(c), UNCHANGED <<backlog, conn>>,
         c # conn \/ UNCHANGED <<at, cmd, prompt>>
  PROVE  ClientOK(c)'
<1>1. (HasEnd(c)' <=> HasEnd(c)) /\ (InBacklog(c)' <=> InBacklog(c))
  BY DEF Untouched, HasEnd, InBacklog
<1>2. (Fresh(c)' <=> Fresh(c)) /\ (Silent(c)' <=> Silent(c)) /\ (Streams(c)' <=> Streams(c))
  BY DEF Untouched, Fresh, Silent, Left, Streams
<1>3. UNCHANGED <<at, cmd, prompt>> => (Phase(c)' <=> Phase(c))
  BY <1>2 DEF Untouched, Phase, Reading, Asked, Spent, Left
<1> QED BY <1>1, <1>2, <1>3 DEF ClientOK, Untouched

LEMMA AnsweredKept ==
  ASSUME NEW c, Answered(c), job'[c] = job[c], written'[c] = written[c]
  PROVE  Answered(c)'
  BY DEF Answered, HasEnd

(* A client that sends, reads or is killed stays in its phase.             *)
LEMMA SendKept ==
  ASSUME UdsTypeOK, NEW c \in Clients, ClientOK(c), Send(c)
  PROVE  ClientOK(c)'
<1>1. /\ state[c] = "sending" /\ state'[c] \in {"sending", "waiting"} /\ unsent[c] # <<>>
      /\ wire'[c] = Append(wire[c], Head(unsent[c])) /\ unsent'[c] = Tail(unsent[c])
      /\ wire[c] \in Seq(Lines) /\ unsent[c] \in Seq(Lines)
      /\ UNCHANGED <<backlog, conn, at, cmd, prompt, job, reply, written>>
  BY DEF UdsTypeOK, ClientTypeOK, Send, serverVars
<1>2. ASSUME NEW k \in Nat, Left(c, k) PROVE Left(c, k)'
  BY <1>1, <1>2, SentLeft DEF Left
<1>3. Silent(c) => Silent(c)'
  BY <1>1 DEF Silent
<1>4. Fresh(c) => Fresh(c)'
  BY <1>2, <1>3 DEF Fresh
<1>5. Reading(c) => Reading(c)'
  <2>1. Len(prompt) \in Nat
    BY DEF UdsTypeOK, ServerTypeOK
  <2>2. Left(c, 1 + Len(prompt)) => Left(c, 1 + Len(prompt))'
    BY <1>1, <2>1, SentLeft DEF Left
  <2> QED BY <1>1, <1>3, <2>2 DEF Reading
<1>6. ~Spent(c) /\ ~Asked(c)
  BY <1>1 DEF Spent, Asked
<1>7. HasEnd(c)' = HasEnd(c) /\ InBacklog(c)' = InBacklog(c)
  BY <1>1 DEF HasEnd, InBacklog
<1>8. Phase(c) => Phase(c)'
  BY <1>1, <1>4, <1>5, <1>6 DEF Phase
<1> QED BY <1>1, <1>4, <1>7, <1>8 DEF ClientOK

LEMMA ReceiveKept ==
  ASSUME UdsTypeOK, NEW c \in Clients, ClientOK(c), ReceiveAnswer(c) \/ ReceiveStream(c)
  PROVE  ClientOK(c)'
<1>1. /\ state[c] = "waiting" /\ reply[c] # <<>> /\ reply'[c] = Tail(reply[c])
      /\ state'[c] \in {"waiting", "done"}
      /\ reply[c] \in Seq(Answers) /\ job[c] \in Jobs
      /\ UNCHANGED <<backlog, conn, at, cmd, prompt, job, unsent, wire, written>>
  BY DEF UdsTypeOK, ClientTypeOK, ReceiveAnswer, ReceiveStream, serverVars, clientVars
<1>2. ~Silent(c)
  BY <1>1 DEF Silent
<1>3. Asked(c) /\ Streams(c) => Asked(c)' /\ Streams(c)'
  <2> SUFFICES ASSUME Asked(c), Streams(c) PROVE Asked(c)' /\ Streams(c)'
    OBVIOUS
  <2>1. Head(reply[c]) = "TOKEN" /\ \A i \in 1 .. Len(Tail(reply[c])) : Tail(reply[c])[i] = "TOKEN"
    <3>1. Len(reply[c]) \in Nat \ {0}
      BY <1>1, EmptySeq
    <3>2. Head(reply[c]) = reply[c][1] /\ Len(Tail(reply[c])) = Len(reply[c]) - 1
      BY <1>1, <3>1
    <3>3. ASSUME NEW i \in 1 .. Len(Tail(reply[c])) PROVE Tail(reply[c])[i] = "TOKEN"
      <4>1. i + 1 \in 1 .. Len(reply[c]) /\ Tail(reply[c])[i] = reply[c][i + 1]
        BY <1>1, <3>1, <3>2
      <4> QED BY <4>1 DEF Streams
    <3>4. reply[c][1] = "TOKEN"
      BY <3>1 DEF Streams
    <3> QED BY <3>2, <3>3, <3>4
  <2>2. job[c].cmd \notin Simple
    BY <1>1, MessageIs DEF Asked
  <2>3. ReceiveStream(c)
    BY <2>2 DEF ReceiveAnswer
  <2>4. state'[c] = "waiting"
    BY <1>1, <2>1, <2>3 DEF ReceiveStream, UdsTypeOK, ClientTypeOK
  <2> QED BY <1>1, <2>1, <2>4 DEF Asked, Streams, Spent
<1>4. Spent(c)' = Spent(c) /\ HasEnd(c)' = HasEnd(c) /\ InBacklog(c)' = InBacklog(c)
  BY <1>1 DEF Spent, HasEnd, InBacklog
<1>5. Phase(c) => Phase(c)'
  BY <1>1, <1>2, <1>3, <1>4 DEF Phase, Fresh, Reading
<1> QED BY <1>1, <1>2, <1>4, <1>5 DEF ClientOK, Fresh

LEMMA LeaveKept ==
  ASSUME UdsTypeOK, NEW c \in Clients, ClientOK(c), Leave(c)
  PROVE  ClientOK(c)'
<1>1. /\ state[c] # "idle" /\ state'[c] = "gone"
      /\ UNCHANGED <<backlog, conn, at, cmd, prompt, job, unsent, wire, reply, written>>
  BY DEF UdsTypeOK, ClientTypeOK, Leave, serverVars
<1>2. (Silent(c) => Silent(c)') /\ (Streams(c) => Streams(c)')
  BY <1>1 DEF Silent, Streams
<1>3. (Fresh(c) => Fresh(c)') /\ (Reading(c) => Reading(c)') /\ (Asked(c) => Asked(c)')
  BY <1>1, <1>2 DEF Fresh, Reading, Asked, Left, Spent
<1>4. Spent(c)' = Spent(c) /\ HasEnd(c)' = HasEnd(c) /\ InBacklog(c)' = InBacklog(c)
  BY <1>1 DEF Spent, HasEnd, InBacklog
<1>5. Phase(c) => Phase(c)'
  BY <1>1, <1>2, <1>3, <1>4 DEF Phase
<1> QED BY <1>1, <1>3, <1>4, <1>5 DEF ClientOK

LEMMA ClientStepKept ==
  ASSUME UdsInv, NEW c \in Clients, ClientStep(c) \/ Leave(c)
  PROVE  UdsInv'
<1>1. UdsTypeOK /\ UdsTypeOK' /\ up /\ up'
  BY SendTyped, OtherClientStepsTyped
  DEF UdsInv, ClientStep, Send, ReceiveAnswer, ReceiveStream, Leave
<1>2. UNCHANGED <<backlog, conn, at, cmd, prompt, job, written>>
  BY DEF ClientStep, Send, ReceiveAnswer, ReceiveStream, Leave, serverVars
<1>3. OnceInBacklog'
  BY <1>1, <1>2 DEF UdsInv, OnceInBacklog
<1>4. ClientOK(c)'
  BY <1>1, SendKept, ReceiveKept, LeaveKept DEF UdsInv, ClientStep
<1>5. ASSUME NEW d \in Clients, d # c PROVE ClientOK(d)'
  <2>1. Untouched(d)
    BY <1>1, <1>5 DEF UdsTypeOK, ClientTypeOK, Untouched, ClientStep, Send, ReceiveAnswer,
                      ReceiveStream, Leave
  <2> QED BY <1>1, <1>2, <2>1, BystanderKept DEF UdsInv
<1>6. \A d \in Clients : Answered(d)'
  BY <1>2, AnsweredKept DEF UdsInv
<1> QED BY <1>1, <1>3, <1>4, <1>5, <1>6 DEF UdsInv

(* A client that connects is fresh, and last in the backlog.               *)
LEMMA ConnectKept == ASSUME UdsInv, NEW c \in Clients, Connect(c) PROVE UdsInv'
<1>1. UdsTypeOK /\ UdsTypeOK' /\ up /\ up' /\ ClientOK(c) /\ state[c] = "idle"
  BY ConnectTyped DEF UdsInv, Connect
<1>2. PICK j \in Jobs : job' = [job EXCEPT ![c] = j] /\ unsent' = [unsent EXCEPT ![c] = Message(j)]
  BY DEF Connect
<1>3. /\ c # conn /\ ~InBacklog(c) /\ wire[c] = <<>> /\ reply[c] = <<>> /\ written[c] = <<>>
      /\ backlog' = Append(backlog, c) /\ backlog \in Seq(Clients) /\ Len(backlog) \in Nat
      /\ UNCHANGED <<conn, at, cmd, prompt, wire, reply, written>>
      /\ job'[c] = j /\ unsent'[c] = Message(j) /\ state'[c] = "sending"
  BY <1>1, <1>2 DEF ClientOK, Connect, UdsTypeOK, ClientTypeOK, ServerTypeOK
<1>4. /\ Len(backlog') = Len(backlog) + 1 /\ backlog'[Len(backlog) + 1] = c
      /\ \A i \in 1 .. Len(backlog) : backlog'[i] = backlog[i]
  BY <1>3
<1>5. OnceInBacklog'
  BY <1>1, <1>3, <1>4 DEF UdsInv, OnceInBacklog, InBacklog
<1>6. ClientOK(c)'
  <2>1. LeftOver(<<>>, Message(j), Message(j), 0)
    <3>1. Message(j) \in Seq(Lines)
      BY MessageIs
    <3>2. Len(Message(j)) \in Nat /\ Len(<<>>) = 0
      BY <3>1, EmptySeq
    <3> QED BY <3>2 DEF LeftOver
  <2>2. Fresh(c)'
    BY <1>3, <2>1 DEF Fresh, Silent, Left
  <2> QED BY <1>3, <2>2 DEF ClientOK
<1>7. ASSUME NEW d \in Clients, d # c PROVE ClientOK(d)'
  <2>1. Untouched(d)
    BY <1>1, <1>2, <1>7 DEF UdsTypeOK, ClientTypeOK, Untouched, Connect
  <2>2. InBacklog(d)' <=> InBacklog(d)
    BY <1>3, <1>4, <1>7 DEF InBacklog
  <2>3. HasEnd(d)' = HasEnd(d) /\ Fresh(d)' = Fresh(d) /\ Phase(d)' = Phase(d)
    BY <1>3, <2>1 DEF Untouched, HasEnd, Fresh, Silent, Left, Phase, Reading, Asked, Spent, Streams
  <2> QED BY <1>1, <1>3, <2>1, <2>2, <2>3 DEF UdsInv, ClientOK, Untouched
<1>8. ASSUME NEW d \in Clients PROVE Answered(d)'
  <2>1. CASE d = c
    BY <1>3, <2>1, EmptySeq DEF Answered
  <2>2. CASE d # c
    <3>1. job'[d] = job[d] /\ written'[d] = written[d]
      BY <1>1, <1>2, <1>3, <2>2 DEF UdsTypeOK, ClientTypeOK
    <3> QED BY <3>1, AnsweredKept DEF UdsInv
  <2> QED BY <2>1, <2>2
<1> QED BY <1>1, <1>5, <1>6, <1>7, <1>8 DEF UdsInv

(* Once the daemon is down, nothing but the states of clients change.      *)
LEMMA EofKept == UdsInv /\ (ReceiveEof \/ UNCHANGED allVars) => UdsInv'
<1>1. CASE UdsInv /\ ReceiveEof
  <2>1. UdsTypeOK /\ UdsTypeOK' /\ ~up /\ ~up' /\ conn # Nobody /\ DownHasReason
    BY <1>1, EofTyped DEF UdsInv, ReceiveEof
  <2>2. \A c \in Clients : Answered(c)'
    BY <1>1, AnsweredKept DEF UdsInv, ReceiveEof
  <2>3. conn' # Nobody /\ DownHasReason'
    BY <1>1, <2>1 DEF ReceiveEof, serverVars, DownHasReason, HasEnd, Perilous, UdsTypeOK, ServerTypeOK
  <2> QED BY <2>1, <2>2, <2>3 DEF UdsInv
<1>2. CASE UdsInv /\ UNCHANGED allVars
  <2>1. UdsTypeOK'
    BY <1>2, EofTyped DEF UdsInv
  <2>2. UNCHANGED <<up, cpuReady, setup, backlog, conn, at, cmd, prompt, state, job, unsent, wire, reply, written>>
    BY <1>2 DEF allVars, udsVars
  <2>3. up' => OnceInBacklog' /\ \A c \in Clients : ClientOK(c)'
    BY <1>2, <2>2, BystanderKept DEF UdsInv, OnceInBacklog, Untouched
  <2>4. \A c \in Clients : Answered(c)'
    BY <1>2, <2>2, AnsweredKept DEF UdsInv
  <2>5. ~up' => conn' # Nobody /\ DownHasReason'
    BY <1>2, <2>2 DEF UdsInv, DownHasReason, HasEnd, Perilous
  <2> QED BY <2>1, <2>3, <2>4, <2>5 DEF UdsInv
<1> QED BY <1>1, <1>2

(* A step of the daemon that serves client c touches no other client.      *)
LEMMA ServedKept ==
  ASSUME UdsInv, up, UdsTypeOK', NEW c \in Clients, c = conn,
         UNCHANGED <<cpuReady, setup, backlog, conn, clientVars>>,
         \A d \in Clients : d # c =>
           wire'[d] = wire[d] /\ reply'[d] = reply[d] /\ written'[d] = written[d],
         ~HasEnd(c) =>
           /\ Answered(c)'
           /\ up' => Phase(c)'
           /\ ~up' => state[c] = "gone" \/ Perilous(job[c])
  PROVE  UdsInv'
<1>1. OnceInBacklog' /\ ClientOK(c) /\ HasEnd(c)' = HasEnd(c) /\ InBacklog(c)' = InBacklog(c)
  BY DEF UdsInv, OnceInBacklog, HasEnd, InBacklog, clientVars
<1>2. up' => ClientOK(c)'
  BY <1>1 DEF ClientOK, clientVars
<1>3. ASSUME NEW d \in Clients, d # c PROVE ClientOK(d)' /\ Answered(d)'
  <2>1. Untouched(d) /\ d # conn
    BY <1>3 DEF Untouched, clientVars
  <2>2. ClientOK(d)'
    BY <2>1, BystanderKept DEF UdsInv
  <2>3. Answered(d)'
    BY <2>1, AnsweredKept DEF UdsInv, Untouched
  <2> QED BY <2>2, <2>3
<1>4. Answered(c)'
  BY <1>1 DEF Answered
<1>5. ~up' => conn' # Nobody /\ DownHasReason'
  <2>1. conn' = c /\ c # Nobody
    BY ClientsAreSomebody
  <2>2. HasEnd(conn)' = HasEnd(c)'
    BY <2>1 DEF HasEnd
  <2> QED BY <1>1, <2>1, <2>2 DEF DownHasReason, Perilous, clientVars
<1> QED BY <1>1, <1>2, <1>3, <1>4, <1>5 DEF UdsInv

(* One more line for a client that has had only tokens.                    *)
LEMMA WriteAnswers ==
  ASSUME UdsTypeOK, NEW c \in Clients, c = conn, ~HasLeft(c), UNCHANGED job,
         NEW line \in Answers, NEW next, Write(<<line>>, next),
         \A i \in 1 .. Len(written[c]) : written[c][i] = "TOKEN",
         job[c].cmd \in Streaming \/ (written[c] = <<>> /\ line # "TOKEN")
  PROVE  /\ Answered(c)' /\ up' = up
         /\ line = "TOKEN" => \A i \in 1 .. Len(written'[c]) : written'[c][i] = "TOKEN"
         /\ line = "TOKEN" /\ (\A i \in 1 .. Len(reply[c]) : reply[c][i] = "TOKEN")
              => \A i \in 1 .. Len(reply'[c]) : reply'[c][i] = "TOKEN"
<1> DEFINE w == written[c]
           r == reply[c]
<1>1. /\ written'[c] = w \o <<line>> /\ reply'[c] = r \o <<line>> /\ up' = up
      /\ w \in Seq(Answers) /\ r \in Seq(Answers)
  BY DEF Write, UdsTypeOK, ClientTypeOK
<1> HIDE DEF w, r, Answers
<1>2. /\ Len(w) \in Nat /\ Len(w \o <<line>>) = Len(w) + 1 /\ (w \o <<line>>)[Len(w) + 1] = line
      /\ \A i \in 1 .. Len(w) : (w \o <<line>>)[i] = w[i]
      /\ Len(r) \in Nat /\ Len(r \o <<line>>) = Len(r) + 1 /\ (r \o <<line>>)[Len(r) + 1] = line
      /\ \A i \in 1 .. Len(r) : (r \o <<line>>)[i] = r[i]
  BY <1>1
<1>3. \A i \in 1 .. Len(w) : w[i] = "TOKEN"
  BY DEF w
<1>4. ASSUME NEW i \in 1 .. Len(written'[c])
      PROVE  /\ i < Len(written'[c]) => written'[c][i] = "TOKEN"
             /\ line = "TOKEN" => written'[c][i] = "TOKEN"
             /\ i = Len(written'[c]) => written'[c][i] = line
  BY <1>1, <1>2, <1>3
<1>5. ASSUME NEW i \in 1 .. Len(written'[c]), written'[c][i] = "TOKEN"
      PROVE  job'[c].cmd \in Streaming
  <2>1. CASE job[c].cmd \in Streaming
    BY <2>1
  <2>2. CASE w = <<>> /\ line # "TOKEN"
    <3>1. Len(w) = 0
      BY <2>2
    <3>2. i = Len(written'[c])
      BY <1>1, <1>2, <3>1
    <3> QED BY <1>4, <1>5, <2>2, <3>2
  <2> QED BY <2>1, <2>2 DEF w
<1>6. line = "TOKEN" /\ (\A i \in 1 .. Len(r) : r[i] = "TOKEN")
        => \A i \in 1 .. Len(reply'[c]) : reply'[c][i] = "TOKEN"
  BY <1>1, <1>2
<1>7. Answered(c)'
  BY <1>4, <1>5 DEF Answered
<1> QED BY <1>1, <1>4, <1>6, <1>7 DEF r

(* What is read of a fresh client is its command; a simple one is all.     *)
LEMMA CommandRead ==
  ASSUME UdsTypeOK, NEW c \in Clients, c = conn, Phase(c), at = "command", NEW line, Reads(line)
  PROVE  /\ Fresh(c) /\ line = job[c].cmd /\ line \in Simple \cup Streaming
         /\ wire'[c] = Tail(wire[c])
         /\ LeftOver(wire'[c], unsent[c], Message(job[c]), 1)
         /\ line \in Simple => wire'[c] = <<>> /\ unsent[c] = <<>>
<1>1. /\ wire[c] # <<>> /\ line = Head(wire[c]) /\ wire'[c] = Tail(wire[c])
      /\ wire[c] \in Seq(Lines) /\ unsent[c] \in Seq(Lines) /\ job[c] \in Jobs
  BY DEF Reads, UdsTypeOK, ClientTypeOK
<1>2. Fresh(c)
  BY <1>1 DEF Phase, Spent
<1>3. /\ line = Message(job[c])[0 + 1]
      /\ LeftOver(Tail(wire[c]), unsent[c], Message(job[c]), 0 + 1)
      /\ 0 + 1 = Len(Message(job[c])) => Tail(wire[c]) = <<>> /\ unsent[c] = <<>>
  <2>1. LeftOver(wire[c], unsent[c], Message(job[c]), 0)
    BY <1>2 DEF Fresh, Left
  <2>2. 0 \in Nat
    OBVIOUS
  <2>3. ASSUME NEW k \in Nat, LeftOver(wire[c], unsent[c], Message(job[c]), k)
        PROVE  /\ Head(wire[c]) = Message(job[c])[k + 1]
               /\ LeftOver(Tail(wire[c]), unsent[c], Message(job[c]), k + 1)
               /\ k + 1 = Len(Message(job[c])) => Tail(wire[c]) = <<>> /\ unsent[c] = <<>>
    BY <1>1, <2>3, ReadLeft
  <2> QED BY <1>1, <2>1, <2>2, <2>3, Zenon
<1>4. /\ Message(job[c])[1] = job[c].cmd /\ job[c].cmd \in Simple \cup Streaming
      /\ job[c].cmd \in Simple => Len(Message(job[c])) = 1
  BY <1>1, MessageIs
<1>5. 0 + 1 = 1
  OBVIOUS
<1> QED BY <1>1, <1>2, <1>3, <1>4, <1>5

(* The simple commands: one answer, or the end of the daemon.              *)
LEMMA AnswerKept ==
  ASSUME UdsInv, up, UdsTypeOK', at = "command", NEW line \in Simple, Reads(line),
         UNCHANGED <<cpuReady, setup, backlog, conn, cmd, prompt, clientVars>>,
         \/ \E answer \in {"OK", "ERROR", "HELLO"} : Write(<<answer>>, "command")
         \/ line \in Unguarded /\ ~cpuReady /\ ~up' /\ UNCHANGED <<at, reply, written>>
  PROVE  UdsInv'
<1>0. UdsTypeOK /\ conn \in Clients
  BY DEF UdsInv, UdsTypeOK, ServerTypeOK
<1> PICK c \in Clients : c = conn
  BY <1>0
<1>1. \A d \in Clients : d # c =>
        wire'[d] = wire[d] /\ reply'[d] = reply[d] /\ written'[d] = written[d]
  BY <1>0 DEF Reads, Write, UdsTypeOK, ClientTypeOK
<1>2. ASSUME ~HasEnd(c)
      PROVE  /\ Answered(c)'
             /\ up' => Phase(c)'
             /\ ~up' => state[c] = "gone" \/ Perilous(job[c])
  <2>1. Phase(c) /\ Answered(c)
    BY <1>2 DEF UdsInv, ClientOK
  <2>2. Fresh(c) /\ line = job[c].cmd /\ wire'[c] = <<>> /\ unsent[c] = <<>>
    BY <1>0, <2>1, CommandRead
  <2>3. Spent(c)' /\ (at' = "command" => Phase(c)')
    BY <2>2 DEF Spent, Phase, clientVars
  <2>4. CASE line \in Unguarded /\ ~cpuReady /\ ~up' /\ UNCHANGED <<at, reply, written>>
    <3>1. Answered(c)'
      BY <2>1, <2>4, AnsweredKept DEF clientVars
    <3> QED BY <2>2, <2>4, <3>1 DEF Perilous
  <2>5. CASE \E answer \in {"OK", "ERROR", "HELLO"} : Write(<<answer>>, "command")
    <3>1. PICK answer \in {"OK", "ERROR", "HELLO"} : Write(<<answer>>, "command")
      BY <2>5
    <3>2. answer \in Answers /\ answer # "TOKEN"
      BY DEF Answers
    <3>3. CASE HasLeft(c)
      <4>1. ~up' /\ UNCHANGED written
        BY <3>1, <3>3 DEF Write
      <4>2. state[c] = "gone"
        BY <2>2, <3>3 DEF Fresh, Silent, HasLeft
      <4>3. Answered(c)'
        BY <2>1, <4>1, AnsweredKept DEF clientVars
      <4> QED BY <4>1, <4>2, <4>3
    <3>4. CASE ~HasLeft(c)
      <4>1. written[c] = <<>> /\ \A i \in 1 .. Len(written[c]) : written[c][i] = "TOKEN"
        BY <2>2, EmptySeq DEF Fresh, Silent
      <4>2. Answered(c)' /\ up' = up
        BY <1>0, <3>1, <3>2, <3>4, <4>1, WriteAnswers DEF clientVars
      <4>3. at' = "command"
        BY <3>1 DEF Write
      <4> QED BY <2>3, <4>2, <4>3
    <3> QED BY <3>3, <3>4
  <2> QED BY <2>4, <2>5
<1> QED BY <1>1, <1>2, ServedKept

LEMMA CommandsKept ==
  ASSUME UdsInv, NEW line \in Lines, SessionCommand(line) \/ NpuLoad(line) \/ Hello(line)
  PROVE  UdsInv'
<1>1. UdsTypeOK'
  BY ServesTyped DEF UdsInv, Serves
<1>2. /\ up /\ at = "command" /\ line \in Simple /\ Reads(line)
      /\ UNCHANGED <<cpuReady, setup, backlog, conn, cmd, prompt, clientVars>>
  BY DEF SessionCommand, NpuLoad, Hello, Unguarded, Simple
<1>3. \/ \E answer \in {"OK", "ERROR", "HELLO"} : Write(<<answer>>, "command")
      \/ line \in Unguarded /\ ~cpuReady /\ ~up' /\ UNCHANGED <<at, reply, written>>
  BY DEF SessionCommand, NpuLoad, Hello
<1> QED BY <1>1, <1>2, <1>3, AnswerKept

(* Reading: a command that is none, one that streams, and its prompt.      *)
LEMMA ReadingKept ==
  ASSUME UdsInv, NEW line \in Lines, NoCommand(line) \/ StreamCommand(line) \/ ReadPrompt(line)
  PROVE  UdsInv'
<1>0. UdsTypeOK /\ conn \in Clients /\ UdsTypeOK' /\ up /\ up' = up
  BY ServesTyped
  DEF UdsInv, UdsTypeOK, ServerTypeOK, Serves, NoCommand, StreamCommand, ReadPrompt
<1> PICK c \in Clients : c = conn
  BY <1>0
<1>1. UNCHANGED <<cpuReady, setup, backlog, conn, clientVars, reply, written>>
  BY DEF NoCommand, StreamCommand, ReadPrompt
<1>2. /\ Reads(line) \/ UNCHANGED wire
      /\ \A d \in Clients : d # c =>
        wire'[d] = wire[d] /\ reply'[d] = reply[d] /\ written'[d] = written[d]
  BY <1>0, <1>1 DEF NoCommand, StreamCommand, ReadPrompt, PromptEnds, Reads, UdsTypeOK, ClientTypeOK
<1>3. ASSUME ~HasEnd(c) PROVE Answered(c)' /\ Phase(c)'
  <2>1. Phase(c) /\ Answered(c) /\ job[c] \in Jobs
    BY <1>0, <1>3 DEF UdsInv, ClientOK, UdsTypeOK, ClientTypeOK
  <2>2. Answered(c)'
    BY <1>1, <2>1, AnsweredKept DEF clientVars
  <2>3. Silent(c)' = Silent(c)
    BY <1>1 DEF Silent, clientVars
  <2>4. CASE NoCommand(line)
    <3>1. line \in Simple \cup Streaming
      BY <1>0, <2>1, <2>4, CommandRead DEF NoCommand
    <3> QED BY <2>4, <3>1 DEF NoCommand, Simple, Streaming
  <2>5. CASE StreamCommand(line)
    <3>1. /\ Fresh(c) /\ line = job[c].cmd
          /\ LeftOver(wire'[c], unsent[c], Message(job[c]), 1)
      BY <1>0, <2>1, <2>5, CommandRead DEF StreamCommand
    <3>2. prompt' = <<>> /\ Len(prompt') = 0 /\ cmd' = line /\ line \in Streaming /\ at' = "prompt"
      BY <2>5 DEF StreamCommand
    <3>3. 1 + Len(prompt') = 1
      BY <3>2
    <3>4. Left(c, 1 + Len(prompt))'
      BY <1>1, <3>1, <3>3 DEF Left, clientVars
    <3>5. Reading(c)'
      BY <1>1, <2>3, <3>1, <3>2, <3>4 DEF Reading, Fresh, clientVars
    <3> QED BY <2>2, <3>2, <3>5 DEF Phase
  <2>6. CASE ReadPrompt(line)
    <3> DEFINE m == Message(job[c])
               n == Len(prompt)
               p == job[c].prompt
    <3>1. /\ Reading(c) /\ cmd' = cmd /\ prompt \in Seq(Lines) /\ n \in Nat
          /\ wire[c] \in Seq(Lines) /\ unsent[c] \in Seq(Lines)
      BY <1>0, <2>1, <2>6 DEF ReadPrompt, Phase, UdsTypeOK, ServerTypeOK, ClientTypeOK
    <3>2. /\ p \in Seq(Lines) /\ Len(p) \in Nat /\ Len(m) = Len(p) + 2
          /\ \A i \in 1 .. Len(p) : m[1 + i] = p[i] /\ p[i] # "END"
          /\ m[Len(p) + 2] = "END"
      <4>1. job[c].cmd \in Streaming
        BY <3>1 DEF Reading
      <4>2. \A i \in 1 .. Len(p) : p[i] # "END"
        <5>1. p \in Seq(Lines)
          BY <2>1, MessageIs
        <5> QED BY <1>3, <5>1 DEF HasEnd
      <4> QED BY <2>1, <4>1, <4>2, MessageIs
    <3>3. /\ Left(c, 1 + n) /\ LeftOver(wire[c], unsent[c], m, 1 + n)
          /\ \A i \in 1 .. n : prompt[i] = m[1 + i] /\ prompt[i] # "END"
      BY <3>1 DEF Reading, Left
    <3> HIDE DEF m, n, p
    <3>4. n <= Len(p)
      <4>1. (1 + n) + (Len(wire[c]) + Len(unsent[c])) = Len(m)
        BY <3>3 DEF LeftOver
      <4>2. Len(wire[c]) \in Nat /\ Len(unsent[c]) \in Nat
        BY <3>1, LenProperties, Zenon
      <4>3. n <= Len(p) + 1
        <5> DEFINE k == Len(wire[c])
                   l == Len(unsent[c])
                   q == Len(p)
        <5>1. k \in Nat /\ l \in Nat /\ q \in Nat /\ (1 + n) + (k + l) = q + 2
          BY <3>2, <4>1, <4>2
        <5> HIDE DEF k, l, q
        <5>2. n <= q + 1
          BY <3>1, <5>1
        <5> QED BY <5>2 DEF q
      <4>4. n # Len(p) + 1
        <5> SUFFICES ASSUME n = Len(p) + 1 PROVE FALSE
          OBVIOUS
        <5>1. n \in 1 .. n /\ 1 + n = Len(p) + 2
          BY <3>1, <3>2
        <5> QED BY <3>2, <3>3, <5>1
      <4> QED BY <3>1, <3>2, <4>3, <4>4
    <3>5. ASSUME Reads(line)
          PROVE  /\ line = m[(1 + n) + 1] /\ wire'[c] = Tail(wire[c])
                 /\ LeftOver(Tail(wire[c]), unsent[c], m, (1 + n) + 1)
                 /\ (1 + n) + 1 = Len(m) => Tail(wire[c]) = <<>> /\ unsent[c] = <<>>
      <4>1. wire[c] # <<>> /\ line = Head(wire[c]) /\ wire'[c] = Tail(wire[c])
        BY <1>0, <3>5 DEF Reads, UdsTypeOK, ClientTypeOK
      <4>2. 1 + n \in Nat
        BY <3>1
      <4> QED BY <3>1, <3>3, <4>1, <4>2, ReadLeft
    <3>6. CASE line # "END" /\ Reads(line) /\ prompt' = Append(prompt, line) /\ UNCHANGED at
      <4>1. /\ Len(prompt') = n + 1 /\ prompt'[n + 1] = line
            /\ \A i \in 1 .. n : prompt'[i] = prompt[i]
        BY <3>1, <3>6 DEF n
      <4>2. 1 + Len(prompt') = (1 + n) + 1 /\ 1 + (n + 1) = (1 + n) + 1
        BY <3>1, <4>1
      <4>3. Left(c, 1 + Len(prompt))'
        BY <1>1, <3>5, <3>6, <4>2 DEF Left, clientVars, m
      <4>4. \A i \in 1 .. Len(prompt') : prompt'[i] = m[1 + i] /\ prompt'[i] # "END"
        <5> SUFFICES ASSUME NEW i \in 1 .. n + 1
                     PROVE  prompt'[i] = m[1 + i] /\ prompt'[i] # "END"
          BY <4>1
        <5>1. CASE i = n + 1
          BY <3>5, <3>6, <4>1, <4>2, <5>1
        <5>2. CASE i # n + 1
          <6>1. i \in 1 .. n
            BY <3>1, <5>2
          <6> QED BY <3>3, <4>1, <6>1
        <5> QED BY <5>1, <5>2
      <4>5. Reading(c)'
        BY <1>1, <2>3, <3>1, <4>3, <4>4 DEF Reading, clientVars, m
      <4> QED BY <2>2, <2>6, <3>6, <4>5 DEF Phase, ReadPrompt
    <3>7. CASE PromptEnds(line) /\ at' = EngineFor(cmd) /\ UNCHANGED prompt
      <4>1. Asked(c)'
        <5>1. CASE line = "END" /\ Reads(line)
          <6>1. n = Len(p)
            <7>1. CASE n < Len(p)
              <8>1. n + 1 \in 1 .. Len(p) /\ 1 + (n + 1) = (1 + n) + 1
                BY <3>1, <3>2, <7>1
              <8>2. m[1 + (n + 1)] # "END"
                BY <3>2, <8>1
              <8> QED BY <3>5, <5>1, <8>1, <8>2
            <7> QED BY <3>1, <3>2, <3>4, <7>1
          <6>2. (1 + n) + 1 = Len(m)
            BY <3>1, <3>2, <6>1
          <6>3. wire'[c] = <<>> /\ unsent[c] = <<>>
            BY <3>5, <5>1, <6>2
          <6>4. \A i \in 1 .. n : prompt[i] = p[i]
            BY <3>2, <3>3, <6>1
          <6>5. prompt = p
            BY <3>1, <3>2, <6>1, <6>4 DEF n
          <6> QED BY <1>1, <3>1, <3>7, <6>3, <6>5 DEF Asked, Reading, Spent, clientVars, p
        <5>2. CASE line = "END" /\ AtEof /\ UNCHANGED wire
          <6>1. wire[c] = <<>> /\ state[c] = "gone"
            BY <3>1, <5>2 DEF AtEof, HasLeft, Reading, Silent
          <6>2. unsent[c] # <<>>
            <7> SUFFICES ASSUME unsent[c] = <<>> PROVE FALSE
              OBVIOUS
            <7>1. Len(wire[c]) = 0 /\ Len(unsent[c]) = 0
              BY <6>1, EmptySeq
            <7>2. (1 + n) + (Len(wire[c]) + Len(unsent[c])) = Len(m)
              BY <3>3 DEF LeftOver
            <7> QED BY <3>1, <3>2, <3>4, <7>1, <7>2
          <6> QED BY <1>1, <3>1, <3>7, <5>2, <6>1, <6>2 DEF Asked, Reading, clientVars
        <5> QED BY <3>7, <5>1, <5>2 DEF PromptEnds
      <4>2. at' \in {"INFER", "NPU_INFER"}
        BY <3>7 DEF EngineFor
      <4> QED BY <2>2, <2>3, <3>1, <4>1, <4>2 DEF Phase, Reading
    <3> QED BY <2>6, <3>6, <3>7 DEF ReadPrompt, Collected
  <2> QED BY <2>4, <2>5, <2>6
<1> QED BY <1>0, <1>1, <1>2, <1>3, ServedKept

(* Serving a question: refused, or tokens and the line that ends them.     *)
LEMMA RunsKept == UdsInv /\ (NotReady \/ Infer \/ NpuInfer) => UdsInv'
<1> SUFFICES ASSUME UdsInv, NotReady \/ Infer \/ NpuInfer PROVE UdsInv'
  OBVIOUS
<1>0. /\ UdsTypeOK /\ UdsTypeOK' /\ conn \in Clients /\ up
      /\ at \in {"INFER", "CPU_LOOP", "NPU_INFER", "NPU_LOOP"}
      /\ UNCHANGED <<cpuReady, setup, backlog, conn, cmd, prompt, clientVars, wire>>
  BY RunsTyped DEF UdsInv, UdsTypeOK, ServerTypeOK, NotReady, Infer, NpuInfer,
                   InferDies, NpuInferDies
<1> PICK c \in Clients : c = conn
  BY <1>0
<1>1. \/ \E answer \in {"ERROR", "DONE"} : Write(<<answer>>, "command")
      \/ at \in {"CPU_LOOP", "NPU_LOOP"} /\ Write(<<"TOKEN">>, at)
      \/ /\ at \in {"INFER", "NPU_INFER"} /\ at' \in {"CPU_LOOP", "NPU_LOOP"}
         /\ UNCHANGED <<up, reply, written>>
      \/ Dies /\ (InferDies \/ NpuInferDies)
  BY DEF NotReady, Infer, NpuInfer
<1>2. \A d \in Clients : d # c =>
        wire'[d] = wire[d] /\ reply'[d] = reply[d] /\ written'[d] = written[d]
  BY <1>0, <1>1 DEF Write, Dies, UdsTypeOK, ClientTypeOK
<1>3. ASSUME ~HasEnd(c)
      PROVE  /\ Answered(c)'
             /\ up' => Phase(c)'
             /\ ~up' => state[c] = "gone" \/ Perilous(job[c])
  <2>1. /\ Asked(c) /\ Streams(c) /\ Answered(c) /\ job[c].cmd \in Streaming
        /\ \A i \in 1 .. Len(written[c]) : written[c][i] = "TOKEN"
    <3>1. Silent(c) => Streams(c)
      BY EmptySeq DEF Silent, Streams
    <3> QED BY <1>0, <1>3, <3>1 DEF UdsInv, ClientOK, Phase, Asked, Streams
  <2>2. Asked(c)' /\ state'[c] = state[c]
    BY <1>0, <2>1 DEF Asked, Spent, clientVars
  <2>3. CASE /\ at \in {"INFER", "NPU_INFER"} /\ at' \in {"CPU_LOOP", "NPU_LOOP"}
             /\ UNCHANGED <<up, reply, written>>
    <3>1. Answered(c)' /\ Streams(c)'
      BY <1>0, <2>1, <2>3, AnsweredKept DEF Streams, clientVars
    <3> QED BY <1>0, <2>2, <2>3, <3>1 DEF Phase
  <2>4. CASE HasLeft(c) /\ \E answer, next : Write(<<answer>>, next)
    <3>1. ~up' /\ UNCHANGED <<reply, written>>
      BY <2>4 DEF Write
    <3>2. state[c] = "gone"
      BY <2>1, <2>4 DEF Streams, HasLeft
    <3>3. Answered(c)'
      BY <1>0, <2>1, <3>1, AnsweredKept DEF clientVars
    <3> QED BY <3>1, <3>2, <3>3
  <2>5. CASE ~HasLeft(c) /\ \E answer \in {"ERROR", "DONE"} : Write(<<answer>>, "command")
    <3>1. PICK answer \in {"ERROR", "DONE"} : Write(<<answer>>, "command")
      BY <2>5
    <3>2. answer \in Answers
      BY DEF Answers
    <3>3. Answered(c)' /\ up' = up /\ at' = "command"
      BY <1>0, <2>1, <2>5, <3>1, <3>2, WriteAnswers DEF clientVars, Write
    <3>4. Spent(c)'
      BY <1>0, <2>1, <2>5 DEF Asked, HasLeft, Spent, clientVars
    <3> QED BY <1>0, <3>3, <3>4 DEF Phase
  <2>6. CASE ~HasLeft(c) /\ at \in {"CPU_LOOP", "NPU_LOOP"} /\ Write(<<"TOKEN">>, at)
    <3>1. "TOKEN" \in Answers
      BY DEF Answers
    <3>2. \A i \in 1 .. Len(reply[c]) : reply[c][i] = "TOKEN"
      BY <2>1 DEF Streams
    <3>3. UNCHANGED job
      BY <1>0 DEF clientVars
    <3>4. /\ Answered(c)' /\ up' = up /\ at' = at
          /\ \A i \in 1 .. Len(written'[c]) : written'[c][i] = "TOKEN"
          /\ \A i \in 1 .. Len(reply'[c]) : reply'[c][i] = "TOKEN"
      BY <1>0, <2>1, <2>6, <3>1, <3>2, <3>3, WriteAnswers DEF Write
    <3>5. Streams(c)'
      BY <2>1, <2>2, <3>4 DEF Streams
    <3> QED BY <1>0, <2>2, <2>6, <3>4, <3>5 DEF Phase
  <2>7. CASE Dies /\ (InferDies \/ NpuInferDies)
    <3>1. ~up' /\ Answered(c)'
      BY <1>0, <2>1, <2>7, AnsweredKept DEF Dies, clientVars
    <3>2. CASE unsent[c] # <<>> /\ state[c] = "gone"
      BY <3>1, <3>2
    <3>3. CASE prompt = job[c].prompt
      <4>1. /\ at \in {"INFER", "CPU_LOOP"} => cmd \in Streaming \ {"NPU_INFER"}
            /\ at \in {"NPU_INFER", "NPU_LOOP"} => cmd = "NPU_INFER"
            /\ at = "CPU_LOOP" => cpuReady
            /\ cmd = job[c].cmd /\ cmd \in Streaming
        BY <1>0, <2>1 DEF UdsTypeOK, ServerTypeOK, Asked
      <4>2. Perilous(job[c])
        BY <2>7, <3>3, <4>1 DEF InferDies, NpuInferDies, Perilous, Streaming
      <4> QED BY <3>1, <4>2
    <3> QED BY <2>1, <3>2, <3>3 DEF Asked
  <2> QED BY <1>1, <2>3, <2>4, <2>5, <2>6, <2>7
<1> QED BY <1>0, <1>2, <1>3, ServedKept

(* A connection taken up is fresh; one that is closed is forgotten.        *)
LEMMA ForgottenIsOK ==
  ASSUME UdsTypeOK, NEW c \in Clients, Forget(c)
  PROVE  /\ state'[c] = "done" /\ Answered(c)'
         /\ \A d \in Clients : d # c => Untouched(d)
<1>1. written'[c] = <<>> /\ state'[c] = "done"
  BY DEF UdsTypeOK, ClientTypeOK, Forget
<1>2. Answered(c)'
  BY <1>1, EmptySeq DEF Answered
<1>3. \A d \in Clients : d # c => Untouched(d)
  BY DEF UdsTypeOK, ClientTypeOK, Forget, Untouched
<1> QED BY <1>1, <1>2, <1>3

LEMMA AcceptKept == UdsInv /\ Accept => UdsInv'
<1> SUFFICES ASSUME UdsInv, Accept PROVE UdsInv'
  OBVIOUS
<1>0. /\ UdsTypeOK /\ UdsTypeOK' /\ up /\ up' /\ OnceInBacklog
      /\ \A d \in Clients : ClientOK(d) /\ Answered(d)
      /\ backlog \in Seq(Clients) /\ backlog # <<>> /\ backlog' = Tail(backlog) /\ conn = Nobody
  BY AcceptTyped DEF UdsInv, Accept, UdsTypeOK, ServerTypeOK
<1>1. /\ Len(backlog) \in Nat \ {0} /\ Head(backlog) \in Clients /\ Head(backlog) = backlog[1]
      /\ Len(backlog') = Len(backlog) - 1
      /\ \A i \in 1 .. Len(backlog) - 1 : backlog'[i] = backlog[i + 1]
  <2>1. Len(backlog) \in Nat \ {0}
    BY <1>0, EmptySeq
  <2> QED BY <1>0, <2>1
<1> PICK c \in Clients : c = Head(backlog)
  BY <1>1
<1>2. OnceInBacklog'
  <2> SUFFICES ASSUME NEW i \in 1 .. Len(backlog) - 1, NEW j \in 1 .. Len(backlog) - 1,
                      backlog'[i] = backlog'[j]
               PROVE  i = j
    BY <1>1 DEF OnceInBacklog
  <2>1. backlog[i + 1] = backlog[j + 1] /\ i + 1 \in 1 .. Len(backlog) /\ j + 1 \in 1 .. Len(backlog)
    BY <1>1
  <2>2. i + 1 = j + 1
    BY <1>0, <2>1 DEF OnceInBacklog
  <2> QED BY <2>2
<1>3. InBacklog(c) /\ ~InBacklog(c)'
  <2>1. InBacklog(c)
    BY <1>1 DEF InBacklog
  <2>2. ASSUME NEW i \in 1 .. Len(backlog) - 1, backlog'[i] = c PROVE FALSE
    <3>1. backlog[i + 1] = backlog[1] /\ i + 1 \in 1 .. Len(backlog) /\ 1 \in 1 .. Len(backlog)
      BY <1>1, <2>2
    <3>2. i + 1 = 1
      BY <1>0, <3>1 DEF OnceInBacklog
    <3> QED BY <3>2
  <2> QED BY <1>1, <2>1, <2>2 DEF InBacklog
<1>4. ASSUME NEW d \in Clients, d # c, Untouched(d) PROVE ClientOK(d)' /\ Answered(d)'
  <2>1. InBacklog(d)' => InBacklog(d)
    <3> SUFFICES ASSUME NEW i \in 1 .. Len(backlog) - 1, backlog'[i] = d PROVE InBacklog(d)
      BY <1>1 DEF InBacklog
    <3>1. i + 1 \in 1 .. Len(backlog) /\ backlog[i + 1] = d
      BY <1>1
    <3> QED BY <3>1 DEF InBacklog
  <2>2. d # conn /\ d # conn'
    BY <1>0, <1>4, ClientsAreSomebody DEF Accept
  <2>3. Fresh(d)' = Fresh(d)
    BY <1>4 DEF Untouched, Fresh, Silent, Left
  <2>4. ClientOK(d)'
    BY <1>0, <1>4, <2>1, <2>2, <2>3 DEF ClientOK, Untouched
  <2>5. Answered(d)'
    BY <1>0, <1>4, AnsweredKept DEF Untouched
  <2> QED BY <2>4, <2>5
<1>5. CASE conn' = Head(backlog) /\ at' = "command" /\ UNCHANGED <<clientVars, wire, reply, written>>
  <2>1. \A d \in Clients : Untouched(d)
    BY <1>5 DEF Untouched, clientVars
  <2>2. Fresh(c) /\ state[c] # "idle"
    BY <1>0, <1>3 DEF ClientOK
  <2>3. Fresh(c)' /\ state'[c] # "idle"
    BY <2>1, <2>2 DEF Untouched, Fresh, Silent, Left
  <2>4. ClientOK(c)'
    BY <1>3, <1>5, <2>3 DEF ClientOK, Phase
  <2>5. Answered(c)'
    BY <1>0, <2>1, AnsweredKept DEF Untouched
  <2> QED BY <1>0, <1>2, <1>4, <2>1, <2>4, <2>5 DEF UdsInv
<1>6. CASE Forget(Head(backlog)) /\ UNCHANGED <<conn, at>>
  <2>1. state'[c] = "done" /\ Answered(c)' /\ \A d \in Clients : d # c => Untouched(d)
    BY <1>0, <1>6, ForgottenIsOK
  <2>2. c # conn'
    BY <1>0, <1>6, ClientsAreSomebody
  <2>3. ClientOK(c)'
    BY <1>3, <2>1, <2>2 DEF ClientOK
  <2> QED BY <1>0, <1>2, <1>4, <2>1, <2>3 DEF UdsInv
<1> QED BY <1>5, <1>6 DEF Accept

LEMMA CloseKept == UdsInv /\ Close => UdsInv'
<1> SUFFICES ASSUME UdsInv, Close PROVE UdsInv'
  OBVIOUS
<1>0. /\ UdsTypeOK /\ UdsTypeOK' /\ up /\ up' /\ conn \in Clients
      /\ conn' = Nobody /\ backlog' = backlog
      /\ \A d \in Clients : ClientOK(d) /\ Answered(d)
  BY CloseTyped DEF UdsInv, Close, UdsTypeOK, ServerTypeOK
<1> PICK c \in Clients : c = conn
  BY <1>0
<1>1. state'[c] = "done" /\ Answered(c)' /\ \A d \in Clients : d # c => Untouched(d)
  BY <1>0, ForgottenIsOK DEF Close
<1>2. OnceInBacklog'
  BY <1>0 DEF UdsInv, OnceInBacklog
<1>3. ASSUME NEW d \in Clients PROVE ClientOK(d)' /\ Answered(d)'
  <2>1. d # conn' /\ InBacklog(d)' = InBacklog(d)
    BY <1>0, ClientsAreSomebody DEF InBacklog
  <2>2. CASE d = c
    <3>1. ~InBacklog(c)
      BY <1>0 DEF ClientOK
    <3> QED BY <1>1, <2>1, <2>2, <3>1 DEF ClientOK
  <2>3. CASE d # c
    <3>1. Fresh(d)' = Fresh(d)
      BY <1>1, <2>3 DEF Untouched, Fresh, Silent, Left
    <3>2. ClientOK(d)'
      BY <1>0, <1>1, <2>1, <2>3, <3>1 DEF ClientOK, Untouched
    <3>3. Answered(d)'
      BY <1>0, <1>1, <2>3, AnsweredKept DEF Untouched
    <3> QED BY <3>2, <3>3
  <2> QED BY <2>2, <2>3
<1> QED BY <1>0, <1>2, <1>3 DEF UdsInv

LEMMA UdsInvKept == UdsInv /\ [UdsNext]_allVars => UdsInv'
  BY ConnectKept, ClientStepKept, EofKept, AcceptKept, CommandsKept, ReadingKept, RunsKept, CloseKept
  DEF UdsNext, ServerStep, Quiet

LEMMA UdsInvStarts == UdsInit => UdsInv
<1> SUFFICES ASSUME UdsInit PROVE UdsInv
  OBVIOUS
<1>1. /\ backlog = <<>> /\ Len(backlog) = 0 /\ conn = Nobody /\ up = TRUE
      /\ \A c \in Clients : /\ state[c] = "idle" /\ wire[c] = <<>> /\ unsent[c] = <<>>
                            /\ reply[c] = <<>> /\ written[c] = <<>> /\ Len(written[c]) = 0
  BY EmptySeq DEF UdsInit
<1>2. UdsTypeOK
  <2>1. <<>> \in Seq(Clients) /\ <<>> \in Seq(Lines) /\ <<>> \in Seq(Answers)
    BY EmptySeq
  <2>2. NoJob \in Jobs
    BY DEF NoJob, Jobs, Simple
  <2>3. ServerTypeOK
    BY <2>1 DEF UdsInit, ServerTypeOK, Places, Simple
  <2> HIDE DEF NoJob
  <2>4. ClientTypeOK
    BY <2>1, <2>2 DEF UdsInit, ClientTypeOK
  <2> QED BY <2>3, <2>4 DEF UdsTypeOK
<1>3. OnceInBacklog
  BY <1>1 DEF OnceInBacklog
<1>4. ASSUME NEW c \in Clients PROVE ClientOK(c) /\ Answered(c)
  <2>1. c # conn /\ ~InBacklog(c)
    BY <1>1, ClientsAreSomebody DEF InBacklog
  <2> QED BY <1>1, <2>1 DEF ClientOK, Answered
<1> QED BY <1>1, <1>2, <1>3, <1>4 DEF UdsInv

LEMMA UdsInvHolds == UdsSpec => []UdsInv
  BY UdsInvStarts, UdsInvKept, PTL DEF UdsSpec

(* Whatever clients connect, send in pieces and die, the engine is asked   *)
(* exactly what the client being served asked.                             *)
THEOREM PromptsAreWhole == UdsSpec => []PromptIsWhole
<1>1. UdsInv => PromptIsWhole
  <2> SUFFICES ASSUME UdsInv, at \in {"INFER", "CPU_LOOP", "NPU_INFER", "NPU_LOOP"}, up
               PROVE  HasEnd(conn) \/ unsent[conn] # <<>>
                        \/ (prompt = job[conn].prompt /\ cmd = job[conn].cmd)
    BY DEF PromptIsWhole
  <2>1. conn \in Clients
    BY DEF UdsInv, UdsTypeOK, ServerTypeOK
  <2> QED BY <2>1 DEF UdsInv, ClientOK, Phase, Asked
<1> QED BY <1>1, UdsInvHolds, PTL

(* Every command of every client gets one final line and nothing after it. *)
THEOREM AnswersAreSingle == UdsSpec => []OneAnswer
<1>1. UdsInv => OneAnswer
  <2> SUFFICES ASSUME UdsInv, NEW c \in Clients, ~HasEnd(c), NEW i \in DOMAIN written[c]
               PROVE  /\ i < Len(written[c]) => written[c][i] = "TOKEN"
                      /\ written[c][i] = "TOKEN" => job[c].cmd \in Streaming
    BY DEF OneAnswer
  <2>1. DOMAIN written[c] = 1 .. Len(written[c])
    BY LenProperties DEF UdsInv, UdsTypeOK, ClientTypeOK
  <2> QED BY <2>1 DEF UdsInv, Answered
<1> QED BY <1>1, UdsInvHolds, PTL

(* The daemon goes down of a client that left, of what follows an END in a *)
(* prompt, or of a command that is perilous by itself, and of nothing else *)
(* in the order of connections, commands and loads (main.cpp, HandleClient *)
(* with the ends of infer at session_manager.cpp:100, llm_engine.cpp:84,   *)
(* 94 and 111).                                                            *)
THEOREM DownOnlyForAReason == UdsSpec => []DownHasReason
<1>1. UdsInv => DownHasReason
  BY DEF UdsInv, DownHasReason
<1> QED BY <1>1, UdsInvHolds, PTL

=============================================================================
