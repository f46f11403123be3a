---------------------------- MODULE DaemonProofs ----------------------------
(***************************************************************************)
(* Proofs about Daemon, for every length of the backlog.                   *)
(***************************************************************************)
EXTENDS Daemon, TLAPS

(* No client has been accepted after the signal while the signal is still  *)
(* to come, or while main is in accept: main gets there only by a test of  *)
(* g_running, and that was before the signal.                              *)
StopInv ==
  /\ after \in {0, 1}
  /\ running \/ pc = "accept" => after = 0

(* A stop is seen at the next test of g_running, so that at most one more  *)
(* client is accepted, wherever in the loop the signal falls.              *)
THEOREM StopIsSeen == DaemonSpec => []AtMostOneMore
<1>1. DaemonInit => StopInv
  BY DEF DaemonInit, StopInv
<1>2. StopInv /\ [DaemonNext]_daemonVars => StopInv'
  <2> SUFFICES ASSUME StopInv, [DaemonNext]_daemonVars PROVE StopInv'
    OBVIOUS
  <2> USE DEF StopInv
  <2>1. CASE Load \/ Register \/ InstallHandlers \/ Listen
    BY <2>1 DEF Load, Register, InstallHandlers, Listen, Exit
  <2>2. CASE LoopTest
    BY <2>2 DEF LoopTest, Exit
  <2>3. CASE Accept
    BY <2>3 DEF Accept
  <2>4. CASE AcceptFails \/ ClientStep
    BY <2>4 DEF AcceptFails, ClientStep, Command, HangUp, Dies
  <2>5. CASE Destroy
    BY <2>5 DEF Destroy
  <2>6. CASE SignalHandler
    BY <2>6 DEF SignalHandler
  <2>7. CASE Arrive \/ HalRequest \/ Stopped \/ UNCHANGED daemonVars
    BY <2>7 DEF Arrive, HalRequest, Stopped, daemonVars
  <2> QED
    BY <2>1, <2>2, <2>3, <2>4, <2>5, <2>6, <2>7 DEF DaemonNext, MainStep
<1>3. StopInv => AtMostOneMore
  BY DEF StopInv, AtMostOneMore
<1> QED BY <1>1, <1>2, <1>3, PTL DEF DaemonSpec

=============================================================================
