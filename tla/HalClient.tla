----------------------------- MODULE HalClient -----------------------------
(***************************************************************************)
(* The HAL service together with its clients, in the form of hal_test_cli  *)
(* infer (tools/hal_test_cli/main.cpp): one process per request, whose     *)
(* main thread calls inferStream and then waits for mDone, while a binder  *)
(* thread of the same process runs the callbacks.                          *)
(*                                                                         *)
(* The callbacks are one-way binder calls: per callback object they arrive *)
(* in order, after the sender has gone on.  What does not fit the buffer   *)
(* of the receiver, or has no receiver any more, is lost, and the service  *)
(* never looks at the status of the call (hal_service.cpp:77, 88, 91).     *)
(***************************************************************************)
EXTENDS HalService, Sequences

CONSTANTS
  Tools,        \* the requests of hal_test_cli; the others are those of a
                \* framework, whose own end is not modelled
  BinderBuffer  \* bound: callbacks under way to one client

ASSUME ClientAssumption == Tools \subseteq Requests /\ BinderBuffer \in Nat \ {0}

VARIABLES
  client,       \* request -> where the main thread of its client is
  chan,         \* request -> callbacks under way to its client
  mDone,        \* request -> TestCallback::mDone
  printed,      \* request -> tokens its client has printed
  lost          \* request -> kinds of callbacks that were lost (history)

clientVars == <<client, chan, mDone, printed, lost>>
allHalVars == <<halVars, clientVars>>

Alive(r) == client[r] \in {"calling", "waiting"}

HalClientInit ==
  /\ HalInit
  /\ client = [r \in Requests |-> IF r \in Tools THEN "calling" ELSE "framework"]
  /\ chan = [r \in Requests |-> <<>>]
  /\ mDone = [r \in Requests |-> FALSE]
  /\ printed = [r \in Requests |-> 0]
  /\ lost = [r \in Requests |-> {}]

(* callback->onToken, onComplete, onError: sent, or lost without a trace.  *)
Callback(r, kind) ==
  /\ CASE r \notin Tools -> UNCHANGED <<chan, lost>>
       [] r \in Tools /\ Alive(r) /\ Len(chan[r]) < BinderBuffer ->
            chan' = [chan EXCEPT ![r] = Append(@, kind)] /\ UNCHANGED lost
       [] OTHER -> lost' = [lost EXCEPT ![r] = @ \cup {kind}] /\ UNCHANGED chan
  /\ UNCHANGED <<client, mDone, printed>>

-----------------------------------------------------------------------------
(* The client process.                                                     *)

(* inferStream has returned: ret 0 makes the main thread wait for mDone.   *)
CallReturned(r) ==
  /\ client[r] = "calling" /\ ret[r] # "none"
  /\ client' = [client EXCEPT ![r] = IF ret[r] = "0" THEN "waiting" ELSE "exited"]
  /\ UNCHANGED <<halVars, chan, mDone, printed, lost>>

(* Mutant of Deliver: finish() only wakes a thread that already waits.     *)
DeliverNotifies(r) ==
  /\ Alive(r) /\ chan[r] # <<>>
  /\ chan' = [chan EXCEPT ![r] = Tail(@)]
  /\ IF Head(chan[r]) = "token"
     THEN printed' = [printed EXCEPT ![r] = @ + 1] /\ UNCHANGED mDone
     ELSE mDone' = [mDone EXCEPT ![r] = client[r] = "waiting"] /\ UNCHANGED printed
  /\ UNCHANGED <<halVars, client, lost>>

(* Mutant of Deliver: onToken calls finish() too.                          *)
DeliverFinishes(r) ==
  /\ Alive(r) /\ chan[r] # <<>>
  /\ chan' = [chan EXCEPT ![r] = Tail(@)]
  /\ mDone' = [mDone EXCEPT ![r] = TRUE]
  /\ printed' = [printed EXCEPT ![r] = IF Head(chan[r]) = "token" THEN @ + 1 ELSE @]
  /\ UNCHANGED <<halVars, client, lost>>

(* A callback arrives: onToken prints, the two others call finish().  It   *)
(* may come before inferStream has returned.                               *)
Deliver(r) ==
  /\ Alive(r) /\ chan[r] # <<>>
  /\ chan' = [chan EXCEPT ![r] = Tail(@)]
  /\ IF Head(chan[r]) = "token"
     THEN printed' = [printed EXCEPT ![r] = @ + 1] /\ UNCHANGED mDone
     ELSE mDone' = [mDone EXCEPT ![r] = TRUE] /\ UNCHANGED printed
  /\ UNCHANGED <<halVars, client, lost>>

(* wait() returns and main ends.                                           *)
WaitEnds(r) ==
  /\ client[r] = "waiting" /\ mDone[r]
  /\ client' = [client EXCEPT ![r] = "exited"]
  /\ UNCHANGED <<halVars, chan, mDone, printed, lost>>

(* The client is killed at any point; what was under way to it is lost.    *)
ClientDies(r) ==
  /\ Alive(r)
  /\ client' = [client EXCEPT ![r] = "dead"]
  /\ lost' = [lost EXCEPT ![r] = @ \cup {chan[r][i] : i \in DOMAIN chan[r]}]
  /\ chan' = [chan EXCEPT ![r] = <<>>]
  /\ UNCHANGED <<halVars, mDone, printed>>

ClientStep(r) == CallReturned(r) \/ Deliver(r) \/ WaitEnds(r)

-----------------------------------------------------------------------------
(* The detached thread with the callbacks it makes.                        *)
ServiceStep(r) ==
  \/ SendToken(r) /\ Callback(r, "token")
  \/ Answer(r) /\ Callback(r, IF req[r].ok THEN "complete" ELSE "error")
  \/ /\ \/ InferFails(r) \/ InferStarts(r) \/ LoopChecks(r)
        \/ EndOfGeneration(r) \/ EraseFlag(r)
     /\ UNCHANGED clientVars

(* The binder thread of the service that runs inferStream: a client that   *)
(* has died does not start a request.                                      *)
Begin(r)  == client[r] # "dead" /\ (Refuse(r) \/ Register(r)) /\ UNCHANGED clientVars
Binder(r) == BinderStep(r) /\ UNCHANGED clientVars

(* Every request that was begun is answered, and every client has ended or *)
(* waits for a callback that was lost.                                     *)
AllQuiet ==
  /\ \A r \in Requests :
       /\ req[r].pc \in {"none", "done"} /\ chan[r] = <<>>
       /\ ~Alive(r) \/ (client[r] = "waiting" /\ ~mDone[r])
  /\ UNCHANGED allHalVars

HalClientNext ==
  \/ \E r \in Requests :
       Begin(r) \/ Binder(r) \/ ServiceStep(r) \/ ClientStep(r) \/ ClientDies(r)
  \/ \E id \in SessionIds : Cancel(id) /\ UNCHANGED clientVars
  \/ AllQuiet

(* The threads of the service and those of a living client run on.         *)
HalClientSpec ==
  /\ HalClientInit /\ [][HalClientNext]_allHalVars
  /\ \A r \in Requests :
       /\ WF_allHalVars(Binder(r)) /\ WF_allHalVars(ServiceStep(r))
       /\ WF_allHalVars(ClientStep(r))

-----------------------------------------------------------------------------
(* Properties.                                                             *)

(* A client that ends after its last callback has printed every token that *)
(* was sent to it, unless the binder buffer lost one: the last callback    *)
(* neither overtakes a token nor ends the wait early (main.cpp:24-44).     *)
StreamArrives ==
  \A r \in Requests :
    client[r] = "exited" /\ ret[r] = "0" /\ "token" \notin lost[r]
      => printed[r] = sent[r].tokens

(* A waiting client stops waiting, whichever way its request ends and also *)
(* when its last callback arrives before inferStream returns, unless that  *)
(* callback itself was lost (main.cpp:39-52, hal_service.cpp:86-96).       *)
ClientFinishes ==
  \A r \in Tools :
    client[r] = "waiting" ~>
      client[r] # "waiting" \/ lost[r] \cap {"complete", "error"} # {}

=============================================================================
