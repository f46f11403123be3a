---------------------------- MODULE SessionStore ----------------------------
(***************************************************************************)
(* What the session manager promises its callers (session_manager.h:35-44):*)
(* a conversation per session id, here the number of its tokens, -1 for no *)
(* session.  HOT and COLD, contexts, files and limits do not show, except  *)
(* that the store may, while it makes room in a call, shorten              *)
(* conversations from their old end, down to kMinKeepTokens, or drop them. *)
(* A conversation grows between calls only, by what is recorded.           *)
(***************************************************************************)
EXTENDS Integers

CONSTANTS SessionIds, kMinKeepTokens

VARIABLES conv, busy    \* busy: activateForInfer or a change of a limit runs

storeVars == <<conv, busy>>

StoreInit == conv = [id \in SessionIds |-> -1] /\ busy = FALSE

Create(id) ==
  /\ ~busy /\ conv[id] = -1
  /\ conv' = [conv EXCEPT ![id] = 0] /\ UNCHANGED busy

Extend(id) ==
  /\ ~busy /\ conv[id] >= 0 /\ conv'[id] > conv[id]
  /\ conv' = [conv EXCEPT ![id] = conv'[id]] /\ UNCHANGED busy

MakesRoom == ~busy /\ busy' = TRUE /\ UNCHANGED conv

Prune(id) ==
  /\ busy /\ UNCHANGED busy
  /\ \E n \in kMinKeepTokens .. conv[id] - 1 : conv' = [conv EXCEPT ![id] = n]

(* A kill between calls, or an eviction.                                   *)
Drop(id) == conv[id] >= 0 /\ conv' = [conv EXCEPT ![id] = -1] /\ UNCHANGED busy

HasRoom == busy /\ busy' = FALSE /\ UNCHANGED conv

(* The process ends and starts again without any conversation.             *)
Forget == conv' = [id \in SessionIds |-> -1] /\ busy' = FALSE

StoreNext ==
  \/ \E id \in SessionIds : Create(id) \/ Extend(id) \/ Prune(id) \/ Drop(id)
  \/ MakesRoom \/ HasRoom \/ Forget

StoreSpec == StoreInit /\ [][StoreNext]_storeVars

=============================================================================
