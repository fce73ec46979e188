----------------------------- MODULE RestServer -----------------------------
(***************************************************************************)
(* The REST server, internal/rest_impl/serve.go: its sessions are the      *)
(* elements of a Vapor.  A session is abstracted to the stages of module   *)
(* RestSession; what this module adds to Vapor is what Initialize,         *)
(* Finalize and the f of EvictAfter do, and the two steps of Server.Close. *)
(*                                                                         *)
(* A "GetNew" is a request for a new process, a "Get" one of the other     *)
(* requests, and an "EvictAfter" is Server.Close.  NewID makes random      *)
(* UUIDs: no two sessions get the same id, and no call of it fails.        *)
(***************************************************************************)
EXTENDS Vapor

\* The Server of rest_impl calls nothing else of its Vapor.
ASSUME ServerCalls == Calls \subseteq {"GetNew", "Get", "EvictAfter"}

VARIABLES
  session,   \* the stage of the session each element holds
  cancelled  \* its context is cancelled

serverVars == <<vars, session, cancelled>>

ServerInit ==
  /\ Init
  /\ session = [e \in Elements |-> "init"]
  /\ cancelled = [e \in Elements |-> FALSE]

SessionsStay == UNCHANGED <<session, cancelled>>

CancelSession(e) ==
  /\ cancelled' = [cancelled EXCEPT ![e] = TRUE]
  /\ UNCHANGED session

Ended(e) == session[e] = "finished"

-----------------------------------------------------------------------------
(* Sessions. *)

\* serveNew starts the session it was given, whatever became of it since.
StartSession(c) ==
  /\ call[c] = "GetNew" /\ answer[c] = "ok"
  /\ session[elem[c]] = "init"
  /\ session' = [session EXCEPT ![elem[c]] = "running"]
  /\ UNCHANGED <<vars, cancelled>>

\* The process returns; run cancels the context in any case.
FinishSession(e) ==
  /\ session[e] = "running"
  /\ session' = [session EXCEPT ![e] = "finished"]
  /\ cancelled' = [cancelled EXCEPT ![e] = TRUE]
  /\ UNCHANGED vars

\* Mutant: Finalize closes no session.
FinalizeNothing(e) ==
  (Finalize(e) \/ Finalized(e)) /\ SessionsStay

\* Finalize: CloseWith(ErrCancelTimeout), which waits, if the element expired.
FinalizeSession(e) ==
  \/ /\ Finalize(e)
     /\ IF reason[e] = "expired" THEN CancelSession(e) ELSE SessionsStay
  \/ /\ Finalized(e)
     /\ reason[e] = "expired" => Ended(e)
     /\ SessionsStay

-----------------------------------------------------------------------------
(* Server.Close: EvictAfter with CloseWith(errServerClose), which waits. *)

\* Mutant: a session is closed, and not waited for.
CloseSessionOnly(c, e) ==
  \/ WorkerCall(c, e) /\ CancelSession(e)
  \/ WorkerSkip(c, e) /\ SessionsStay
  \/ WorkerDelete(c, e) /\ SessionsStay

CloseSession(c, e) ==
  \/ WorkerCall(c, e) /\ CancelSession(e)
  \/ WorkerSkip(c, e) /\ SessionsStay
  \/ WorkerDelete(c, e) /\ Ended(e) /\ SessionsStay

\* Then vapor.Close.
ThenClose(c) ==
  /\ call[c] = "EvictAfter"
  /\ Goto(c, "returned", "stop")
  /\ call' = [call EXCEPT ![c] = "Close"]
  /\ UNCHANGED <<stopped, started, elementVars, arg, tries, elem, answer, worker>>
  /\ SessionsStay

\* Server.Close has returned.
Closed(c) == call[c] = "Close" /\ at[c] = "returned"

-----------------------------------------------------------------------------

CallerStep(c) ==
  \/ CallStep(c) /\ SessionsStay
  \/ StartSession(c)
  \/ ThenClose(c)

ServerElementStep(e) ==
  \/ (Expire(e) \/ CleanUp(e)) /\ SessionsStay
  \/ FinalizeSession(e)

ServerTerminated ==
  /\ Terminated
  /\ \A c \in Callers : call[c] = "EvictAfter" => at[c] # "returned"
  /\ \A e \in 1 .. made : Ended(e)
  /\ SessionsStay

ServerNext ==
  \/ \E c \in Callers :
       \/ (\E k \in Calls, id \in Ids : Call(c, k, id)) /\ SessionsStay
       \/ CallerStep(c)
       \/ \E e \in Elements : CloseSession(c, e)
  \/ \E e \in Elements : ServerElementStep(e) \/ FinishSession(e)
  \/ ServerTerminated

ServerSpec == ServerInit /\ [][ServerNext]_serverVars

\* Fairness: the goroutines are run, an unused session expires, and a process
\* returns once its context is cancelled.
CancellableSpec ==
  /\ ServerSpec
  /\ \A c \in Callers :
       /\ WF_serverVars(CallerStep(c))
       /\ \A e \in Elements : WF_serverVars(CloseSession(c, e))
  /\ \A e \in Elements :
       /\ WF_serverVars(ServerElementStep(e))
       /\ WF_serverVars(cancelled[e] /\ FinishSession(e))

-----------------------------------------------------------------------------
(* Properties. *)

\* Finalize does nothing for a session that was deleted, so a session must have
\* ended by then: neither two Closes at the same time nor an expiry leave a
\* process behind that nobody cancels.
DeletedHasEnded ==
  \A e \in Elements : reason[e] = "deleted" => Ended(e)

\* When Server.Close has returned, no session is left in the map, and a session
\* that has not ended yet is one that has expired: its cancellation is under way.
CloseAccountsForAll ==
  \A c \in Callers : Closed(c) =>
    \A e \in 1 .. made :
      /\ place[e] = "removed"
      /\ \/ Ended(e)
         \/ reason[e] = "expired" /\ final[e] \in {"due", "running"}

\* Every session comes to an end, by its timeout at the latest.
SessionsEnd ==
  \A e \in Elements : (made >= e) ~> (place[e] = "removed" /\ Ended(e))

\* Server.Close returns.
CloseReturns ==
  \A c \in Callers : (call[c] = "EvictAfter") ~> Closed(c)

==============================================================================
