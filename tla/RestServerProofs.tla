-------------------------- MODULE RestServerProofs --------------------------
(***************************************************************************)
(* What Server.Close and Finalize promise of sessions, for any number of   *)
(* requests, sessions and calls of Close.                                  *)
(***************************************************************************)
EXTENDS RestServer, VaporProofs

SessionsOK ==
  /\ session \in [Elements -> {"init", "running", "finished"}]
  /\ cancelled \in [Elements -> BOOLEAN]

\* What is removed has a reason, and an expired session has ended when Finalize
\* is done with it.
ReasonInv ==
  \A e \in Elements :
    /\ place[e] = "removed" => reason[e] \in {"deleted", "expired"}
    /\ reason[e] = "expired" /\ final[e] = "done" => Ended(e)

\* vapor.Close comes after EvictAfter.
ClosedInv ==
  \A c \in Callers : call[c] = "Close" =>
    stopped /\ \A e \in Elements : place[e] \in {"nowhere", "removed"}

SInv == IInv /\ SessionsOK /\ ReasonInv /\ ClosedInv /\ DeletedHasEnded

\* The elements after a step, for all parts of the invariant that speak of them.
LEMMA RemoveKeeps ==
  ASSUME SInv, SessionsStay,
         NEW S \in SUBSET InMap, NEW why \in {"deleted", "expired"}, Remove(S, why),
         why = "deleted" => \A e \in S : Ended(e),
         UNCHANGED <<call, stopped>>
  PROVE  SessionsOK' /\ ReasonInv' /\ ClosedInv' /\ DeletedHasEnded'
<1> USE DEF SInv, IInv, TypeOK, ElementsOK, Remove, InMap, SessionsStay
<1>1. SessionsOK' BY DEF SessionsOK
<1>2. ReasonInv' BY DEF ReasonInv, Ended
<1>3. ClosedInv' BY DEF ClosedInv
<1>4. DeletedHasEnded' BY DEF DeletedHasEnded, Ended
<1> QED BY <1>1, <1>2, <1>3, <1>4

\* A step that leaves the elements where they are.
LEMMA SameElementsKeep ==
  ASSUME SInv, SessionsStay, UNCHANGED <<place, final, reason>>,
         stopped => stopped',
         \A c \in Callers : call'[c] = "Close" => call[c] = "Close"
  PROVE  SessionsOK' /\ ReasonInv' /\ ClosedInv' /\ DeletedHasEnded'
BY DEF SInv, SessionsOK, ReasonInv, ClosedInv, DeletedHasEnded, Ended, SessionsStay

LEMMA NewSessionKeeps ==
  ASSUME SInv, NEW c \in Callers, NEW id \in Ids, New(c, id), SessionsStay
  PROVE  SInv'
<1>1. IInv' BY NewKeeps DEF SInv
<1> USE ConstantsAssumption DEF SInv, IInv, TypeOK, ElementsOK, CallersOK, New, Make, Elements
<1>2. made + 1 \in Elements /\ place[made + 1] = "nowhere" OBVIOUS
<1>3. SessionsOK' BY DEF SessionsOK, SessionsStay
<1>4. place' = [place EXCEPT ![made + 1] = "live"] OBVIOUS
<1>5. ReasonInv' BY <1>2, <1>4 DEF ReasonInv, Ended, SessionsStay
<1>6. ClosedInv' BY DEF ClosedInv
<1>7. DeletedHasEnded' BY DEF DeletedHasEnded, Ended, SessionsStay
<1> QED BY <1>1, <1>3, <1>5, <1>6, <1>7 DEF SInv

LEMMA CallStepKeeps ==
  ASSUME SInv, NEW c \in Callers, CallStep(c), SessionsStay
  PROVE  SInv'
<1>1. IInv'
  BY InvNext DEF SInv, Next
<1> DEFINE Kept == SessionsOK' /\ ReasonInv' /\ ClosedInv' /\ DeletedHasEnded'
<1>2. ASSUME Start(c) \/ NewIDFails(c) \/ NoID(c) \/ Refuse(c) \/ InitItem(c)
               \/ Get(c) \/ GetFails(c) PROVE Kept
  BY <1>2, SameElementsKeep DEF Start, NewIDFails, NoID, Refuse, InitItem, Get, GetFails,
     elementVars
<1>3. ASSUME NEW id \in Ids, New(c, id) PROVE Kept
  BY <1>3, NewSessionKeeps DEF SInv
<1>4. ASSUME Evict(c) PROVE Kept
  BY <1>4, ServerCalls
     DEF SInv, IInv, TypeOK, CallersOK, PlaceInv, Evict, Return, Goto
<1>5. ASSUME Mark(c) \/ Keys(c) \/ Wait(c) \/ StopNothing(c) \/ Stop(c) PROVE Kept
  BY <1>5, SameElementsKeep
     DEF Mark, Keys, Wait, StopNothing, Stop, EvictAfterStep, CloseStep, elementVars
<1>6. ASSUME DeleteExpired(c) PROVE Kept
  <2>1. {e \in Elements : place[e] = "expired"} \in SUBSET InMap BY DEF InMap
  <2> QED BY <1>6, <2>1, RemoveKeeps DEF DeleteExpired, EvictAfterStep
<1>7. ASSUME DeleteAll(c) PROVE Kept
  <2>1. InMap = {}
    BY <1>7 DEF DeleteAll, Goto, SInv, IInv, PlaceInv, ClosedInv, InMap
  <2> QED BY <1>7, <2>1, RemoveKeeps DEF DeleteAll, CloseStep
<1> QED BY <1>1, <1>2, <1>3, <1>4, <1>5, <1>6, <1>7 DEF CallStep, SInv

LEMMA CallKeepsSessions ==
  ASSUME SInv, NEW c \in Callers, NEW k \in Calls, NEW id \in Ids, Call(c, k, id),
         SessionsStay
  PROVE  SInv'
<1>1. IInv' BY CallKeeps DEF SInv
<1>2. \A d \in Callers : call'[d] = "Close" => call[d] = "Close"
  BY ServerCalls DEF Call, SInv, IInv, TypeOK, CallersOK
<1> QED BY <1>1, <1>2, SameElementsKeep DEF SInv, Call, elementVars

LEMMA ThenCloseKeeps ==
  ASSUME SInv, NEW c \in Callers, ThenClose(c) PROVE SInv'
<1> USE DEF SInv, IInv, ThenClose, Goto, elementVars, SessionsStay
<1>1. TypeOK' BY DEF TypeOK, ElementsOK, CallersOK, Places
<1>2. PlaceInv' BY DEF TypeOK, CallersOK, PlaceInv
<1>3. AnswerInv' /\ FreshInv' /\ ReadyInv'
  BY DEF TypeOK, CallersOK, AnswerInv, FreshInv, ReadyInv
<1>4. EvictInv' BY DEF TypeOK, CallersOK, EvictInv, Marked
<1>5. ClosedInv' BY DEF TypeOK, CallersOK, EvictInv, Marked, ClosedInv
<1>6. SessionsOK' /\ ReasonInv' /\ DeletedHasEnded'
  BY DEF SessionsOK, ReasonInv, DeletedHasEnded, Ended
<1> QED BY <1>1, <1>2, <1>3, <1>4, <1>5, <1>6

LEMMA SessionStepKeeps ==
  ASSUME SInv, UNCHANGED vars,
         \/ \E c \in Callers : StartSession(c)
         \/ \E e \in Elements : FinishSession(e)
  PROVE  SInv'
<1>1. IInv' BY InvNext DEF SInv
<1>2. /\ SessionsOK'
      /\ \A e \in Elements : Ended(e) => Ended(e)'
  BY DEF SInv, SessionsOK, StartSession, FinishSession, Ended
<1>3. ReasonInv' /\ ClosedInv' /\ DeletedHasEnded'
  BY <1>2 DEF SInv, ReasonInv, ClosedInv, DeletedHasEnded, vars, elementVars, callerVars
<1> QED BY <1>1, <1>2, <1>3 DEF SInv

LEMMA CloseSessionKeeps ==
  ASSUME SInv, NEW c \in Callers, NEW e \in Elements, CloseSession(c, e)
  PROVE  SInv'
<1>1. IInv' BY InvNext DEF SInv, Next, CloseSession, WorkerNext
<1> DEFINE Kept == SessionsOK' /\ ReasonInv' /\ ClosedInv' /\ DeletedHasEnded'
<1>2. ASSUME WorkerCall(c, e), CancelSession(e) PROVE Kept
  BY <1>2 DEF SInv, SessionsOK, ReasonInv, ClosedInv, DeletedHasEnded, Ended,
     WorkerCall, WorkerStep, EvictAfterStep, CancelSession
<1>3. ASSUME WorkerSkip(c, e), SessionsStay PROVE Kept
  BY <1>3, SameElementsKeep DEF WorkerSkip, WorkerStep, EvictAfterStep, elementVars
<1>4. ASSUME WorkerDelete(c, e), Ended(e), SessionsStay PROVE Kept
  BY <1>4, RemoveKeeps DEF WorkerDelete, WorkerStep, EvictAfterStep
<1> QED BY <1>1, <1>2, <1>3, <1>4 DEF CloseSession, SInv

LEMMA ServerElementKeeps ==
  ASSUME SInv, NEW e \in Elements, ServerElementStep(e) PROVE SInv'
<1>1. IInv'
  BY InvNext DEF SInv, Next, ElementStep, ServerElementStep, FinalizeSession
<1> DEFINE Kept == SessionsOK' /\ ReasonInv' /\ ClosedInv' /\ DeletedHasEnded'
<1> USE DEF SInv, IInv, TypeOK, ElementsOK, SessionsOK, ReasonInv, ClosedInv, DeletedHasEnded,
        Ended, callerVars
<1>2. ASSUME Expire(e), SessionsStay PROVE Kept
  BY <1>2 DEF Expire, SessionsStay
<1>3. ASSUME CleanUp(e), SessionsStay PROVE Kept
  <2>1. {e} \in SUBSET InMap BY <1>3 DEF CleanUp, InMap
  <2> QED BY <1>3, <2>1, RemoveKeeps DEF CleanUp
<1>4. ASSUME Finalize(e), \/ CancelSession(e)
                          \/ SessionsStay PROVE Kept
  BY <1>4 DEF Finalize, CancelSession, SessionsStay
<1>5. ASSUME Finalized(e), reason[e] = "expired" => Ended(e), SessionsStay PROVE Kept
  BY <1>5 DEF Finalized, SessionsStay
<1> QED BY <1>1, <1>2, <1>3, <1>4, <1>5 DEF ServerElementStep, FinalizeSession

LEMMA ServerInvInit == ServerInit => SInv
<1> SUFFICES ASSUME ServerInit PROVE SInv
  OBVIOUS
<1>1. IInv BY InvInit DEF ServerInit
<1>2. SessionsOK /\ ReasonInv /\ ClosedInv /\ DeletedHasEnded
  BY DEF ServerInit, Init, SessionsOK, ReasonInv, ClosedInv, DeletedHasEnded
<1> QED BY <1>1, <1>2 DEF SInv

LEMMA ServerInvNext == ASSUME SInv, [ServerNext]_serverVars PROVE SInv'
<1>1. ASSUME NEW c \in Callers, NEW k \in Calls, NEW id \in Ids, Call(c, k, id), SessionsStay
      PROVE  SInv'
  BY <1>1, CallKeepsSessions
<1>2. ASSUME NEW c \in Callers, CallerStep(c) PROVE SInv'
  BY <1>2, CallStepKeeps, SessionStepKeeps, ThenCloseKeeps DEF CallerStep, StartSession
<1>3. ASSUME NEW c \in Callers, NEW e \in Elements, CloseSession(c, e) PROVE SInv'
  BY <1>3, CloseSessionKeeps
<1>4. ASSUME NEW e \in Elements, ServerElementStep(e) \/ FinishSession(e) PROVE SInv'
  BY <1>4, ServerElementKeeps, SessionStepKeeps DEF FinishSession
<1>5. ASSUME UNCHANGED serverVars PROVE SInv'
  <2>1. IInv' BY <1>5, InvNext DEF serverVars, SInv
  <2> QED BY <1>5, <2>1, SameElementsKeep
          DEF SInv, serverVars, vars, elementVars, callerVars, SessionsStay
<1> QED BY <1>1, <1>2, <1>3, <1>4, <1>5
        DEF ServerNext, ServerTerminated, Terminated, SessionsStay, serverVars

LEMMA ServerInvariant == ServerSpec => []SInv
BY ServerInvInit, ServerInvNext, PTL DEF ServerSpec

-----------------------------------------------------------------------------

\* A session that is deleted has ended: for those, Finalize has nothing to cancel
\* (Finalize in serve.go returns unless the reason is an expiry).
THEOREM DeletedSessionsHaveEnded == ServerSpec => []DeletedHasEnded
<1>1. SInv => DeletedHasEnded BY DEF SInv
<1> QED BY <1>1, ServerInvariant, PTL

\* When Server.Close has returned, every session has left the map, and has ended
\* unless it expired and its Finalize is about to end it.
THEOREM CloseAccountsForSessions == ServerSpec => []CloseAccountsForAll
<1>1. SInv => CloseAccountsForAll
  <2> SUFFICES ASSUME SInv, NEW c \in Callers, Closed(c), NEW e \in 1 .. made
               PROVE  /\ place[e] = "removed"
                      /\ \/ Ended(e)
                         \/ reason[e] = "expired" /\ final[e] \in {"due", "running"}
    BY DEF CloseAccountsForAll
  <2> USE DEF SInv, IInv, TypeOK, ElementsOK
  <2>1. e \in Elements /\ ~(e > made) BY ConstantsAssumption DEF Elements
  <2>2. place[e] = "removed" BY <2>1 DEF ClosedInv, Closed
  <2>3. final[e] \in {"due", "running", "done"} BY <2>1, <2>2
  <2> QED BY <2>1, <2>2, <2>3 DEF ReasonInv, DeletedHasEnded
<1> QED BY <1>1, ServerInvariant, PTL

=============================================================================
