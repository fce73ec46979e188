----------------------------- MODULE VaporProofs -----------------------------
(***************************************************************************)
(* Vapor keeps its invariants for any number of callers, ids and elements. *)
(***************************************************************************)
EXTENDS Vapor, TLAPS

\* What a caller calls determines the places it gets to, and what it has there.
PlaceInv ==
  \A c \in Callers :
    /\ at[c] = "idle" => answer[c] = "none" /\ elem[c] = 0
    /\ at[c] = "start" => call[c] \in Calls /\ call[c] # "Close"
                            /\ answer[c] = "none" /\ elem[c] = 0
    /\ at[c] = "newEntry" => call[c] \in {"New", "GetNew"}
                               /\ answer[c] = "none" /\ elem[c] = 0
    /\ at[c] = "initItem" => call[c] \in {"GetNew", "Get"}
                               /\ answer[c] = "none" /\ elem[c] # 0
    /\ at[c] = "get" => call[c] = "Get" /\ answer[c] = "none"
    /\ at[c] = "evict" => call[c] = "Evict"
    /\ at[c] \in {"mark", "keys", "wait", "deleteExpired"} => call[c] = "EvictAfter"
    /\ at[c] \in {"stop", "stopping"} => call[c] = "Close"

\* A call that has an element to return has initialized it, but for New.
AnswerInv ==
  \A c \in Callers :
    call[c] \in {"GetNew", "Get"} /\ answer[c] = "ok" => elem[c] # 0 /\ ready[elem[c]]

\* Two new elements are two.
FreshInv ==
  \A c, d \in Callers :
    {call[c], call[d]} \subseteq {"New", "GetNew"} /\ c # d /\ elem[c] # 0
      => elem[c] # elem[d]

\* f and Finalize work on initialized elements.
ReadyInv ==
  /\ \A c \in Callers, e \in Elements : worker[c][e] = "f" => ready[e]
  /\ \A e \in Elements : final[e] \in {"running", "done"} => ready[e]

Marked(c) == at[c] \in {"keys", "wait", "deleteExpired"}
               \/ (call[c] = "EvictAfter" /\ at[c] = "returned")

\* EvictAfter: no element is made after its first step; one that is found is the
\* matter of a goroutine until wg.Wait, and none is found afterwards.
EvictInv ==
  \A c \in Callers :
    /\ Marked(c) => stopped
    /\ at[c] = "wait" =>
         \A e \in Elements : place[e] = "live" => worker[c][e] \in {"get", "f"}
    /\ at[c] = "deleteExpired" => \A e \in Elements : place[e] # "live"
    /\ call[c] = "EvictAfter" /\ at[c] = "returned" =>
         \A e \in Elements : place[e] \in {"nowhere", "removed"}

IInv == TypeOK /\ PlaceInv /\ AnswerInv /\ FreshInv /\ ReadyInv /\ EvictInv

LEMMA CallKeeps ==
  ASSUME IInv, NEW c \in Callers, NEW k \in Calls, NEW id \in Ids, Call(c, k, id)
  PROVE  IInv'
<1> USE ConstantsAssumption DEF IInv, TypeOK, Elements, elementVars, callerVars,
        Call, Goto
<1>1. TypeOK' BY DEF ElementsOK, CallersOK, Places
<1>2. PlaceInv' BY DEF ElementsOK, CallersOK, PlaceInv, Places
<1>3. AnswerInv' /\ FreshInv' /\ ReadyInv'
  BY DEF ElementsOK, CallersOK, PlaceInv, AnswerInv, FreshInv, ReadyInv
<1>4. EvictInv' BY DEF ElementsOK, CallersOK, PlaceInv, EvictInv, Marked
<1> QED BY <1>1, <1>2, <1>3, <1>4

LEMMA StartKeeps ==
  ASSUME IInv, NEW c \in Callers, Start(c) PROVE IInv'
<1> USE ConstantsAssumption DEF IInv, TypeOK, Elements, elementVars, callerVars,
        Start, FirstStep, Goto
<1>a. /\ call[c] \in Calls \ {"Close"}
      /\ FirstStep[call[c]] \in {"newEntry", "get", "evict", "mark"}
      /\ FirstStep[call[c]] = "newEntry" => call[c] \in {"New", "GetNew"}
      /\ FirstStep[call[c]] = "get" => call[c] = "Get"
      /\ FirstStep[call[c]] = "evict" => call[c] = "Evict"
      /\ FirstStep[call[c]] = "mark" => call[c] = "EvictAfter"
  <2>1. call[c] \in {"New", "GetNew", "Get", "Evict", "EvictAfter"} BY DEF PlaceInv
  <2> QED BY <2>1 DEF PlaceInv
<1> HIDE DEF FirstStep
<1>1. TypeOK' BY <1>a DEF ElementsOK, CallersOK, Places
<1>2. PlaceInv' BY <1>a DEF ElementsOK, CallersOK, PlaceInv, Places
<1>3. AnswerInv' /\ FreshInv' /\ ReadyInv'
  BY <1>a DEF ElementsOK, CallersOK, PlaceInv, AnswerInv, FreshInv, ReadyInv
<1>4. EvictInv' BY <1>a DEF ElementsOK, CallersOK, PlaceInv, EvictInv, Marked
<1> QED BY <1>1, <1>2, <1>3, <1>4

LEMMA NewIDFailsKeeps ==
  ASSUME IInv, NEW c \in Callers, NewIDFails(c) PROVE IInv'
<1> USE ConstantsAssumption DEF IInv, TypeOK, Elements, elementVars, callerVars,
        NewIDFails, Goto
<1>1. TypeOK' BY DEF ElementsOK, CallersOK, Places
<1>2. PlaceInv' BY DEF ElementsOK, CallersOK, PlaceInv, Places
<1>3. AnswerInv' /\ FreshInv' /\ ReadyInv'
  BY DEF ElementsOK, CallersOK, PlaceInv, AnswerInv, FreshInv, ReadyInv
<1>4. EvictInv' BY DEF ElementsOK, CallersOK, PlaceInv, EvictInv, Marked
<1> QED BY <1>1, <1>2, <1>3, <1>4

LEMMA NoIDKeeps ==
  ASSUME IInv, NEW c \in Callers, NoID(c) PROVE IInv'
<1> USE ConstantsAssumption DEF IInv, TypeOK, Elements, elementVars, callerVars,
        NoID, Return, Goto
<1>1. TypeOK' BY DEF ElementsOK, CallersOK, Places
<1>2. PlaceInv' BY DEF ElementsOK, CallersOK, PlaceInv, Places
<1>3. AnswerInv' /\ FreshInv' /\ ReadyInv'
  BY DEF ElementsOK, CallersOK, PlaceInv, AnswerInv, FreshInv, ReadyInv
<1>4. EvictInv' BY DEF ElementsOK, CallersOK, PlaceInv, EvictInv, Marked
<1> QED BY <1>1, <1>2, <1>3, <1>4

LEMMA RefuseKeeps ==
  ASSUME IInv, NEW c \in Callers, Refuse(c) PROVE IInv'
<1> USE ConstantsAssumption DEF IInv, TypeOK, Elements, elementVars, callerVars,
        Refuse, Return, Goto
<1>1. TypeOK' BY DEF ElementsOK, CallersOK, Places
<1>2. PlaceInv' BY DEF ElementsOK, CallersOK, PlaceInv, Places
<1>3. AnswerInv' /\ FreshInv' /\ ReadyInv'
  BY DEF ElementsOK, CallersOK, PlaceInv, AnswerInv, FreshInv, ReadyInv
<1>4. EvictInv' BY DEF ElementsOK, CallersOK, PlaceInv, EvictInv, Marked
<1> QED BY <1>1, <1>2, <1>3, <1>4

LEMMA NewKeeps ==
  ASSUME IInv, NEW c \in Callers, NEW id \in Ids, New(c, id) PROVE IInv'
<1> USE ConstantsAssumption DEF IInv, TypeOK, Elements, elementVars, callerVars,
        New, Make, InMap, Return, Goto
<1>1. ElementsOK'
  <2>1. made + 1 \in Elements BY DEF ElementsOK
  <2>2. made' = made + 1 BY DEF ElementsOK
  <2>3. made' \in 0 .. MaxElements BY <2>1, <2>2
  <2>4. /\ ident' = [ident EXCEPT ![made + 1] = id]
        /\ place' = [place EXCEPT ![made + 1] = "live"]
    BY <2>2
  <2>5. /\ ident' \in [Elements -> Ids \cup {"none"}]
        /\ place' \in [Elements -> {"nowhere", "live", "expired", "removed"}]
    BY <2>1, <2>4 DEF ElementsOK
  <2>6. ASSUME NEW e \in Elements PROVE (place'[e] = "nowhere") = (e > made')
    <3>1. CASE e = made + 1 BY <2>1, <2>2, <2>4, <3>1 DEF ElementsOK
    <3>2. CASE e # made + 1
      <4>1. place'[e] = place[e] BY <2>4, <3>2 DEF ElementsOK
      <4>2. (e > made') = (e > made) BY <2>2, <3>2 DEF ElementsOK
      <4> QED BY <4>1, <4>2 DEF ElementsOK
    <3> QED BY <3>1, <3>2
  <2>7. ASSUME NEW e \in Elements PROVE (place'[e] = "removed") = (final'[e] # "no")
    <3>1. CASE e = made + 1
      <4>1. place[e] = "nowhere" BY <3>1 DEF ElementsOK
      <4>2. place'[e] = "live" BY <2>1, <2>4, <3>1 DEF ElementsOK
      <4> QED BY <4>1, <4>2 DEF ElementsOK
    <3>2. CASE e # made + 1 BY <2>4, <3>2 DEF ElementsOK
    <3> QED BY <3>1, <3>2
  <2> QED BY <2>3, <2>5, <2>6, <2>7 DEF ElementsOK
<1>2. CallersOK'
  <2>1. made' = made + 1 /\ made \in Nat BY DEF ElementsOK
  <2>2. elem' \in [Callers -> 0 .. made'] BY <2>1 DEF CallersOK
  <2>3. \E to \in {"initItem", "returned"} : at' = [at EXCEPT ![c] = to]
    OBVIOUS
  <2>a. at' \in [Callers -> Places] BY ONLY <2>3, CallersOK DEF CallersOK, Places
  <2>4. answer' \in [Callers -> {"none", "ok", "errNoID", "errStopped", "errNotFound"}]
    BY DEF CallersOK
  <2> QED BY <2>2, <2>a, <2>4 DEF CallersOK
<1>3. TypeOK' BY <1>1, <1>2
<1>4. PlaceInv' BY DEF ElementsOK, CallersOK, PlaceInv, Places
<1>5. AnswerInv' /\ FreshInv' /\ ReadyInv'
  BY DEF ElementsOK, CallersOK, PlaceInv, AnswerInv, FreshInv, ReadyInv
<1>6. EvictInv' BY DEF ElementsOK, CallersOK, PlaceInv, EvictInv, Marked
<1> QED BY <1>3, <1>4, <1>5, <1>6

LEMMA InitItemKeeps ==
  ASSUME IInv, NEW c \in Callers, InitItem(c) PROVE IInv'
<1> USE ConstantsAssumption DEF IInv, TypeOK, Elements, elementVars, callerVars,
        InitItem, Return, Goto
<1>1. TypeOK' BY DEF ElementsOK, CallersOK, Places
<1>2. PlaceInv' BY DEF ElementsOK, CallersOK, PlaceInv, Places
<1>3. AnswerInv' /\ FreshInv' /\ ReadyInv'
  BY DEF ElementsOK, CallersOK, PlaceInv, AnswerInv, FreshInv, ReadyInv
<1>4. EvictInv'
  <2>1. call[c] # "EvictAfter" BY DEF PlaceInv
  <2> SUFFICES ASSUME NEW d \in Callers
                PROVE /\ Marked(d)' => Marked(d)
                      /\ \A q \in {"wait", "deleteExpired"} : at'[d] = q => at[d] = q
                      /\ call[d] = "EvictAfter" /\ at'[d] = "returned" => at[d] = "returned"
    BY DEF EvictInv
  <2> QED BY <2>1 DEF CallersOK, Marked
<1> QED BY <1>1, <1>2, <1>3, <1>4

LEMMA GetKeeps ==
  ASSUME IInv, NEW c \in Callers, Get(c) PROVE IInv'
<1> USE ConstantsAssumption DEF IInv, TypeOK, Elements, elementVars, callerVars,
        Get, Live, Goto
<1>1. ElementsOK' BY DEF ElementsOK
<1>2. CallersOK'
  <2>1. PICK e \in Elements : place[e] = "live" /\ elem' = [elem EXCEPT ![c] = e]
    OBVIOUS
  <2>2. e \in 0 .. made BY <2>1, SMTT(60) DEF ElementsOK
  <2>3. elem' \in [Callers -> 0 .. made'] BY <2>1, <2>2 DEF CallersOK
  <2>4. at' \in [Callers -> Places] BY DEF CallersOK, Places
  <2> QED BY <2>3, <2>4 DEF CallersOK
<1>3. TypeOK' BY <1>1, <1>2
<1>4. PlaceInv' BY DEF ElementsOK, CallersOK, PlaceInv, Places
<1>5. AnswerInv' /\ FreshInv' /\ ReadyInv'
  BY DEF ElementsOK, CallersOK, PlaceInv, AnswerInv, FreshInv, ReadyInv
<1>6. EvictInv' BY DEF ElementsOK, CallersOK, PlaceInv, EvictInv, Marked
<1> QED BY <1>3, <1>4, <1>5, <1>6

LEMMA GetFailsKeeps ==
  ASSUME IInv, NEW c \in Callers, GetFails(c) PROVE IInv'
<1> USE ConstantsAssumption DEF IInv, TypeOK, Elements, elementVars, callerVars,
        GetFails, Return, Goto
<1>1. TypeOK' BY DEF ElementsOK, CallersOK, Places
<1>2. PlaceInv' BY DEF ElementsOK, CallersOK, PlaceInv, Places
<1>3. AnswerInv' /\ FreshInv' /\ ReadyInv'
  BY DEF ElementsOK, CallersOK, PlaceInv, AnswerInv, FreshInv, ReadyInv
<1>4. EvictInv' BY DEF ElementsOK, CallersOK, PlaceInv, EvictInv, Marked
<1> QED BY <1>1, <1>2, <1>3, <1>4

LEMMA EvictKeeps ==
  ASSUME IInv, NEW c \in Callers, Evict(c) PROVE IInv'
<1> USE ConstantsAssumption DEF IInv, TypeOK, Elements, elementVars, callerVars,
        Evict, Remove, InMap, Return, Goto
<1>1. TypeOK' BY DEF ElementsOK, CallersOK, Places
<1>2. PlaceInv' BY DEF ElementsOK, CallersOK, PlaceInv, Places
<1>3. AnswerInv' /\ FreshInv' /\ ReadyInv'
  BY DEF ElementsOK, CallersOK, PlaceInv, AnswerInv, FreshInv, ReadyInv
<1>4. EvictInv' BY DEF ElementsOK, CallersOK, PlaceInv, EvictInv, Marked
<1> QED BY <1>1, <1>2, <1>3, <1>4

LEMMA MarkKeeps ==
  ASSUME IInv, NEW c \in Callers, Mark(c) PROVE IInv'
<1> USE ConstantsAssumption DEF IInv, TypeOK, Elements, elementVars, callerVars,
        Mark, EvictAfterStep, Goto
<1>1. TypeOK' BY DEF ElementsOK, CallersOK, Places
<1>2. PlaceInv' BY DEF ElementsOK, CallersOK, PlaceInv, Places
<1>3. AnswerInv' /\ FreshInv' /\ ReadyInv'
  BY DEF ElementsOK, CallersOK, PlaceInv, AnswerInv, FreshInv, ReadyInv
<1>4. EvictInv' BY DEF ElementsOK, CallersOK, PlaceInv, EvictInv, Marked
<1> QED BY <1>1, <1>2, <1>3, <1>4

LEMMA KeysKeeps ==
  ASSUME IInv, NEW c \in Callers, Keys(c) PROVE IInv'
<1> USE ConstantsAssumption DEF IInv, TypeOK, Elements, elementVars, callerVars,
        Keys, EvictAfterStep, Goto
<1>1. TypeOK' BY DEF ElementsOK, CallersOK, Places
<1>2. PlaceInv' BY DEF ElementsOK, CallersOK, PlaceInv, Places
<1>3. AnswerInv' /\ FreshInv' /\ ReadyInv'
  BY DEF ElementsOK, CallersOK, PlaceInv, AnswerInv, FreshInv, ReadyInv
<1>4. EvictInv' BY DEF ElementsOK, CallersOK, PlaceInv, EvictInv, Marked
<1> QED BY <1>1, <1>2, <1>3, <1>4

LEMMA WaitKeeps ==
  ASSUME IInv, NEW c \in Callers, Wait(c) PROVE IInv'
<1> USE ConstantsAssumption DEF IInv, TypeOK, Elements, elementVars, callerVars,
        Wait, EvictAfterStep, Goto
<1>1. TypeOK' BY DEF ElementsOK, CallersOK, Places
<1>2. PlaceInv' BY DEF ElementsOK, CallersOK, PlaceInv, Places
<1>3. AnswerInv' /\ FreshInv' /\ ReadyInv'
  BY DEF ElementsOK, CallersOK, PlaceInv, AnswerInv, FreshInv, ReadyInv
<1>4. EvictInv'
  <2>1. \A e \in Elements : place[e] # "live" BY DEF EvictInv
  <2> SUFFICES ASSUME NEW d \in Callers, d # c
                PROVE at'[d] = at[d]
    BY <2>1 DEF EvictInv, CallersOK, Marked
  <2> QED BY DEF CallersOK
<1> QED BY <1>1, <1>2, <1>3, <1>4

LEMMA DeleteExpiredKeeps ==
  ASSUME IInv, NEW c \in Callers, DeleteExpired(c) PROVE IInv'
<1> USE ConstantsAssumption DEF IInv, TypeOK, Elements, elementVars, callerVars,
        DeleteExpired, EvictAfterStep, Remove, Return, Goto
<1>1. TypeOK' BY DEF ElementsOK, CallersOK, Places
<1>2. PlaceInv' BY DEF ElementsOK, CallersOK, PlaceInv, Places
<1>3. AnswerInv' /\ FreshInv' /\ ReadyInv'
  BY DEF ElementsOK, CallersOK, PlaceInv, AnswerInv, FreshInv, ReadyInv
<1>4. EvictInv' BY DEF ElementsOK, CallersOK, PlaceInv, EvictInv, Marked
<1> QED BY <1>1, <1>2, <1>3, <1>4

LEMMA StopNothingKeeps ==
  ASSUME IInv, NEW c \in Callers, StopNothing(c) PROVE IInv'
<1> USE ConstantsAssumption DEF IInv, TypeOK, Elements, elementVars, callerVars,
        StopNothing, CloseStep, Return, Goto
<1>1. TypeOK' BY DEF ElementsOK, CallersOK, Places
<1>2. PlaceInv' BY DEF ElementsOK, CallersOK, PlaceInv, Places
<1>3. AnswerInv' /\ FreshInv' /\ ReadyInv'
  BY DEF ElementsOK, CallersOK, PlaceInv, AnswerInv, FreshInv, ReadyInv
<1>4. EvictInv' BY DEF ElementsOK, CallersOK, PlaceInv, EvictInv, Marked
<1> QED BY <1>1, <1>2, <1>3, <1>4

LEMMA DeleteAllKeeps ==
  ASSUME IInv, NEW c \in Callers, DeleteAll(c) PROVE IInv'
<1> USE ConstantsAssumption DEF IInv, TypeOK, Elements, elementVars, callerVars,
        DeleteAll, CloseStep, Remove, InMap, Goto
<1>1. TypeOK' BY DEF ElementsOK, CallersOK, Places
<1>2. PlaceInv' BY DEF ElementsOK, CallersOK, PlaceInv, Places
<1>3. AnswerInv' /\ FreshInv' /\ ReadyInv'
  BY DEF ElementsOK, CallersOK, PlaceInv, AnswerInv, FreshInv, ReadyInv
<1>4. EvictInv' BY DEF ElementsOK, CallersOK, PlaceInv, EvictInv, Marked
<1> QED BY <1>1, <1>2, <1>3, <1>4

LEMMA StopKeeps ==
  ASSUME IInv, NEW c \in Callers, Stop(c) PROVE IInv'
<1> USE ConstantsAssumption DEF IInv, TypeOK, Elements, elementVars, callerVars,
        Stop, CloseStep, Return, Goto
<1>1. TypeOK'
  <2>1. ElementsOK' BY DEF ElementsOK
  <2>2. CallersOK' BY DEF ElementsOK, CallersOK, Places
  <2> QED BY <2>1, <2>2
<1>2. PlaceInv' BY DEF ElementsOK, CallersOK, PlaceInv, Places
<1>3. AnswerInv' /\ FreshInv' /\ ReadyInv'
  BY DEF ElementsOK, CallersOK, PlaceInv, AnswerInv, FreshInv, ReadyInv
<1>4. EvictInv' BY DEF ElementsOK, CallersOK, PlaceInv, EvictInv, Marked
<1> QED BY <1>1, <1>2, <1>3, <1>4

LEMMA WorkerCallKeeps ==
  ASSUME IInv, NEW c \in Callers, NEW e \in Elements, WorkerCall(c, e) PROVE IInv'
<1> USE ConstantsAssumption DEF IInv, TypeOK, Elements, elementVars, callerVars,
        WorkerCall, WorkerStep, EvictAfterStep
<1>1. TypeOK' BY DEF ElementsOK, CallersOK, Places
<1>2. PlaceInv' BY DEF ElementsOK, CallersOK, PlaceInv, Places
<1>3. AnswerInv' /\ FreshInv' /\ ReadyInv'
  BY DEF ElementsOK, CallersOK, PlaceInv, AnswerInv, FreshInv, ReadyInv
<1>4. EvictInv' BY DEF ElementsOK, CallersOK, PlaceInv, EvictInv, Marked
<1> QED BY <1>1, <1>2, <1>3, <1>4

LEMMA WorkerSkipKeeps ==
  ASSUME IInv, NEW c \in Callers, NEW e \in Elements, WorkerSkip(c, e) PROVE IInv'
<1> USE ConstantsAssumption DEF IInv, TypeOK, Elements, elementVars, callerVars,
        WorkerSkip, WorkerStep, EvictAfterStep
<1>1. TypeOK' BY DEF ElementsOK, CallersOK, Places
<1>2. PlaceInv' BY DEF ElementsOK, CallersOK, PlaceInv, Places
<1>3. AnswerInv' /\ FreshInv' /\ ReadyInv'
  BY DEF ElementsOK, CallersOK, PlaceInv, AnswerInv, FreshInv, ReadyInv
<1>4. EvictInv' BY DEF ElementsOK, CallersOK, PlaceInv, EvictInv, Marked
<1> QED BY <1>1, <1>2, <1>3, <1>4

LEMMA WorkerDeleteKeeps ==
  ASSUME IInv, NEW c \in Callers, NEW e \in Elements, WorkerDelete(c, e) PROVE IInv'
<1> USE ConstantsAssumption DEF IInv, TypeOK, Elements, elementVars, callerVars,
        WorkerDelete, WorkerStep, EvictAfterStep, Remove, InMap
<1>1. TypeOK' BY DEF ElementsOK, CallersOK, Places
<1>2. PlaceInv' BY DEF ElementsOK, CallersOK, PlaceInv, Places
<1>3. AnswerInv' /\ FreshInv' /\ ReadyInv'
  BY DEF ElementsOK, CallersOK, PlaceInv, AnswerInv, FreshInv, ReadyInv
<1>4. EvictInv' BY DEF ElementsOK, CallersOK, PlaceInv, EvictInv, Marked
<1> QED BY <1>1, <1>2, <1>3, <1>4

LEMMA ExpireKeeps ==
  ASSUME IInv, NEW e \in Elements, Expire(e) PROVE IInv'
<1> USE ConstantsAssumption DEF IInv, TypeOK, Elements, elementVars, callerVars, Expire
<1>1. TypeOK' BY DEF ElementsOK, CallersOK, Places
<1>2. PlaceInv' BY DEF ElementsOK, CallersOK, PlaceInv, Places
<1>3. AnswerInv' /\ FreshInv' /\ ReadyInv'
  BY DEF ElementsOK, CallersOK, PlaceInv, AnswerInv, FreshInv, ReadyInv
<1>4. EvictInv' BY DEF ElementsOK, CallersOK, PlaceInv, EvictInv, Marked
<1> QED BY <1>1, <1>2, <1>3, <1>4

LEMMA CleanUpKeeps ==
  ASSUME IInv, NEW e \in Elements, CleanUp(e) PROVE IInv'
<1> USE ConstantsAssumption DEF IInv, TypeOK, Elements, elementVars, callerVars,
        CleanUp, Remove
<1>1. TypeOK' BY DEF ElementsOK, CallersOK, Places
<1>2. PlaceInv' BY DEF ElementsOK, CallersOK, PlaceInv, Places
<1>3. AnswerInv' /\ FreshInv' /\ ReadyInv'
  BY DEF ElementsOK, CallersOK, PlaceInv, AnswerInv, FreshInv, ReadyInv
<1>4. EvictInv' BY DEF ElementsOK, CallersOK, PlaceInv, EvictInv, Marked
<1> QED BY <1>1, <1>2, <1>3, <1>4

LEMMA FinalizeKeeps ==
  ASSUME IInv, NEW e \in Elements, Finalize(e) PROVE IInv'
<1> USE ConstantsAssumption DEF IInv, TypeOK, Elements, elementVars, callerVars,
        Finalize
<1>1. TypeOK' BY DEF ElementsOK, CallersOK, Places
<1>2. PlaceInv' BY DEF ElementsOK, CallersOK, PlaceInv, Places
<1>3. AnswerInv' /\ FreshInv' /\ ReadyInv'
  BY DEF ElementsOK, CallersOK, PlaceInv, AnswerInv, FreshInv, ReadyInv
<1>4. EvictInv' BY DEF ElementsOK, CallersOK, PlaceInv, EvictInv, Marked
<1> QED BY <1>1, <1>2, <1>3, <1>4

LEMMA FinalizedKeeps ==
  ASSUME IInv, NEW e \in Elements, Finalized(e) PROVE IInv'
<1> USE ConstantsAssumption DEF IInv, TypeOK, Elements, elementVars, callerVars,
        Finalized
<1>1. TypeOK' BY DEF ElementsOK, CallersOK, Places
<1>2. PlaceInv' BY DEF ElementsOK, CallersOK, PlaceInv, Places
<1>3. AnswerInv' /\ FreshInv' /\ ReadyInv'
  BY DEF ElementsOK, CallersOK, PlaceInv, AnswerInv, FreshInv, ReadyInv
<1>4. EvictInv' BY DEF ElementsOK, CallersOK, PlaceInv, EvictInv, Marked
<1> QED BY <1>1, <1>2, <1>3, <1>4

LEMMA InvInit == Init => IInv
<1> SUFFICES ASSUME Init PROVE IInv
  OBVIOUS
<1> USE ConstantsAssumption DEF Init, IInv, Elements
<1>1. ElementsOK BY DEF ElementsOK
<1>2. CallersOK BY DEF CallersOK, Places
<1>3. PlaceInv /\ AnswerInv /\ FreshInv /\ ReadyInv /\ EvictInv
  BY DEF PlaceInv, AnswerInv, FreshInv, ReadyInv, EvictInv, Marked
<1> QED BY <1>1, <1>2, <1>3 DEF TypeOK

LEMMA InvNext == ASSUME IInv, [Next]_vars PROVE IInv'
<1>1. ASSUME NEW c \in Callers, NEW k \in Calls, NEW id \in Ids, Call(c, k, id) PROVE IInv'
  BY <1>1, CallKeeps
<1>2. ASSUME NEW c \in Callers, CallStep(c) PROVE IInv'
  BY <1>2, StartKeeps, NewIDFailsKeeps, NoIDKeeps, RefuseKeeps, NewKeeps, InitItemKeeps,
     GetKeeps, GetFailsKeeps, EvictKeeps, MarkKeeps, KeysKeeps, WaitKeeps,
     DeleteExpiredKeeps, StopNothingKeeps, DeleteAllKeeps, StopKeeps DEF CallStep
<1>3. ASSUME NEW c \in Callers, NEW e \in Elements, WorkerNext(c, e) PROVE IInv'
  BY <1>3, WorkerCallKeeps, WorkerSkipKeeps, WorkerDeleteKeeps DEF WorkerNext
<1>4. ASSUME NEW e \in Elements, ElementStep(e) PROVE IInv'
  BY <1>4, ExpireKeeps, CleanUpKeeps, FinalizeKeeps, FinalizedKeeps DEF ElementStep
<1>5. ASSUME UNCHANGED vars PROVE IInv'
  BY <1>5 DEF IInv, TypeOK, ElementsOK, CallersOK, PlaceInv, AnswerInv, FreshInv,
     ReadyInv, EvictInv, Marked, vars, elementVars, callerVars
<1> QED BY <1>1, <1>2, <1>3, <1>4, <1>5 DEF Next, Terminated

LEMMA Invariant == Spec => []IInv
BY InvInit, InvNext, PTL DEF Spec

-----------------------------------------------------------------------------

\* The variables of Vapor have their types, and exactly the elements that were
\* removed from the map are or will be finalized.
THEOREM TypeCorrect == Spec => []TypeOK
<1>1. IInv => TypeOK BY DEF IInv
<1> QED BY <1>1, Invariant, PTL

\* No caller, no f of EvictAfter and no Finalize ever gets an element that is not
\* initialized, and no two calls of New or GetNew get the same one (initItem,
\* newEntry).
THEOREM ElementsInitializedFirst == Spec => []InitializedFirst
<1>1. IInv => InitializedFirst
  BY DEF IInv, AnswerInv, FreshInv, ReadyInv, InitializedFirst
<1> QED BY <1>1, Invariant, PTL

\* When EvictAfter returns, nothing is left in the map, and nothing ever will be.
THEOREM EvictAfterEvicts == Spec => []EvictAfterLeavesNothing
<1>1. IInv => EvictAfterLeavesNothing
  <2> SUFFICES ASSUME IInv, NEW c \in Callers, call[c] = "EvictAfter", at[c] = "returned",
                      NEW e \in 1 .. made
               PROVE place[e] = "removed"
    BY DEF EvictAfterLeavesNothing
  <2>1. e \in Elements /\ ~(e > made)
    BY ConstantsAssumption DEF IInv, TypeOK, ElementsOK, Elements
  <2> QED BY <2>1 DEF IInv, TypeOK, ElementsOK, EvictInv
<1> QED BY <1>1, Invariant, PTL

=============================================================================
