------------------------------- MODULE Vapor -------------------------------
(***************************************************************************)
(* internal/vapor: elements that are finalized when they have not been     *)
(* used for some time, or when they are evicted.                           *)
(*                                                                         *)
(* The map underneath is a ttlcache.Cache, which is modelled from how      *)
(* vapor.go uses it: an element whose time is over is found no more,       *)
(* although it stays in the map until the background task or DeleteExpired *)
(* removes it; and for every element that is removed the cache starts a    *)
(* goroutine that runs the eviction function.  Time is not modelled: an    *)
(* element may expire whenever it is in the map.                           *)
(*                                                                         *)
(* Elements are numbered in the order they are made.                       *)
(***************************************************************************)
EXTENDS Naturals, FiniteSets

CONSTANTS
  Callers,       \* bound: the goroutines that call vapor, once each
  Calls,         \* what they call
  Ids,           \* the ids NewID returns
  MaxElements,   \* bound: the elements there can be
  MaxNewIDCalls  \* maxNewIDCalls (1000 in the code)

ASSUME ConstantsAssumption ==
  /\ Calls \subseteq {"New", "GetNew", "Get", "Evict", "EvictAfter", "Close"}
  /\ MaxElements \in Nat
  /\ MaxNewIDCalls \in Nat

Elements == 1 .. MaxElements

VARIABLES
  stopped,   \* no new elements are accepted
  started,   \* the background task is started
  made,      \* how many elements have been made
  ident,     \* the id of each element
  place,     \* where it is: "nowhere", "live", "expired", "removed"
  ready,     \* it has been initialized
  final,     \* its finalization: "no", "due", "running" or "done"
  reason,    \* why it was removed
  call,      \* what each caller calls
  at,        \* where it is
  arg,       \* the id it passes
  tries,     \* how often it has called NewID
  elem,      \* the element it works on, 0 if none
  answer,    \* what its call returns
  worker     \* the goroutines of its EvictAfter, one for each element

elementVars == <<made, ident, place, ready, final, reason>>
callerVars  == <<call, at, arg, tries, elem, answer, worker>>
vars == <<stopped, started, elementVars, callerVars>>

Init ==
  /\ stopped = FALSE
  /\ started = FALSE
  /\ made = 0
  /\ ident = [e \in Elements |-> "none"]
  /\ place = [e \in Elements |-> "nowhere"]
  /\ ready = [e \in Elements |-> FALSE]
  /\ final = [e \in Elements |-> "no"]
  /\ reason = [e \in Elements |-> "none"]
  /\ call = [c \in Callers |-> "none"]
  /\ at = [c \in Callers |-> "idle"]
  /\ arg = [c \in Callers |-> "none"]
  /\ tries = [c \in Callers |-> 0]
  /\ elem = [c \in Callers |-> 0]
  /\ answer = [c \in Callers |-> "none"]
  /\ worker = [c \in Callers |-> [e \in Elements |-> "off"]]

-----------------------------------------------------------------------------
(* The cache. *)

InMap == {e \in Elements : place[e] \in {"live", "expired"}}

\* What Get finds.
Live(id) == {e \in Elements : place[e] = "live" /\ ident[e] = id}

Remove(S, why) ==
  /\ place' = [e \in Elements |-> IF e \in S THEN "removed" ELSE place[e]]
  /\ final' = [e \in Elements |-> IF e \in S THEN "due" ELSE final[e]]
  /\ reason' = [e \in Elements |-> IF e \in S THEN why ELSE reason[e]]
  /\ UNCHANGED <<made, ident>>

Expire(e) ==
  /\ place[e] = "live"
  /\ place' = [place EXCEPT ![e] = "expired"]
  /\ UNCHANGED <<stopped, started, made, ident, ready, final, reason, callerVars>>

\* The background task, from Start to Stop.
CleanUp(e) ==
  /\ started
  /\ place[e] = "expired"
  /\ Remove({e}, "expired")
  /\ UNCHANGED <<stopped, started, ready, callerVars>>

-----------------------------------------------------------------------------
(* The eviction function: initItem, then Finalize. *)

\* Mutant: an element that was never used is finalized as it is.
FinalizeRaw(e) ==
  /\ final[e] = "due"
  /\ final' = [final EXCEPT ![e] = "running"]
  /\ UNCHANGED <<stopped, started, made, ident, place, ready, reason, callerVars>>

Finalize(e) ==
  /\ final[e] = "due"
  /\ final' = [final EXCEPT ![e] = "running"]
  /\ ready' = [ready EXCEPT ![e] = TRUE]
  /\ UNCHANGED <<stopped, started, made, ident, place, reason, callerVars>>

Finalized(e) ==
  /\ final[e] = "running"
  /\ final' = [final EXCEPT ![e] = "done"]
  /\ UNCHANGED <<stopped, started, made, ident, place, ready, reason, callerVars>>

-----------------------------------------------------------------------------
(* Calls. *)

\* stop holds startStopM while it empties and stops the cache.
Stopping == \E c \in Callers : at[c] = "stopping"

Goto(c, from, to) ==
  /\ at[c] = from
  /\ at' = [at EXCEPT ![c] = to]

Return(c, from, a) ==
  /\ Goto(c, from, "returned")
  /\ answer' = [answer EXCEPT ![c] = a]

Call(c, k, id) ==
  /\ Goto(c, "idle", IF k = "Close" THEN "stop" ELSE "start")
  /\ call' = [call EXCEPT ![c] = k]
  /\ arg' = [arg EXCEPT ![c] = IF k \in {"Get", "Evict"} THEN id ELSE "none"]
  /\ UNCHANGED <<stopped, started, elementVars, tries, elem, answer, worker>>

FirstStep == [New |-> "newEntry", GetNew |-> "newEntry", Get |-> "get",
              Evict |-> "evict", EvictAfter |-> "mark"]

\* start
Start(c) ==
  /\ Goto(c, "start", FirstStep[call[c]])
  /\ ~Stopping
  /\ started' = TRUE
  /\ UNCHANGED <<stopped, elementVars, call, arg, tries, elem, answer, worker>>

\* Mutant: NewID is called once too often.
NewIDFailsOnceMore(c) ==
  /\ Goto(c, "newEntry", "newEntry")
  /\ tries[c] <= MaxNewIDCalls
  /\ tries' = [tries EXCEPT ![c] = @ + 1]
  /\ UNCHANGED <<stopped, started, elementVars, call, arg, elem, answer, worker>>

\* newEntry.  NewID returns an empty id, or one that is found in the cache.
NewIDFails(c) ==
  /\ Goto(c, "newEntry", "newEntry")
  /\ tries[c] < MaxNewIDCalls
  /\ tries' = [tries EXCEPT ![c] = @ + 1]
  /\ UNCHANGED <<stopped, started, elementVars, call, arg, elem, answer, worker>>

NoID(c) ==
  /\ Return(c, "newEntry", "errNoID")
  /\ tries[c] = MaxNewIDCalls
  /\ UNCHANGED <<stopped, started, elementVars, call, arg, tries, elem, worker>>

Refuse(c) ==
  /\ Return(c, "newEntry", "errStopped")
  /\ tries[c] < MaxNewIDCalls
  /\ stopped
  /\ UNCHANGED <<stopped, started, elementVars, call, arg, tries, elem, worker>>

\* GetOrSet puts a new element into the cache.  Only GetNew initializes it now.
Make(c, id) ==
  /\ IF call[c] = "GetNew" THEN Goto(c, "newEntry", "initItem") /\ UNCHANGED answer
                           ELSE Return(c, "newEntry", "ok")
  /\ tries[c] < MaxNewIDCalls
  /\ made < MaxElements
  /\ made' = made + 1
  /\ elem' = [elem EXCEPT ![c] = made']
  /\ ident' = [ident EXCEPT ![made'] = id]
  /\ place' = [place EXCEPT ![made'] = "live"]
  /\ UNCHANGED <<stopped, started, ready, final, reason, call, arg, tries, worker>>

\* Mutant: newEntry does not look at stopped.
NewUnstopped(c, id) ==
  /\ \A e \in InMap : ident[e] # id
  /\ Make(c, id)

\* Assumption: NewID does not repeat the id of an expired element that is still in
\* the map, which GetOrSet would replace without a call of Finalize.  The ids of
\* rest_impl are random UUIDs.
New(c, id) ==
  /\ ~stopped
  /\ \A e \in InMap : ident[e] # id
  /\ Make(c, id)

InitItem(c) ==
  /\ Return(c, "initItem", "ok")
  /\ ready' = [ready EXCEPT ![elem[c]] = TRUE]
  /\ UNCHANGED <<stopped, started, made, ident, place, final, reason, call, arg,
                 tries, elem, worker>>

Get(c) ==
  /\ Goto(c, "get", "initItem")
  /\ \E e \in Live(arg[c]) : elem' = [elem EXCEPT ![c] = e]
  /\ UNCHANGED <<stopped, started, elementVars, call, arg, tries, answer, worker>>

GetFails(c) ==
  /\ Return(c, "get", "errNotFound")
  /\ Live(arg[c]) = {}
  /\ UNCHANGED <<stopped, started, elementVars, call, arg, tries, elem, worker>>

Evict(c) ==
  /\ Return(c, "evict", "ok")
  /\ Remove({e \in InMap : ident[e] = arg[c]}, "deleted")
  /\ UNCHANGED <<stopped, started, ready, call, arg, tries, elem, worker>>

-----------------------------------------------------------------------------
(* EvictAfter *)

EvictAfterStep == UNCHANGED <<started, call, arg, tries, elem>>

Mark(c) ==
  /\ Goto(c, "mark", "keys")
  /\ stopped' = TRUE
  /\ EvictAfterStep /\ UNCHANGED <<elementVars, answer, worker>>

\* One goroutine for each key.
Keys(c) ==
  /\ Goto(c, "keys", "wait")
  /\ worker' = [worker EXCEPT ![c] =
                  [e \in Elements |-> IF place[e] = "live" THEN "get" ELSE "off"]]
  /\ EvictAfterStep /\ UNCHANGED <<stopped, elementVars, answer>>

WorkerStep(c, e, from, to) ==
  /\ worker[c][e] = from
  /\ worker' = [worker EXCEPT ![c][e] = to]
  /\ EvictAfterStep /\ UNCHANGED <<stopped, at, answer>>

\* initItem, and the call of f begins.
WorkerCall(c, e) ==
  /\ WorkerStep(c, e, "get", "f")
  /\ place[e] = "live"
  /\ ready' = [ready EXCEPT ![e] = TRUE]
  /\ UNCHANGED <<made, ident, place, final, reason>>

\* Mutant: an item that is gone is looked for again.
WorkerSkipAgain(c, e) ==
  /\ WorkerStep(c, e, "get", "get")
  /\ place[e] # "live"
  /\ UNCHANGED elementVars

\* "get the item (if it still exists)"
WorkerSkip(c, e) ==
  /\ WorkerStep(c, e, "get", "done")
  /\ place[e] # "live"
  /\ UNCHANGED elementVars

\* f returns; Delete has an effect if the element is still in the map.
WorkerDelete(c, e) ==
  /\ WorkerStep(c, e, "f", "done")
  /\ Remove({e} \cap InMap, "deleted")
  /\ UNCHANGED ready

\* wg.Wait
Wait(c) ==
  /\ Goto(c, "wait", "deleteExpired")
  /\ \A e \in Elements : worker[c][e] \in {"off", "done"}
  /\ EvictAfterStep /\ UNCHANGED <<stopped, elementVars, answer, worker>>

\* Mutant: EvictAfter returns without it.
SkipDeleteExpired(c) ==
  /\ Return(c, "deleteExpired", "ok")
  /\ EvictAfterStep /\ UNCHANGED <<stopped, elementVars, worker>>

DeleteExpired(c) ==
  /\ Return(c, "deleteExpired", "ok")
  /\ Remove({e \in Elements : place[e] = "expired"}, "expired")
  /\ EvictAfterStep /\ UNCHANGED <<stopped, ready, worker>>

-----------------------------------------------------------------------------
(* Close, which is stop. *)

CloseStep == UNCHANGED <<stopped, made, ident, ready, call, arg, tries, elem, worker>>

StopNothing(c) ==
  /\ Return(c, "stop", "ok")
  /\ ~Stopping /\ ~started
  /\ CloseStep /\ UNCHANGED <<started, elementVars>>

DeleteAll(c) ==
  /\ Goto(c, "stop", "stopping")
  /\ ~Stopping /\ started
  /\ Remove(InMap, "deleted")
  /\ CloseStep /\ UNCHANGED <<started, answer>>

Stop(c) ==
  /\ Return(c, "stopping", "ok")
  /\ started' = FALSE
  /\ CloseStep /\ UNCHANGED elementVars

-----------------------------------------------------------------------------

CallStep(c) ==
  \/ Start(c)
  \/ NewIDFails(c) \/ NoID(c) \/ Refuse(c) \/ \E id \in Ids : New(c, id)
  \/ InitItem(c) \/ Get(c) \/ GetFails(c) \/ Evict(c)
  \/ Mark(c) \/ Keys(c) \/ Wait(c) \/ DeleteExpired(c)
  \/ StopNothing(c) \/ DeleteAll(c) \/ Stop(c)

WorkerNext(c, e) == WorkerCall(c, e) \/ WorkerSkip(c, e) \/ WorkerDelete(c, e)

ElementStep(e) == Expire(e) \/ CleanUp(e) \/ Finalize(e) \/ Finalized(e)

\* All calls have returned and all elements are finalized.
Terminated ==
  /\ \A c \in Callers : at[c] \in {"idle", "returned"}
  /\ \A e \in 1 .. made : final[e] = "done"
  /\ UNCHANGED vars

Next ==
  \/ \E c \in Callers :
       \/ \E k \in Calls, id \in Ids : Call(c, k, id)
       \/ CallStep(c)
       \/ \E e \in Elements : WorkerNext(c, e)
  \/ \E e \in Elements : ElementStep(e)
  \/ Terminated

Spec == Init /\ [][Next]_vars

-----------------------------------------------------------------------------
(* Properties. *)

Places == {"idle", "start", "newEntry", "initItem", "get", "evict", "mark",
           "keys", "wait", "deleteExpired", "stop", "stopping", "returned"}

ElementsOK ==
  /\ made \in 0 .. MaxElements
  /\ ident \in [Elements -> Ids \cup {"none"}]
  /\ place \in [Elements -> {"nowhere", "live", "expired", "removed"}]
  /\ ready \in [Elements -> BOOLEAN]
  /\ final \in [Elements -> {"no", "due", "running", "done"}]
  /\ reason \in [Elements -> {"none", "deleted", "expired"}]
  /\ \A e \in Elements : (place[e] = "nowhere") = (e > made)
  /\ \A e \in Elements : (place[e] = "removed") = (final[e] # "no")

CallersOK ==
  /\ call \in [Callers -> Calls \cup {"none", "Close"}]
  /\ at \in [Callers -> Places]
  /\ arg \in [Callers -> Ids \cup {"none"}]
  /\ tries \in [Callers -> 0 .. MaxNewIDCalls]
  /\ elem \in [Callers -> 0 .. made]
  /\ answer \in [Callers -> {"none", "ok", "errNoID", "errStopped", "errNotFound"}]
  /\ worker \in [Callers -> [Elements -> {"off", "get", "f", "done"}]]

\* Every variable has its type, and an element is finalized, or about to be, if
\* and only if it was removed from the map.
TypeOK ==
  /\ stopped \in BOOLEAN /\ started \in BOOLEAN
  /\ ElementsOK
  /\ CallersOK

\* Nobody gets to see an element before it is initialized: neither the caller
\* of GetNew or Get, nor EvictAfter's f, nor Finalize; and no two calls of New or
\* GetNew return the same element.
InitializedFirst ==
  /\ \A c \in Callers :
       /\ call[c] \in {"GetNew", "Get"} /\ answer[c] = "ok" => ready[elem[c]]
       /\ \A e \in Elements : worker[c][e] = "f" => ready[e]
       /\ \A d \in Callers \ {c} :
            /\ {call[c], call[d]} \subseteq {"New", "GetNew"}
            /\ elem[c] # 0
            => elem[c] # elem[d]
  /\ \A e \in Elements : final[e] \in {"running", "done"} => ready[e]

\* Once EvictAfter has returned, every element there ever was is out of the map,
\* whatever calls and expirations came in between, and none is made any more.
EvictAfterLeavesNothing ==
  \A c \in Callers :
    call[c] = "EvictAfter" /\ at[c] = "returned" =>
      \A e \in 1 .. made : place[e] = "removed"

===========================================================================
