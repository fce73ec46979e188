----------------------------- MODULE PowProcess -----------------------------
(***************************************************************************)
(* What both servers promise of a process, whatever happens on the way to  *)
(* it: proto.Process with its context, its input and its result.           *)
(*                                                                         *)
(* WsSession and RestSession implement it.  A writer is a client that      *)
(* feeds the process; the pieces of its input are numbered in the order    *)
(* it sends them.                                                          *)
(***************************************************************************)
EXTENDS Naturals

CONSTANTS
  Writers,  \* those who send input
  Causes,   \* what a context may be cancelled with
  NoCause   \* the cause of a context that is not cancelled

VARIABLES
  phase,    \* "waiting" for its process, "running", or "over"
  offered,  \* for each writer, the pieces it has sent
  got,      \* for each writer, the pieces the process has read
  ended,    \* the input is at its end
  cause,    \* the cause of the context
  outcome,  \* what the process has come to: "none", "fulfilled", "rejected"
  told      \* what clients were told of it

vars == <<phase, offered, got, ended, cause, outcome, told>>

Init ==
  /\ phase = "waiting"
  /\ offered = [w \in Writers |-> {}]
  /\ got = [w \in Writers |-> {}]
  /\ ended = FALSE
  /\ cause = NoCause
  /\ outcome = "none"
  /\ told = {}

\* A writer sends more pieces; they come after all it has sent before.
Offer(w) ==
  /\ offered[w] \subseteq offered'[w]
  /\ \A p \in offered'[w] \ offered[w], q \in offered[w] : q < p
  /\ \A v \in Writers \ {w} : offered'[v] = offered[v]
  /\ UNCHANGED <<phase, got, ended, cause, outcome, told>>

\* The process reads the next piece of a writer.
Read(w) ==
  /\ phase = "running"
  /\ ~ended
  /\ \E p \in offered[w] \ got[w] :
       /\ \A q \in offered[w] : q < p => q \in got[w]
       /\ got' = [got EXCEPT ![w] = @ \cup {p}]
  /\ UNCHANGED <<phase, offered, ended, cause, outcome, told>>

EndInput ==
  /\ ~ended
  /\ ended' = TRUE
  /\ UNCHANGED <<phase, offered, got, cause, outcome, told>>

\* Only the first cause counts.
Cancel ==
  /\ cause = NoCause
  /\ cause' \in Causes
  /\ UNCHANGED <<phase, offered, got, ended, outcome, told>>

Begin ==
  /\ phase = "waiting"
  /\ phase' = "running"
  /\ UNCHANGED <<offered, got, ended, cause, outcome, told>>

\* The process returns or panics, or there is none to run.
Finish ==
  /\ phase # "over"
  /\ phase' = "over"
  /\ outcome' \in IF phase = "running" THEN {"fulfilled", "rejected"}
                                       ELSE {"rejected"}
  /\ UNCHANGED <<offered, got, ended, cause, told>>

\* A client learns the outcome, when nothing of the process goes on.
Tell ==
  /\ phase = "over"
  /\ cause # NoCause
  /\ told' = told \cup {outcome}
  /\ UNCHANGED <<phase, offered, got, ended, cause, outcome>>

Next ==
  \/ \E w \in Writers : Offer(w) \/ Read(w)
  \/ EndInput \/ Cancel \/ Begin \/ Finish \/ Tell

Spec == Init /\ [][Next]_vars

=============================================================================
